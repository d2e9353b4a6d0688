-------------------------- MODULE BandwidthProofs --------------------------
(***************************************************************************)
(* Proofs about BandwidthLimits for any peers, bandwidths and sizes.  The  *)
(* host's count of limited peers, which is kept by hand in four places of  *)
(* the code and decides whether the limits are looked at, is exact.  The   *)
(* two loops of enet_host_bandwidth_throttle end with shares that fit: no  *)
(* unsigned subtraction wraps, the peers together get no more than there   *)
(* is, and each of them no more than it may have.                          *)
(***************************************************************************)
EXTENDS BandwidthLimits, DataProofs

-----------------------------------------------------------------------------
(* The count of the limited peers *)

\* The limited peers among the connected ones.
LimitedPeers == {p \in connected : Limited(p)}

\* The count, and the types that counting needs.
CInv ==
    /\ connected \subseteq Peers
    /\ limits \in [Peers -> Limits]
    /\ LimitedPeersCounted

\* They are finitely many.
LEMMA LimitedFinite ==
    ASSUME connected \subseteq Peers
    PROVE  IsFiniteSet(LimitedPeers) /\ Cardinality(LimitedPeers) \in Nat
<1>1. LimitedPeers \subseteq Peers
  BY DEF LimitedPeers
<1>2. IsFiniteSet(LimitedPeers)
  BY <1>1, BandwidthAssumption, FS_Subset
<1> QED BY <1>2, FS_CardinalityType

\* Counting with or without one element.
LEMMA CountOne ==
    ASSUME NEW S, IsFiniteSet(S), NEW p
    PROVE  /\ Cardinality(S) \in Nat
           /\ Cardinality(S \cup {p}) = Cardinality(S) + (IF p \in S THEN 0 ELSE 1)
           /\ Cardinality(S \ {p}) = Cardinality(S) - (IF p \in S THEN 1 ELSE 0)
<1>1. Cardinality(S) \in Nat
  BY FS_CardinalityType
<1>2. Cardinality(S \cup {p}) = IF p \in S THEN Cardinality(S) ELSE Cardinality(S) + 1
  BY FS_AddElement
<1>3. Cardinality(S \ {p}) = IF p \in S THEN Cardinality(S) - 1 ELSE Cardinality(S)
  BY FS_RemoveElement
<1> QED BY <1>1, <1>2, <1>3

\* A peer is in the set of limited peers afterwards if it is connected then and
\* announced a limit; no other peer comes or goes.
LEMMA ChangedCount ==
    ASSUME CInv, NEW p \in Peers, NEW l \in Limits,
           connected' = connected \cup {p} \/ connected' = connected \ {p},
           limits' = [limits EXCEPT ![p] = l],
           bandwidthLimitedPeers' =
               bandwidthLimitedPeers - (IF p \in LimitedPeers THEN 1 ELSE 0)
                   + (IF p \in connected' /\ l.incoming # 0 THEN 1 ELSE 0)
    PROVE  CInv'
<1>1. /\ connected \subseteq Peers /\ limits \in [Peers -> Limits]
      /\ IsFiniteSet(LimitedPeers)
      /\ bandwidthLimitedPeers = Cardinality(LimitedPeers)
  BY LimitedFinite DEF CInv, LimitedPeersCounted, LimitedPeers
<1> DEFINE rest == LimitedPeers \ {p}
<1>2. LimitedPeers' = IF p \in connected' /\ l.incoming # 0 THEN rest \cup {p} ELSE rest
  <2>1. \A q \in Peers : q # p => /\ Limited(q)' <=> Limited(q)
                                /\ q \in connected' <=> q \in connected
    BY <1>1 DEF Limited
  <2>2. Limited(p)' <=> l.incoming # 0
    BY <1>1 DEF Limited
  <2>3. connected' \subseteq Peers
    BY <1>1
  <2> QED BY <1>1, <2>1, <2>2, <2>3 DEF LimitedPeers
<1>3. /\ IsFiniteSet(rest) /\ p \notin rest
      /\ Cardinality(rest) = Cardinality(LimitedPeers) - (IF p \in LimitedPeers THEN 1 ELSE 0)
      /\ Cardinality(rest \cup {p}) = Cardinality(rest) + 1
      /\ Cardinality(rest) \in Nat /\ Cardinality(LimitedPeers) \in Nat
  <2>1. IsFiniteSet(rest)
    BY <1>1, FS_RemoveElement
  <2> QED BY <1>1, <2>1, CountOne
<1>4. bandwidthLimitedPeers' = Cardinality(LimitedPeers')
  BY <1>1, <1>2, <1>3
<1>5. connected' \subseteq Peers /\ limits' \in [Peers -> Limits]
  BY <1>1
<1> QED BY <1>4, <1>5 DEF CInv, LimitedPeersCounted, LimitedPeers

\* At first nobody is connected.
LEMMA InitCInv == Init => CInv
<1> SUFFICES ASSUME Init PROVE CInv
  OBVIOUS
<1>1. connected = {} /\ limits \in [Peers -> Limits] /\ bandwidthLimitedPeers = 0
  BY DEF Init, Limits
<1>2. {p \in connected : Limited(p)} = {} /\ Cardinality({}) = 0
  BY <1>1, FS_EmptySet
<1> QED BY <1>1, <1>2 DEF CInv, LimitedPeersCounted

\* Every step keeps the count.
LEMMA NextCInv == CInv /\ [Next]_vars => CInv'
<1> SUFFICES ASSUME CInv, [Next]_vars PROVE CInv'
  OBVIOUS
<1>1. /\ connected \subseteq Peers /\ limits \in [Peers -> Limits]
      /\ bandwidthLimitedPeers \in Int
      /\ PeerLimits \subseteq Limits
  BY LimitedFinite, BandwidthAssumption DEF CInv, LimitedPeersCounted, LimitedPeers
<1>2. ASSUME NEW p \in Peers, NEW l \in PeerLimits,
             NotifyConnect(p, l) \/ DispatchConnect(p, l)
      PROVE  CInv'
  <2>1. /\ p \notin LimitedPeers /\ l \in Limits
        /\ connected' = connected \cup {p} /\ limits' = [limits EXCEPT ![p] = l]
        /\ bandwidthLimitedPeers' = bandwidthLimitedPeers + (IF l.incoming # 0 THEN 1 ELSE 0)
        /\ p \in connected'
    BY <1>1, <1>2 DEF NotifyConnect, DispatchConnect, Connect, LimitedPeers
  <2>2. bandwidthLimitedPeers' =
            bandwidthLimitedPeers - (IF p \in LimitedPeers THEN 1 ELSE 0)
                + (IF p \in connected' /\ l.incoming # 0 THEN 1 ELSE 0)
    BY <1>1, <2>1
  <2> QED BY <2>1, <2>2, ChangedCount
<1>3. ASSUME NEW p \in Peers, NEW l \in PeerLimits, HandleBandwidthLimit(p, l)
      PROVE  CInv'
  <2>1. /\ p \in LimitedPeers <=> Limited(p)
        /\ l \in Limits /\ connected' = connected \cup {p}
        /\ limits' = [limits EXCEPT ![p] = l]
        /\ bandwidthLimitedPeers' = bandwidthLimitedPeers - (IF Limited(p) THEN 1 ELSE 0)
                                        + (IF l.incoming # 0 THEN 1 ELSE 0)
        /\ p \in connected'
    BY <1>1, <1>3 DEF HandleBandwidthLimit, LimitedPeers
  <2> QED BY <2>1, ChangedCount
<1>4. ASSUME NEW p \in Peers, NEW recalculate \in BOOLEAN, Disconnect(p, recalculate)
      PROVE  CInv'
  <2> DEFINE none == [incoming |-> 0, outgoing |-> 0]
  <2>1. /\ p \in LimitedPeers <=> Limited(p)
        /\ none \in Limits /\ connected' = connected \ {p}
        /\ limits' = [limits EXCEPT ![p] = none]
        /\ bandwidthLimitedPeers' = bandwidthLimitedPeers - (IF Limited(p) THEN 1 ELSE 0)
        /\ p \notin connected'
    BY <1>4 DEF Disconnect, LimitedPeers, Limits
  <2>2. bandwidthLimitedPeers' =
            bandwidthLimitedPeers - (IF p \in LimitedPeers THEN 1 ELSE 0)
                + (IF p \in connected' /\ none.incoming # 0 THEN 1 ELSE 0)
    BY <1>1, <2>1
  <2> QED BY <2>1, <2>2, ChangedCount
<1>5. ASSUME UNCHANGED <<connected, limits, bandwidthLimitedPeers>>
      PROVE  CInv'
  BY <1>5 DEF CInv, LimitedPeersCounted, Limited
<1>6. ASSUME NEW l \in HostLimits, HostLimit(l)
      PROVE  CInv'
  BY <1>5, <1>6 DEF HostLimit, peerVars
<1>7. ASSUME NEW p \in Peers, NEW x, Queue(p, x) \/ PeerThrottle(p, x)
      PROVE  CInv'
  BY <1>5, <1>7 DEF Queue, PeerThrottle
<1>8. ASSUME NEW elapsed \in Elapsed, BandwidthThrottle(elapsed)
      PROVE  CInv'
  BY <1>5, <1>8 DEF BandwidthThrottle
<1>9. CASE UNCHANGED vars
  BY <1>5, <1>9 DEF vars, peerVars
<1>10. ASSUME NEW p \in Peers, NEW x, NotifyConnectLater(p) \/ Leave(p, x)
       PROVE  CInv'
  BY <1>5, <1>10 DEF NotifyConnectLater, Leave, peerVars
<1> QED BY <1>2, <1>3, <1>4, <1>6, <1>7, <1>8, <1>9, <1>10 DEF Next

\* host->bandwidthLimitedPeers is the number of connected peers with a limited
\* incoming bandwidth, whatever connects, changes its limits and goes: so
\* enet_host_bandwidth_throttle looks at the limits exactly when there are any.
THEOREM LimitedPeersExact == Spec => []LimitedPeersCounted
<1>1. CInv => LimitedPeersCounted
  BY DEF CInv
<1> QED BY <1>1, InitCInv, NextCInv, PTL DEF Spec

-----------------------------------------------------------------------------
(* Arithmetic of words *)

\* What is rounded down and what is lost.
LEMMA Quotient ==
    ASSUME NEW a \in Nat, NEW b \in Nat \ {0}
    PROVE  /\ a \div b \in Nat
           /\ b * (a \div b) <= a
           /\ a < b * (a \div b) + b
OBVIOUS

\* A quotient is less than what it is compared with when the product is.
LEMMA QuotientBelow ==
    ASSUME NEW a \in Nat, NEW b \in Nat \ {0}, NEW c \in Nat
    PROVE  /\ a <= c * b => a \div b <= c
           /\ a \div b > c => (c + 1) * b <= a
OBVIOUS

\* A number below Word is the word itself.
LEMMA SmallWord ==
    ASSUME NEW a \in Nat, a < Word
    PROVE  a % Word = a
BY BandwidthAssumption

\* The greater of two numbers.
LEMMA MaxOfTwo ==
    ASSUME NEW a \in Int, NEW b \in Int
    PROVE  Max({a, b}) = IF a >= b THEN a ELSE b
BY DEF Max

\* The smaller of two numbers.
LEMMA MinOfTwo ==
    ASSUME NEW a \in Int, NEW b \in Int
    PROVE  Min({a, b}) = IF a <= b THEN a ELSE b
BY DEF Min

\* A bandwidth that BandwidthAssumption allows.
LEMMA AllowedFits ==
    ASSUME NEW b \in Nat, NEW e \in Nat \ {0}, b * e < Word,
           ((b * e) \div Second) * Scale < Word
    PROVE  Allowed(b, e) \in Nat /\ Allowed(b, e) * Scale < Word /\ b < Word
<1>1. b * e \in Nat /\ b <= b * e
  OBVIOUS
<1>2. (b * e) % Word = b * e
  BY <1>1, SmallWord
<1>3. Allowed(b, e) = (b * e) \div Second
  BY <1>2 DEF Allowed, Times
<1>4. Second \in Nat \ {0} /\ Word \in Nat
  BY BandwidthAssumption
<1>5. (b * e) \div Second \in Nat
  BY <1>1, <1>4, Quotient
<1> QED BY <1>1, <1>3, <1>4, <1>5

\* What a peer has that announced no bandwidth.
NoLimits == [incoming |-> 0, outgoing |-> 0]

\* Every bandwidth was given to the host or announced by a peer.
Announced ==
    /\ host \in HostLimits
    /\ \A p \in Peers : limits[p] \in PeerLimits \cup {NoLimits}

\* No bandwidth overflows within the time.
LEMMA NoOverflow ==
    ASSUME Announced, NEW elapsed \in Elapsed
    PROVE  /\ Allowed(host.outgoing, elapsed) \in Nat
           /\ Allowed(host.outgoing, elapsed) * Scale < Word
           /\ host.incoming \in Nat /\ host.incoming < Word
           /\ Receivable(elapsed) \in [Peers -> Nat]
           /\ \A p \in Peers : Receivable(elapsed)[p] * Scale < Word
<1> DEFINE e == elapsed
           Fits(l) == \A b \in {l.incoming, l.outgoing} :
                          /\ b \in Nat /\ Allowed(b, e) \in Nat
                          /\ Allowed(b, e) * Scale < Word /\ b < Word
<1>1. e \in Nat \ {0} /\ Word \in Nat /\ Scale \in Nat
      /\ HostLimits \subseteq Limits /\ PeerLimits \subseteq Limits
  BY BandwidthAssumption
<1>2. ASSUME NEW l \in HostLimits \cup PeerLimits PROVE Fits(l)
  <2>1. l.incoming \in Nat /\ l.outgoing \in Nat
    BY <1>1 DEF Limits
  <2>2. \A b \in {l.incoming, l.outgoing} :
            b * e < Word /\ ((b * e) \div Second) * Scale < Word
    BY BandwidthAssumption
  <2> QED BY <1>1, <2>1, <2>2, AllowedFits
<1>3. Fits(NoLimits)
  <2>1. NoLimits.incoming = 0 /\ NoLimits.outgoing = 0
    BY DEF NoLimits
  <2>2. 0 < Word
    BY BandwidthAssumption
  <2>3. 0 * e = 0 /\ 0 \div Second = 0 /\ 0 * Scale = 0
    BY <1>1, BandwidthAssumption
  <2>4. Allowed(0, e) \in Nat /\ Allowed(0, e) * Scale < Word
    BY <1>1, <2>2, <2>3, AllowedFits
  <2> QED BY <2>1, <2>2, <2>4
<1> HIDE DEF Fits
<1>4. Fits(host)
  BY <1>2 DEF Announced
<1>5. \A p \in Peers : Fits(limits[p])
  BY <1>2, <1>3 DEF Announced
<1>6. \A p \in Peers : Allowed(limits[p].incoming, e) \in Nat
                       /\ Allowed(limits[p].incoming, e) * Scale < Word
  BY <1>5 DEF Fits
<1>7. /\ Allowed(host.outgoing, e) \in Nat /\ Allowed(host.outgoing, e) * Scale < Word
      /\ host.incoming \in Nat /\ host.incoming < Word
  BY <1>4 DEF Fits
<1> QED BY <1>6, <1>7 DEF Receivable

\* The part of the data that fits into the bandwidth: at most all of it.
LEMMA FractionFits ==
    ASSUME NEW b \in Nat, NEW d \in Nat, d <= b \/ b * Scale < Word
    PROVE  Fraction(b, d) \in 0 .. Scale /\ Fraction(b, d) * d <= Scale * b
<1>1. Scale \in Nat
  BY BandwidthAssumption
<1>2. CASE d <= b
  <2>1. Fraction(b, d) = Scale
    BY <1>2 DEF Fraction
  <2>2. Scale * d <= Scale * b
    BY <1>1, <1>2
  <2> QED BY <1>1, <2>1, <2>2
<1>3. CASE ~ (d <= b)
  <2> DEFINE q == (b * Scale) \div d
  <2>1. b * Scale \in Nat /\ b * Scale < Word /\ d \in Nat \ {0}
    BY <1>1, <1>3
  <2>2. Fraction(b, d) = q
    <3>1. (b * Scale) % Word = b * Scale
      BY <2>1, SmallWord
    <3> QED BY <1>3, <3>1 DEF Fraction, Times
  <2>3. q \in Nat /\ d * q <= b * Scale
    BY <2>1, Quotient
  <2>4. b * Scale <= Scale * d
    BY <1>1, <1>3
  <2>5. q <= Scale
    BY <1>1, <2>1, <2>4, QuotientBelow
  <2> HIDE DEF q
  <2>6. q * d = d * q /\ b * Scale = Scale * b
    BY <1>1, <2>3
  <2> QED BY <1>1, <2>2, <2>3, <2>5, <2>6
<1> QED BY <1>2, <1>3

-----------------------------------------------------------------------------
(* The share of the outgoing bandwidth *)

\* The invariant.
BInv == TypeOK /\ LimitedPeersCounted /\ Announced

\* Bytes queued for the peers of a set, and what they may receive.
Data(S) == SumFunctionOnSet(outgoingDataTotal, S)
Receives(S, elapsed) == SumFunctionOnSet(Receivable(elapsed), S)

\* What holds before each round of the loop: no subtraction wrapped, what is left
\* of the total covers what the peers that are left have queued, and those that
\* left may receive less than they have queued.
GoodShare(s, elapsed) ==
    /\ s.dataTotal <= s.bandwidth \/ s.bandwidth * Scale < Word
    /\ Data(s.peers) <= s.dataTotal
    /\ s.bandwidth + Receives(connected \ s.peers, elapsed) = Offered(elapsed).bandwidth
    /\ \A p \in connected \ s.peers :
           Limited(p) /\ Receivable(elapsed)[p] < outgoingDataTotal[p]

Shares(elapsed) ==
    {s \in [peers : SUBSET connected, bandwidth : 0 .. Word - 1, dataTotal : 0 .. Word - 1] :
        GoodShare(s, elapsed)}

\* The sums over connected peers.
LEMMA ShareSums ==
    ASSUME BInv, NEW elapsed \in Elapsed, NEW S \in SUBSET connected
    PROVE  /\ IsFiniteSet(S) /\ S \in SUBSET Peers /\ Cardinality(S) \in Nat
           /\ outgoingDataTotal \in [Peers -> Int] /\ Receivable(elapsed) \in [Peers -> Int]
           /\ Data(S) \in Nat /\ Receives(S, elapsed) \in Nat
<1>1. connected \subseteq Peers /\ outgoingDataTotal \in [Peers -> 0 .. MaxData]
  BY DEF BInv, TypeOK
<1>2. S \in SUBSET Peers /\ IsFiniteSet(S)
  BY <1>1, BandwidthAssumption, FS_Subset
<1>3. Cardinality(S) \in Nat
  BY <1>2, FS_CardinalityType
<1>4. outgoingDataTotal \in [Peers -> Nat]
  BY <1>1, BandwidthAssumption
<1>5. Receivable(elapsed) \in [Peers -> Nat]
  BY NoOverflow DEF BInv
<1>6. Data(S) \in Nat
  BY <1>2, <1>4, SumNat DEF Data
<1>7. Receives(S, elapsed) \in Nat
  BY <1>2, <1>5, SumNat DEF Receives
<1> QED BY <1>2, <1>3, <1>4, <1>5, <1>6, <1>7

\* What two sets of connected peers have together.
LEMMA ShareUnion ==
    ASSUME BInv, NEW elapsed \in Elapsed,
           NEW R \in SUBSET connected, NEW S \in SUBSET connected, R \cap S = {}
    PROVE  /\ Data(R \cup S) = Data(R) + Data(S)
           /\ Receives(R \cup S, elapsed) = Receives(R, elapsed) + Receives(S, elapsed)
<1>1. /\ S \in SUBSET Peers /\ IsFiniteSet(S) /\ R \in SUBSET Peers /\ IsFiniteSet(R)
      /\ outgoingDataTotal \in [Peers -> Int] /\ Receivable(elapsed) \in [Peers -> Int]
  BY ShareSums
<1>2. Data(R \cup S) = Data(R) + Data(S)
  BY <1>1, SumUnion DEF Data
<1>3. Receives(R \cup S, elapsed) = Receives(R, elapsed) + Receives(S, elapsed)
  BY <1>1, SumUnion DEF Receives
<1> QED BY <1>2, <1>3

\* The data of the connected peers fits into a word.
LEMMA DataBelowWord ==
    ASSUME BInv, NEW elapsed \in Elapsed
    PROVE  Data(connected) < Word
<1> DEFINE d == Data(connected)
           n == Cardinality(connected)
           m == MaxData
<1>1. /\ IsFiniteSet(connected) /\ connected \in SUBSET Peers /\ n \in Nat
      /\ outgoingDataTotal \in [Peers -> Int] /\ d \in Nat
  BY ShareSums
<1>2. m \in Nat /\ Word \in Nat /\ Cardinality(Peers) * m < Word /\ IsFiniteSet(Peers)
  BY BandwidthAssumption
<1>3. n <= Cardinality(Peers) /\ Cardinality(Peers) \in Nat
  BY <1>1, <1>2, FS_Subset, FS_CardinalityType
<1>4. 1 * d + (-m) * n <= 0 * d
  <2>1. \A p \in connected : 1 * outgoingDataTotal[p] + (-m) <= 0 * outgoingDataTotal[p]
    BY <1>1, <1>2 DEF BInv, TypeOK
  <2>2. 1 \in Int /\ -m \in Int /\ 0 \in Int
    BY <1>2
  <2> QED BY <1>1, <2>1, <2>2, SumCompare DEF Data
<1> HIDE DEF d, n, m
<1>5. d <= m * n
  BY <1>1, <1>2, <1>4
<1>6. m * n <= Cardinality(Peers) * m
  BY <1>1, <1>2, <1>3
<1>7. m * n \in Nat /\ Cardinality(Peers) * m \in Nat
  BY <1>1, <1>2, <1>3
<1>8. d < Word
  BY <1>1, <1>2, <1>5, <1>6, <1>7
<1> QED BY <1>8 DEF d

\* What there is to share at first.
LEMMA OfferedIsShare ==
    ASSUME BInv, NEW elapsed \in Elapsed
    PROVE  Offered(elapsed) \in Shares(elapsed)
<1> DEFINE s == Offered(elapsed)
<1>1. Word \in Nat \ {0} /\ Scale \in Nat \ {0}
  BY BandwidthAssumption
<1>2. Data(connected) \in Nat /\ Data(connected) < Word
  BY ShareSums, DataBelowWord
<1>3. connected \ s.peers = {} /\ s.peers = connected
  BY DEF Offered
<1>4. Receives({}, elapsed) = 0
  <2>1. {} \in SUBSET Peers /\ IsFiniteSet({}) /\ Receivable(elapsed) \in [Peers -> Int]
    BY ShareSums, FS_EmptySet
  <2> QED BY <2>1, SumChosen DEF Receives
<1>5. /\ s \in [peers : SUBSET connected, bandwidth : 0 .. Word - 1, dataTotal : 0 .. Word - 1]
      /\ s.dataTotal <= s.bandwidth \/ s.bandwidth * Scale < Word
      /\ Data(connected) <= s.dataTotal
  <2>1. CASE host.outgoing = 0
    BY <1>1, <1>2, <2>1 DEF Offered
  <2>2. CASE host.outgoing # 0
    <3> DEFINE a == Allowed(host.outgoing, elapsed)
    <3>1. a \in Nat /\ a * Scale < Word
      BY NoOverflow DEF BInv
    <3>2. s = [peers |-> connected, bandwidth |-> a, dataTotal |-> Data(connected)]
      <4>1. Data(connected) % Word = Data(connected)
        BY <1>2, SmallWord
      <4> QED BY <2>2, <4>1 DEF Offered, Data
    <3>3. a < Word
      <4> HIDE DEF a
      <4>1. a <= a * Scale /\ a * Scale \in Nat
        BY <1>1, <3>1
      <4> QED BY <1>1, <3>1, <4>1
    <3> HIDE DEF a
    <3> QED BY <1>1, <1>2, <3>1, <3>2, <3>3
  <2> QED BY <2>1, <2>2
<1>6. s.bandwidth + Receives(connected \ s.peers, elapsed) = Offered(elapsed).bandwidth
  <2>1. s.bandwidth \in Nat
    BY <1>1, <1>5
  <2> QED BY <1>3, <1>4, <2>1
<1>7. GoodShare(s, elapsed)
  <2>1. \A p \in connected \ s.peers : FALSE
    BY <1>3
  <2>2. Data(s.peers) <= s.dataTotal
    BY <1>3, <1>5
  <2> QED BY <1>5, <1>6, <2>1, <2>2 DEF GoodShare
<1> QED BY <1>5, <1>7 DEF Shares

\* Products keep the order, and their common factor can be left out.
LEMMA ProductOrder ==
    ASSUME NEW a \in Nat, NEW b \in Nat, NEW c \in Nat
    PROVE  /\ a <= b => c * a <= c * b
           /\ c * a <= c * b /\ c # 0 => a <= b
           /\ c * a \in Nat /\ c * b \in Nat
<1>1. a <= b => c * a <= c * b
  OBVIOUS
<1>2. ASSUME c * a <= c * b, c # 0, b < a PROVE FALSE
  <2>1. b + 1 <= a /\ c * (b + 1) <= c * a
    BY <1>2
  <2>2. c * (b + 1) = c * b + c
    OBVIOUS
  <2> QED BY <1>2, <2>1, <2>2
<1> QED BY <1>1, <1>2

\* The data of a set includes that of its subsets.
LEMMA DataSubset ==
    ASSUME BInv, NEW elapsed \in Elapsed,
           NEW S \in SUBSET connected, NEW R \in SUBSET S
    PROVE  /\ Data(S) = Data(R) + Data(S \ R)
           /\ Data(R) \in Nat /\ Data(S \ R) \in Nat /\ Data(R) <= Data(S)
<1> DEFINE U == S \ R
<1>1. R \cup U = S /\ R \cap U = {} /\ R \in SUBSET connected /\ U \in SUBSET connected
  OBVIOUS
<1> HIDE DEF U
<1>2. Data(R \cup U) = Data(R) + Data(U)
  BY <1>1, ShareUnion
<1>3. Data(R) \in Nat /\ Data(U) \in Nat
  BY <1>1, ShareSums
<1>4. Data(S) = Data(R) + Data(U)
  BY <1>1, <1>2, Zenon
<1> QED BY <1>3, <1>4 DEF U

\* A peer is overloaded if what the throttle lets through is more than it may receive.
LEMMA OverloadedPeer ==
    ASSUME BInv, NEW elapsed \in Elapsed, NEW s \in Shares(elapsed), NEW p \in s.peers
    PROVE  LET t == Fraction(s.bandwidth, s.dataTotal)
               a == Receivable(elapsed)[p]
               d == outgoingDataTotal[p]
           IN  /\ t \in 0 .. Scale /\ a \in Nat /\ d \in Nat
               /\ p \in Overloaded(s, elapsed) => Limited(p) /\ Scale * a <= t * d /\ a < d
               /\ p \notin Overloaded(s, elapsed) /\ Limited(p) => (t * d) \div Scale <= a
<1> DEFINE t == Fraction(s.bandwidth, s.dataTotal)
           a == Receivable(elapsed)[p]
           d == outgoingDataTotal[p]
<1>1. Word \in Nat \ {0} /\ Scale \in Nat \ {0} /\ MaxData \in Nat /\ Scale * MaxData < Word
  BY BandwidthAssumption
<1>2. t \in 0 .. Scale
  <2>1. s.bandwidth \in Nat /\ s.dataTotal \in Nat
    BY <1>1 DEF Shares
  <2>2. s.dataTotal <= s.bandwidth \/ s.bandwidth * Scale < Word
    BY DEF Shares, GoodShare
  <2> QED BY <2>1, <2>2, FractionFits
<1>3. d \in 0 .. MaxData /\ a \in Nat
  <2>1. p \in Peers
    BY DEF BInv, TypeOK, Shares
  <2>2. Receivable(elapsed) \in [Peers -> Nat]
    BY NoOverflow DEF BInv
  <2> QED BY <2>1, <2>2 DEF BInv, TypeOK
<1>4. p \in Overloaded(s, elapsed) <=> Limited(p) /\ Times(t, d) \div Scale > a
  BY DEF Overloaded
<1> HIDE DEF t, a, d
<1>5. t * d \in Nat /\ t * d <= Scale * d /\ t * d < Word
  <2>1. t * d \in Nat /\ t * d <= Scale * d /\ Scale * d <= Scale * MaxData
    BY <1>1, <1>2, <1>3
  <2> QED BY <1>1, <1>3, <2>1
<1>6. Times(t, d) = t * d
  BY <1>5, SmallWord DEF Times
<1>7. t \in Nat /\ d \in Nat
  BY <1>1, <1>2, <1>3
<1>8. ASSUME p \in Overloaded(s, elapsed)
      PROVE  Limited(p) /\ Scale * a <= t * d /\ a < d
  <2>1. (a + 1) * Scale <= t * d
    BY <1>1, <1>3, <1>4, <1>5, <1>6, <1>8, QuotientBelow
  <2>2. (a + 1) * Scale = Scale * a + Scale /\ Scale * a \in Nat
    BY <1>1, <1>3
  <2>3. Scale * a <= t * d
    BY <1>1, <1>5, <2>1, <2>2
  <2>4. Scale * (a + 1) <= Scale * d
    BY <1>1, <1>3, <1>5, <1>7, <2>1, <2>2
  <2>5. a + 1 <= d
    BY <1>1, <1>3, <1>7, <2>4, ProductOrder
  <2> QED BY <1>3, <1>4, <1>7, <1>8, <2>3, <2>5
<1>9. ASSUME p \notin Overloaded(s, elapsed), Limited(p)
      PROVE  (t * d) \div Scale <= a
  <2>1. (t * d) \div Scale \in Nat
    BY <1>1, <1>5, Quotient
  <2> QED BY <1>3, <1>4, <1>6, <1>9, <2>1
<1> QED BY <1>2, <1>3, <1>7, <1>8, <1>9 DEF t, a, d

\* What the overloaded peers may receive fits into what is left.
LEMMA OverloadedFit ==
    ASSUME BInv, NEW elapsed \in Elapsed, NEW s \in Shares(elapsed)
    PROVE  LET over == Overloaded(s, elapsed)
           IN  /\ Receives(over, elapsed) <= s.bandwidth
               /\ Receives(over, elapsed) <= Data(over)
<1> DEFINE over == Overloaded(s, elapsed)
           t == Fraction(s.bandwidth, s.dataTotal)
           r == Receives(over, elapsed)
           d == Data(over)
           n == Cardinality(over)
<1>1. over \in SUBSET s.peers /\ s.peers \in SUBSET connected
  BY DEF Overloaded, Shares
<1>2. /\ over \in SUBSET Peers /\ IsFiniteSet(over) /\ n \in Nat
      /\ outgoingDataTotal \in [Peers -> Int] /\ Receivable(elapsed) \in [Peers -> Int]
      /\ d \in Nat /\ r \in Nat
  BY <1>1, ShareSums
<1>3. /\ s.bandwidth \in Nat /\ s.dataTotal \in Nat
      /\ s.dataTotal <= s.bandwidth \/ s.bandwidth * Scale < Word
      /\ Data(s.peers) <= s.dataTotal /\ Scale \in Nat \ {0}
  BY BandwidthAssumption DEF Shares, GoodShare
<1>4. t \in Nat /\ t * s.dataTotal <= Scale * s.bandwidth
  <2>1. t \in 0 .. Scale /\ t * s.dataTotal <= Scale * s.bandwidth
    BY <1>3, FractionFits
  <2> QED BY <1>3, <2>1
<1>5. \A p \in over : /\ Scale * Receivable(elapsed)[p] <= t * outgoingDataTotal[p]
                      /\ Receivable(elapsed)[p] < outgoingDataTotal[p]
  BY <1>1, OverloadedPeer
<1>6. r <= d
  <2>1. \A p \in over : Receivable(elapsed)[p] <= outgoingDataTotal[p]
    BY <1>2, <1>5
  <2> HIDE DEF over
  <2> QED BY <1>2, <2>1, SumLeq DEF Data, Receives
<1>7. Scale * r + 0 * n <= t * d
  <2> HIDE DEF over, t
  <2>1. \A p \in over : Scale * Receivable(elapsed)[p] + 0 <= t * outgoingDataTotal[p]
    <3>1. \A p \in over : Scale * Receivable(elapsed)[p] \in Int
      BY <1>2, <1>3
    <3> QED BY <1>5, <3>1
  <2>2. Scale \in Int /\ t \in Int /\ 0 \in Int
    BY <1>3, <1>4
  <2> QED BY <1>2, <2>1, <2>2, SumCompare DEF Data, Receives
<1>8. d <= s.dataTotal
  <2>1. d <= Data(s.peers) /\ Data(s.peers) \in Nat
    BY <1>1, DataSubset, ShareSums
  <2> QED BY <1>2, <1>3, <2>1
<1> HIDE DEF over, t, r, d, n
<1>9. t * d <= t * s.dataTotal
  BY <1>2, <1>3, <1>4, <1>8, ProductOrder
<1>10. Scale * r <= Scale * s.bandwidth
  <2>1. /\ Scale * r \in Int /\ t * d \in Int /\ t * s.dataTotal \in Int
        /\ Scale * s.bandwidth \in Int /\ 0 * n = 0
    BY <1>2, <1>3, <1>4
  <2> QED BY <1>4, <1>7, <1>9, <2>1
<1>11. r <= s.bandwidth
  BY <1>2, <1>3, <1>10, ProductOrder
<1> QED BY <1>6, <1>11 DEF over, r, d

\* One round of the loop keeps what holds before it.
LEMMA RoundKeepsShare ==
    ASSUME BInv, NEW elapsed \in Elapsed, NEW s \in Shares(elapsed)
    PROVE  WithoutOverloaded(s, elapsed) \in Shares(elapsed)
<1> DEFINE over == Overloaded(s, elapsed)
           r == Receives(over, elapsed)
           w == WithoutOverloaded(s, elapsed)
           left == connected \ s.peers
<1>1. over \in SUBSET s.peers /\ s.peers \in SUBSET connected
  BY DEF Overloaded, Shares
<1>2. /\ s.bandwidth \in 0 .. Word - 1 /\ s.dataTotal \in 0 .. Word - 1
      /\ s.dataTotal <= s.bandwidth \/ s.bandwidth * Scale < Word
      /\ Data(s.peers) <= s.dataTotal
      /\ s.bandwidth + Receives(left, elapsed) = Offered(elapsed).bandwidth
      /\ \A p \in left : Limited(p) /\ Receivable(elapsed)[p] < outgoingDataTotal[p]
      /\ Scale \in Nat \ {0} /\ Word \in Nat \ {0}
  BY BandwidthAssumption DEF Shares, GoodShare
<1>3. r \in Nat /\ r <= s.bandwidth /\ r <= Data(over)
  <2>1. over \in SUBSET connected
    BY <1>1
  <2> QED BY <2>1, ShareSums, OverloadedFit
<1>4. /\ Data(s.peers) = Data(over) + Data(s.peers \ over)
      /\ Data(over) \in Nat /\ Data(s.peers \ over) \in Nat
  BY <1>1, DataSubset
<1>5. r <= s.dataTotal
  BY <1>2, <1>3, <1>4
<1>6. w = [peers |-> s.peers \ over, bandwidth |-> s.bandwidth - r, dataTotal |-> s.dataTotal - r]
  <2>1. (s.bandwidth - r) % Word = s.bandwidth - r /\ (s.dataTotal - r) % Word = s.dataTotal - r
    BY <1>2, <1>3, <1>5, SmallWord
  <2>2. w = [peers     |-> s.peers \ over,
             bandwidth |-> (s.bandwidth - r) % Word,
             dataTotal |-> (s.dataTotal - r) % Word]
    BY Zenon DEF WithoutOverloaded, Receives, Minus
  <2> QED BY <2>1, <2>2, Zenon
<1>7. /\ w.peers = s.peers \ over
      /\ w.bandwidth = s.bandwidth - r /\ w.dataTotal = s.dataTotal - r
  BY <1>6
<1>8. w \in [peers : SUBSET connected, bandwidth : 0 .. Word - 1, dataTotal : 0 .. Word - 1]
  <2>1. s.peers \ over \in SUBSET connected
    BY <1>1
  <2>2. s.bandwidth - r \in 0 .. Word - 1 /\ s.dataTotal - r \in 0 .. Word - 1
    BY <1>2, <1>3, <1>5
  <2> HIDE DEF over, r, w
  <2> QED BY <1>6, <2>1, <2>2
<1>9. connected \ w.peers = left \cup over /\ left \cap over = {} /\ left \in SUBSET connected
  BY <1>1, <1>7
<1>10. Receives(left \cup over, elapsed) = Receives(left, elapsed) + r
  BY <1>1, <1>9, ShareUnion
<1>11. Receives(left, elapsed) \in Nat
  BY ShareSums
<1> HIDE DEF over, w, left
<1>12. w.dataTotal <= w.bandwidth \/ w.bandwidth * Scale < Word
  <2>1. CASE s.dataTotal <= s.bandwidth
    BY <1>2, <1>3, <1>7, <2>1
  <2>2. CASE s.bandwidth * Scale < Word
    <3>1. w.bandwidth \in Nat /\ s.bandwidth \in Nat /\ w.bandwidth <= s.bandwidth
      BY <1>2, <1>3, <1>7
    <3>2. w.bandwidth * Scale <= s.bandwidth * Scale
      BY <1>2, <3>1
    <3> QED BY <1>2, <2>2, <3>1, <3>2
  <2> QED BY <1>2, <2>1, <2>2
<1>13. Data(w.peers) <= w.dataTotal
  <2>1. Data(w.peers) = Data(s.peers \ over)
    BY <1>7
  <2> HIDE DEF r
  <2> QED BY <1>2, <1>3, <1>4, <1>7, <2>1
<1>14. w.bandwidth + Receives(connected \ w.peers, elapsed) = Offered(elapsed).bandwidth
  <2>1. Receives(connected \ w.peers, elapsed) = Receives(left, elapsed) + r
    BY <1>9, <1>10, Zenon
  <2> HIDE DEF r
  <2> QED BY <1>2, <1>3, <1>7, <1>11, <2>1
<1>15. \A p \in connected \ w.peers :
           Limited(p) /\ Receivable(elapsed)[p] < outgoingDataTotal[p]
  <2>1. \A p \in over : Limited(p) /\ Receivable(elapsed)[p] < outgoingDataTotal[p]
    BY <1>1, OverloadedPeer DEF over
  <2> QED BY <1>2, <1>9, <2>1
<1>16. GoodShare(w, elapsed)
  BY <1>12, <1>13, <1>14, <1>15 DEF GoodShare
<1> QED BY <1>8, <1>16 DEF Shares, w

\* Without overloaded peers a round changes nothing.
LEMMA RoundStops ==
    ASSUME BInv, NEW elapsed \in Elapsed, NEW s \in Shares(elapsed),
           Overloaded(s, elapsed) = {}
    PROVE  WithoutOverloaded(s, elapsed) = s
<1>1. Receives({}, elapsed) = 0
  <2>1. {} \in SUBSET Peers /\ IsFiniteSet({}) /\ Receivable(elapsed) \in [Peers -> Int]
    BY ShareSums, FS_EmptySet
  <2> QED BY <2>1, SumChosen DEF Receives
<1>2. s \in [peers : SUBSET connected, bandwidth : 0 .. Word - 1, dataTotal : 0 .. Word - 1]
      /\ Word \in Nat
  BY BandwidthAssumption DEF Shares
<1>3. (s.bandwidth - 0) % Word = s.bandwidth /\ (s.dataTotal - 0) % Word = s.dataTotal
  BY <1>2, SmallWord
<1>4. WithoutOverloaded(s, elapsed) =
          [peers     |-> s.peers \ {},
           bandwidth |-> (s.bandwidth - 0) % Word,
           dataTotal |-> (s.dataTotal - 0) % Word]
  <2>1. SumFunctionOnSet(Receivable(elapsed), {}) = 0
    BY <1>1, Zenon DEF Receives
  <2> QED BY <2>1, Zenon DEF WithoutOverloaded, Minus
<1>5. WithoutOverloaded(s, elapsed) =
          [peers |-> s.peers, bandwidth |-> s.bandwidth, dataTotal |-> s.dataTotal]
  BY <1>3, <1>4
<1> QED BY <1>2, <1>5

\* The rounds of the loop, as the definition of Shared computes them.
Rounds(round, elapsed) ==
    round = [n \in 0 .. Cardinality(Peers) |->
                IF n = 0 THEN Offered(elapsed) ELSE WithoutOverloaded(round[n - 1], elapsed)]

\* The loop can be computed.
LEMMA RoundsExist ==
    ASSUME BInv, NEW elapsed \in Elapsed
    PROVE  \E round : Rounds(round, elapsed)
<1> DEFINE Q == Shares(elapsed)
           n == Cardinality(Peers)
           b == Offered(elapsed)
           step == [i \in 1 .. n |-> [s \in Q |-> WithoutOverloaded(s, elapsed)]]
<1>1. n \in Nat
  BY BandwidthAssumption, FS_CardinalityType
<1>2. b \in Q
  BY OfferedIsShare
<1>3. step \in [1 .. n -> [Q -> Q]]
  <2>1. \A s \in Q : WithoutOverloaded(s, elapsed) \in Q
    BY RoundKeepsShare
  <2> HIDE DEF Q
  <2> QED BY <2>1
<1>4. PICK f : Computes(f, Q, n, b, step)
  <2> HIDE DEF step, Q, b
  <2> QED BY <1>1, <1>2, <1>3, Recursion
<1>5. /\ f \in [0 .. n -> Q] /\ f[0] = b
      /\ \A i \in 1 .. n : f[i] = step[i][f[i - 1]]
  BY <1>4 DEF Computes
<1>6. ASSUME NEW i \in 1 .. n PROVE f[i] = WithoutOverloaded(f[i - 1], elapsed)
  <2>1. i - 1 \in 0 .. n
    BY <1>1
  <2> HIDE DEF Q
  <2>2. f[i - 1] \in Q
    BY <1>5, <2>1
  <2>3. step[i][f[i - 1]] = WithoutOverloaded(f[i - 1], elapsed)
    BY <2>2
  <2> HIDE DEF step
  <2> QED BY <1>5, <2>3
<1>7. ASSUME NEW i \in 0 .. n
      PROVE  f[i] = IF i = 0 THEN b ELSE WithoutOverloaded(f[i - 1], elapsed)
  <2>1. CASE i = 0
    BY <1>5, <2>1
  <2>2. CASE i # 0
    <3>1. i \in 1 .. n
      BY <1>1, <2>2
    <3> QED BY <1>6, <2>2, <3>1
  <2> QED BY <2>1, <2>2
<1>8. f = [i \in 0 .. n |-> IF i = 0 THEN b ELSE WithoutOverloaded(f[i - 1], elapsed)]
  <2> HIDE DEF Q, b
  <2> QED BY <1>5, <1>7
<1> QED BY <1>8, Zenon DEF Rounds

\* The loop ends with a share in which no peer is overloaded.
LEMMA SharedIsShare ==
    ASSUME BInv, NEW elapsed \in Elapsed
    PROVE  Shared(elapsed) \in Shares(elapsed) /\ Overloaded(Shared(elapsed), elapsed) = {}
<1> DEFINE Q == Shares(elapsed)
           n == Cardinality(Peers)
           round == CHOOSE f : Rounds(f, elapsed)
           last == IF bandwidthLimitedPeers > 0 THEN n ELSE 0
<1>1. n \in Nat /\ IsFiniteSet(Peers)
  BY BandwidthAssumption, FS_CardinalityType
<1>2. Rounds(round, elapsed)
  BY RoundsExist
<1>3. Shared(elapsed) = round[last]
  BY Zenon DEF Shared, Rounds
<1> HIDE DEF round
<1>4. \A i \in 0 .. n :
          round[i] = IF i = 0 THEN Offered(elapsed) ELSE WithoutOverloaded(round[i - 1], elapsed)
  BY <1>2, Zenon DEF Rounds
<1> DEFINE Stops(i) == Overloaded(round[i], elapsed) = {}
           Good(i) == round[i] \in Q /\ (Stops(i) \/ Cardinality(round[i].peers) <= n - i)
           G == {i \in 0 .. n : Good(i)}
<1>5. \A s \in Q : /\ IsFiniteSet(s.peers) /\ Cardinality(s.peers) \in Nat
                   /\ Cardinality(s.peers) <= n
                   /\ Overloaded(s, elapsed) \subseteq s.peers
  <2> TAKE s \in Q
  <2>1. s.peers \in SUBSET connected /\ s.peers \in SUBSET Peers
    BY DEF Shares, BInv, TypeOK
  <2>2. Cardinality(s.peers) <= n
    BY <1>1, <2>1, FS_Subset
  <2>3. IsFiniteSet(s.peers) /\ Cardinality(s.peers) \in Nat
    BY <2>1, ShareSums
  <2> QED BY <2>2, <2>3 DEF Overloaded
<1>6. Good(0)
  <2>1. round[0] = Offered(elapsed)
    BY <1>1, <1>4
  <2>2. round[0] \in Q
    BY <2>1, OfferedIsShare
  <2>3. Cardinality(round[0].peers) <= n - 0
    <3> HIDE DEF Q
    <3> QED BY <1>1, <1>5, <2>2
  <2> QED BY <2>2, <2>3
<1>7. ASSUME NEW i \in 1 .. n, Good(i - 1)
      PROVE  Good(i)
  <2> DEFINE s == round[i - 1]
             over == Overloaded(s, elapsed)
  <2>1. round[i] = WithoutOverloaded(s, elapsed)
    <3>1. i \in 0 .. n /\ i # 0
      BY <1>1
    <3> QED BY <1>4, <3>1
  <2>2. s \in Q
    BY <1>7
  <2>3. round[i] \in Q
    BY <2>1, <2>2, RoundKeepsShare
  <2>4. CASE over = {}
    <3>1. round[i] = s
      BY <2>1, <2>2, <2>4, RoundStops
    <3>2. Stops(i)
      BY <2>4, <3>1
    <3> QED BY <2>3, <3>2
  <2>5. CASE over # {}
    <3>1. round[i].peers = s.peers \ over
      BY <2>1 DEF WithoutOverloaded
    <3>2. Cardinality(s.peers) <= n - (i - 1)
      BY <1>7, <2>5
    <3>3. IsFiniteSet(s.peers) /\ Cardinality(s.peers) \in Nat /\ over \subseteq s.peers
      BY <1>5, <2>2
    <3>4. PICK p \in over : TRUE
      BY <2>5
    <3> HIDE DEF over, s
    <3>5. s.peers \ over \subseteq s.peers \ {p} /\ p \in s.peers
      BY <3>3
    <3>6. IsFiniteSet(s.peers \ {p}) /\ Cardinality(s.peers \ {p}) = Cardinality(s.peers) - 1
      BY <3>3, <3>5, FS_RemoveElement
    <3>7. Cardinality(s.peers \ over) <= Cardinality(s.peers \ {p})
      BY <3>5, <3>6, FS_Subset
    <3>8. Cardinality(round[i].peers) \in Nat
      BY <1>5, <2>3
    <3>9. Cardinality(round[i].peers) <= n - i
      BY <1>1, <3>1, <3>2, <3>3, <3>6, <3>7, <3>8
    <3> QED BY <2>3, <3>9
  <2> QED BY <2>4, <2>5
<1>8. 0 .. n \subseteq G
  <2>1. 0 \in G
    BY <1>1, <1>6
  <2>2. \A i \in 1 .. n : i - 1 \in G => i \in G
    <3> HIDE DEF Good
    <3> QED BY <1>1, <1>7
  <2> HIDE DEF G
  <2> QED BY <1>1, <2>1, <2>2, Induct
<1>9. last \in 0 .. n
  BY <1>1
<1>10. Good(last)
  <2>1. last \in G
    BY <1>8, <1>9
  <2> QED BY <2>1
<1>11. Stops(last)
  <2>1. CASE bandwidthLimitedPeers > 0
    <3>1. last = n
      BY <2>1
    <3>2. ASSUME Cardinality(round[n].peers) <= n - n PROVE Stops(n)
      <4>1. round[n] \in Q
        BY <1>10, <3>1
      <4>2. IsFiniteSet(round[n].peers) /\ Cardinality(round[n].peers) = 0
        BY <1>1, <1>5, <3>2, <4>1
      <4>3. round[n].peers = {}
        BY <4>2, FS_EmptySet
      <4> QED BY <1>5, <4>1, <4>3
    <3> QED BY <1>10, <3>1, <3>2
  <2>2. CASE ~ (bandwidthLimitedPeers > 0)
    <3>1. bandwidthLimitedPeers = Cardinality(LimitedPeers)
      BY DEF BInv, LimitedPeersCounted, LimitedPeers
    <3>2. IsFiniteSet(LimitedPeers) /\ Cardinality(LimitedPeers) \in Nat
      BY LimitedFinite DEF BInv, TypeOK
    <3>3. LimitedPeers = {}
      BY <2>2, <3>1, <3>2, FS_EmptySet
    <3>4. round[last].peers \subseteq connected
      BY <1>10 DEF Shares
    <3> QED BY <3>3, <3>4 DEF Overloaded, LimitedPeers
  <2> QED BY <2>1, <2>2
<1>12. round[last] \in Q
  BY <1>10
<1> HIDE DEF last, Q
<1> QED BY <1>3, <1>11, <1>12 DEF Q

\* The limits of the peers that are left and of those that left the loop.
LEMMA LimitFits ==
    ASSUME BInv, NEW elapsed \in Elapsed, NEW p \in connected
    PROVE  LET s == Shared(elapsed)
               l == LimitAfter(p, s, elapsed)
               a == Receivable(elapsed)[p]
               d == outgoingDataTotal[p]
           IN  /\ l \in 0 .. Scale /\ a \in Nat /\ d \in Nat
               /\ p \in s.peers => /\ l = Fraction(s.bandwidth, s.dataTotal)
                                   /\ Limited(p) => (l * d) \div Scale <= a
               /\ p \notin s.peers => Limited(p) /\ (a * Scale < d \/ l * d <= Scale * a)
<1> DEFINE s == Shared(elapsed)
           l == LimitAfter(p, s, elapsed)
           a == Receivable(elapsed)[p]
           d == outgoingDataTotal[p]
<1>1. s \in Shares(elapsed) /\ Overloaded(s, elapsed) = {}
  BY SharedIsShare
<1>2. Scale \in Nat \ {0} /\ MaxData \in Nat
  BY BandwidthAssumption
<1>3. a \in Nat /\ a * Scale < Word /\ d \in Nat
  <2>1. p \in Peers /\ outgoingDataTotal \in [Peers -> 0 .. MaxData]
    BY DEF BInv, TypeOK
  <2>2. Receivable(elapsed) \in [Peers -> Nat] /\ a * Scale < Word
    BY <2>1, NoOverflow DEF BInv
  <2> QED BY <1>2, <2>1, <2>2
<1> HIDE DEF s
<1>4. CASE p \in s.peers
  <2>1. l = Fraction(s.bandwidth, s.dataTotal)
    BY <1>4 DEF LimitAfter
  <2>2. p \notin Overloaded(s, elapsed)
    BY <1>1
  <2>3. l \in 0 .. Scale
    BY <1>1, <1>4, <2>1, OverloadedPeer
  <2>4. Limited(p) => (l * d) \div Scale <= a
    BY <1>1, <1>4, <2>1, <2>2, OverloadedPeer
  <2> HIDE DEF l, a, d
  <2> QED BY <1>3, <1>4, <2>1, <2>3, <2>4 DEF s, l, a, d
<1>5. CASE p \notin s.peers
  <2> DEFINE q == (a * Scale) \div d
  <2>1. Limited(p) /\ a < d
    BY <1>1, <1>5 DEF Shares, GoodShare
  <2>2. l = Max({1, q})
    <3>1. a * Scale \in Nat
      BY <1>2, <1>3
    <3>2. (a * Scale) % Word = a * Scale
      BY <1>3, <3>1, SmallWord
    <3> QED BY <1>5, <3>2 DEF LimitAfter, Times
  <2> HIDE DEF l, a, d
  <2>3. /\ d \in Nat \ {0} /\ a * Scale \in Nat /\ a * Scale <= Scale * d
        /\ a * Scale = Scale * a
    BY <1>2, <1>3, <2>1
  <2>4. q \in Nat /\ d * q <= a * Scale /\ a * Scale < d * q + d
    BY <2>3, Quotient
  <2>5. q <= Scale
    BY <1>2, <2>3, QuotientBelow
  <2> HIDE DEF q
  <2>6. l = IF 1 >= q THEN 1 ELSE q
    BY <2>2, <2>4, MaxOfTwo
  <2>7. l \in 0 .. Scale
    BY <1>2, <2>4, <2>5, <2>6
  <2>8. a * Scale < d \/ l * d <= Scale * a
    <3>1. CASE q = 0
      BY <1>3, <2>3, <2>4, <3>1
    <3>2. CASE q # 0
      <4>1. l = q
        BY <2>4, <2>6, <3>2
      <4>2. l * d = d * q
        BY <2>3, <2>4, <4>1
      <4> QED BY <2>3, <2>4, <4>2
    <3> QED BY <3>1, <3>2
  <2> QED BY <1>3, <1>5, <2>1, <2>7, <2>8 DEF s, l, a, d
<1> QED BY <1>4, <1>5

\* The data of the last interval at the new limits.
LEMMA LimitedDataFits ==
    ASSUME BInv, NEW elapsed \in Elapsed, NEW atLimit \in [Peers -> Nat],
           \A p \in connected :
               atLimit[p] = LimitAfter(p, Shared(elapsed), elapsed) * outgoingDataTotal[p],
           NEW S \in SUBSET connected,
           \A p \in S : ~ (Limited(p) /\ Receivable(elapsed)[p] * Scale < outgoingDataTotal[p])
    PROVE  /\ \A p \in S : Limited(p) => atLimit[p] \div Scale <= Receivable(elapsed)[p]
           /\ SumFunctionOnSet(atLimit, S) <= Scale * Offered(elapsed).bandwidth
<1> DEFINE s == Shared(elapsed)
           t == Fraction(s.bandwidth, s.dataTotal)
           F(U) == SumFunctionOnSet(atLimit, U)
           d(p) == outgoingDataTotal[p]
           a(p) == Receivable(elapsed)[p]
           l(p) == LimitAfter(p, s, elapsed)
           in == S \cap s.peers
           out == S \ s.peers
           left == connected \ s.peers
<1>1. /\ s.peers \in SUBSET connected /\ s.bandwidth \in Nat /\ s.dataTotal \in Nat
      /\ s.dataTotal <= s.bandwidth \/ s.bandwidth * Scale < Word
      /\ Data(s.peers) <= s.dataTotal
      /\ s.bandwidth + Receives(left, elapsed) = Offered(elapsed).bandwidth
      /\ Scale \in Nat \ {0}
  BY SharedIsShare, BandwidthAssumption DEF Shares, GoodShare
<1>2. t \in 0 .. Scale /\ t * s.dataTotal <= Scale * s.bandwidth
  BY <1>1, FractionFits
<1>3. \A p \in S : /\ l(p) \in 0 .. Scale /\ a(p) \in Nat /\ d(p) \in Nat
                   /\ atLimit[p] = l(p) * d(p) /\ p \in connected /\ p \in Peers
                   /\ p \in s.peers => /\ l(p) = t
                                       /\ Limited(p) => (l(p) * d(p)) \div Scale <= a(p)
                   /\ p \notin s.peers => Limited(p) /\ l(p) * d(p) <= Scale * a(p)
  <2> TAKE p \in S
  <2>1. p \in connected /\ p \in Peers
    BY DEF BInv, TypeOK
  <2>2. ~ (Limited(p) /\ a(p) * Scale < d(p))
    OBVIOUS
  <2> QED BY <2>1, <2>2, LimitFits
<1> HIDE DEF s, t, d, a, l
<1>4. ASSUME NEW p \in S, Limited(p) PROVE atLimit[p] \div Scale <= a(p)
  <2>1. CASE p \in s.peers
    BY <1>3, <1>4, <2>1
  <2>2. CASE p \notin s.peers
    <3>1. atLimit[p] <= Scale * a(p) /\ atLimit[p] \in Nat /\ a(p) \in Nat
      BY <1>3, <2>2
    <3>2. Scale * a(p) = a(p) * Scale
      BY <1>1, <3>1
    <3> QED BY <1>1, <3>1, <3>2, QuotientBelow
  <2> QED BY <2>1, <2>2
<1>5. /\ in \in SUBSET connected /\ out \in SUBSET connected /\ left \in SUBSET connected
      /\ in \cap out = {} /\ in \cup out = S /\ in \in SUBSET s.peers /\ out \in SUBSET left
  OBVIOUS
<1>6. /\ in \in SUBSET Peers /\ IsFiniteSet(in) /\ Data(in) \in Nat /\ Cardinality(in) \in Nat
      /\ outgoingDataTotal \in [Peers -> Int] /\ Receivable(elapsed) \in [Peers -> Int]
  BY <1>5, ShareSums
<1>7. /\ out \in SUBSET Peers /\ IsFiniteSet(out) /\ Receives(out, elapsed) \in Nat
      /\ Cardinality(out) \in Nat
  BY <1>5, ShareSums
<1>8. F(in) \in Nat /\ F(out) \in Nat
  BY <1>6, <1>7, SumNat
<1>9. F(S) = F(in) + F(out)
  <2> HIDE DEF in, out
  <2>1. atLimit \in [Peers -> Int]
    OBVIOUS
  <2>2. F(in \cup out) = F(in) + F(out)
    BY <1>5, <1>6, <1>7, <2>1, SumUnion
  <2> HIDE DEF F
  <2> QED BY <1>5, <2>2, Zenon
<1>10. 1 * F(in) + 0 * Cardinality(in) <= t * Data(in)
  <2>1. \A p \in in : 1 * atLimit[p] + 0 <= t * outgoingDataTotal[p]
    <3> TAKE p \in in
    <3>1. p \in S /\ p \in s.peers /\ atLimit[p] \in Nat
      BY <1>6
    <3>2. atLimit[p] = t * d(p)
      BY <1>3, <3>1
    <3> QED BY <3>1, <3>2 DEF d
  <2>2. 1 \in Int /\ 0 \in Int /\ t \in Int /\ atLimit \in [Peers -> Int]
    BY <1>1, <1>2
  <2> HIDE DEF in
  <2> QED BY <1>6, <2>1, <2>2, SumCompare DEF Data
<1>11. 1 * F(out) + 0 * Cardinality(out) <= Scale * Receives(out, elapsed)
  <2>1. \A p \in out : 1 * atLimit[p] + 0 <= Scale * Receivable(elapsed)[p]
    <3> TAKE p \in out
    <3>1. p \in S /\ p \notin s.peers /\ atLimit[p] \in Nat
      BY <1>7
    <3>2. atLimit[p] <= Scale * a(p)
      BY <1>3, <3>1
    <3> QED BY <3>1, <3>2 DEF a
  <2>2. 1 \in Int /\ 0 \in Int /\ Scale \in Int /\ atLimit \in [Peers -> Int]
    BY <1>1
  <2> HIDE DEF out
  <2> QED BY <1>6, <1>7, <2>1, <2>2, SumCompare DEF Receives
<1>12. Data(in) <= s.dataTotal
  <2>1. Data(in) <= Data(s.peers) /\ Data(s.peers) \in Nat
    BY <1>1, <1>5, DataSubset, ShareSums
  <2> QED BY <1>1, <1>6, <2>1
<1>13. Receives(out, elapsed) <= Receives(left, elapsed) /\ Receives(left, elapsed) \in Nat
  <2> DEFINE rest == left \ out
  <2>1. out \cup rest = left /\ out \cap rest = {} /\ rest \in SUBSET connected
    BY <1>5
  <2> HIDE DEF out, left, rest
  <2>2. Receives(out \cup rest, elapsed) = Receives(out, elapsed) + Receives(rest, elapsed)
    BY <1>5, <2>1, ShareUnion
  <2>3. Receives(left, elapsed) = Receives(out, elapsed) + Receives(rest, elapsed)
    BY <2>1, <2>2, Zenon
  <2>4. Receives(rest, elapsed) \in Nat /\ Receives(left, elapsed) \in Nat
    BY <1>5, <2>1, ShareSums
  <2> QED BY <1>7, <2>3, <2>4
<1> HIDE DEF F, in, out, left
<1>14. F(in) <= Scale * s.bandwidth
  <2>1. t * Data(in) <= t * s.dataTotal /\ t * Data(in) \in Nat /\ t * s.dataTotal \in Nat
    BY <1>1, <1>2, <1>6, <1>12, ProductOrder
  <2>2. Scale * s.bandwidth \in Nat
    BY <1>1
  <2> QED BY <1>2, <1>6, <1>8, <1>10, <2>1, <2>2
<1>15. F(out) <= Scale * Receives(left, elapsed)
  <2>1. /\ Scale * Receives(out, elapsed) <= Scale * Receives(left, elapsed)
        /\ Scale * Receives(out, elapsed) \in Nat /\ Scale * Receives(left, elapsed) \in Nat
    BY <1>1, <1>7, <1>13, ProductOrder
  <2> QED BY <1>7, <1>8, <1>11, <2>1
<1>16. F(S) <= Scale * Offered(elapsed).bandwidth
  <2>1. Scale * (s.bandwidth + Receives(left, elapsed))
            = Scale * s.bandwidth + Scale * Receives(left, elapsed)
        /\ Scale * s.bandwidth \in Int /\ Scale * Receives(left, elapsed) \in Int
    BY <1>1, <1>13, Distributes
  <2> QED BY <1>1, <1>8, <1>9, <1>14, <1>15, <2>1
<1> QED BY <1>4, <1>16 DEF F, a

\* What was queued in the last interval fits at the limits that
\* enet_host_bandwidth_throttle sets.
LEMMA ThrottleFits ==
    ASSUME BInv, NEW elapsed \in Elapsed, BandwidthThrottle(elapsed)
    PROVE  DataFits(elapsed)
<1> DEFINE atLimit == [p \in Peers |-> packetThrottleLimit'[p] * outgoingDataTotal[p]]
           raised == {p \in connected : Limited(p)
                          /\ Receivable(elapsed)[p] * Scale < outgoingDataTotal[p]}
           S == connected \ raised
           s == Shared(elapsed)
<1>1. /\ connected \subseteq Peers /\ outgoingDataTotal \in [Peers -> Nat]
      /\ packetThrottleLimit \in [Peers -> Nat] /\ Scale \in Nat
  BY BandwidthAssumption DEF BInv, TypeOK
<1>2. packetThrottleLimit' = [p \in Peers |-> IF p \in connected THEN LimitAfter(p, s, elapsed)
                                              ELSE packetThrottleLimit[p]]
  BY DEF BandwidthThrottle
<1>3. \A p \in connected : packetThrottleLimit'[p] = LimitAfter(p, s, elapsed)
  BY <1>1, <1>2
<1>4. \A p \in Peers : packetThrottleLimit'[p] \in Nat
  <2> TAKE p \in Peers
  <2>1. CASE p \in connected
    <3>1. LimitAfter(p, s, elapsed) \in 0 .. Scale
      BY <2>1, LimitFits
    <3> HIDE DEF s
    <3> QED BY <1>1, <1>3, <2>1, <3>1
  <2>2. CASE p \notin connected
    BY <1>1, <1>2, <2>2
  <2> QED BY <2>1, <2>2
<1>5. atLimit \in [Peers -> Nat]
  BY <1>1, <1>4
<1>6. \A p \in connected :
         atLimit[p] = LimitAfter(p, Shared(elapsed), elapsed) * outgoingDataTotal[p]
  BY <1>1, <1>3
<1>7. /\ S \in SUBSET connected
      /\ \A p \in S : ~ (Limited(p) /\ Receivable(elapsed)[p] * Scale < outgoingDataTotal[p])
  OBVIOUS
<1> HIDE DEF atLimit, S
<1>8. /\ \A p \in S : Limited(p) => atLimit[p] \div Scale <= Receivable(elapsed)[p]
      /\ SumFunctionOnSet(atLimit, S) <= Scale * Offered(elapsed).bandwidth
  BY <1>5, <1>6, <1>7, LimitedDataFits
<1>9. host.outgoing # 0 => Offered(elapsed).bandwidth = Allowed(host.outgoing, elapsed)
  BY DEF Offered
<1>10. host.outgoing # 0 => SumFunctionOnSet(atLimit, S) <= Scale * Allowed(host.outgoing, elapsed)
  BY <1>8, <1>9
<1> QED BY <1>8, <1>10, Zenon DEF DataFits, atLimit, S

-----------------------------------------------------------------------------
(* The invariant *)

\* A peer's values, as TypeOK has them.
PeerOK(p) ==
    /\ packetThrottle[p] \in 0 .. Scale
    /\ packetThrottleLimit[p] \in 0 .. Scale
    /\ packetThrottle[p] <= packetThrottleLimit[p]
    /\ outgoingDataTotal[p] \in 0 .. MaxData
    /\ p \notin connected =>
           /\ ~Limited(p) /\ outgoingDataTotal[p] = 0
           /\ packetThrottle[p] = Scale /\ packetThrottleLimit[p] = Scale

\* The invariant, peer by peer.
LEMMA BInvByPeer ==
    BInv => /\ CInv /\ Announced /\ host \in Limits
            /\ outgoingDataTotal \in [Peers -> 0 .. MaxData]
            /\ packetThrottle \in [Peers -> 0 .. Scale]
            /\ packetThrottleLimit \in [Peers -> 0 .. Scale]
            /\ recalculateBandwidthLimits \in BOOLEAN
            /\ \A p \in Peers : PeerOK(p)
BY DEF BInv, TypeOK, CInv, PeerOK

\* Who waits to be reported as connected is not connected yet.
LEMMA PendingApart ==
    ASSUME connected \subseteq Peers, pending \subseteq Peers \ connected, [Next]_vars
    PROVE  pending' \subseteq Peers \ connected'
<1>1. ASSUME UNCHANGED <<connected, pending>>
      PROVE  pending' \subseteq Peers \ connected'
  BY <1>1
<1>2. ASSUME NEW p \in Peers, NEW l \in PeerLimits, NotifyConnect(p, l)
      PROVE  pending' \subseteq Peers \ connected'
  BY <1>2 DEF NotifyConnect, Connect
<1>3. ASSUME NEW p \in Peers, NEW l \in PeerLimits, DispatchConnect(p, l)
      PROVE  pending' \subseteq Peers \ connected'
  BY <1>3 DEF DispatchConnect, Connect
<1>4. ASSUME NEW p \in Peers, NotifyConnectLater(p)
      PROVE  pending' \subseteq Peers \ connected'
  BY <1>4 DEF NotifyConnectLater
<1>5. ASSUME NEW p \in Peers, NEW recalculate \in BOOLEAN,
             Disconnect(p, recalculate) \/ Leave(p, recalculate)
      PROVE  pending' \subseteq Peers \ connected'
  BY <1>5 DEF Disconnect, Leave
<1>6. ASSUME NEW p \in Peers, NEW x,
             HandleBandwidthLimit(p, x) \/ Queue(p, x) \/ PeerThrottle(p, x)
      PROVE  UNCHANGED <<connected, pending>>
  BY <1>6 DEF HandleBandwidthLimit, Queue, PeerThrottle
<1>7. ASSUME NEW x, HostLimit(x) \/ BandwidthThrottle(x)
      PROVE  UNCHANGED <<connected, pending>>
  BY <1>7 DEF HostLimit, BandwidthThrottle
<1>8. CASE UNCHANGED vars
  BY <1>1, <1>8 DEF vars
<1> QED BY <1>1, <1>2, <1>3, <1>4, <1>5, <1>6, <1>7, <1>8 DEF Next

\* The initial states have the invariant.
LEMMA InitBInv == Init => BInv
<1> SUFFICES ASSUME Init PROVE BInv
  OBVIOUS
<1>1. CInv
  BY InitCInv
<1>2. Scale \in Nat /\ MaxData \in Nat /\ HostLimits \subseteq Limits
  BY BandwidthAssumption
<1>3. Announced /\ host \in Limits
  BY <1>2 DEF Init, Announced, NoLimits
<1>4. outgoingDataTotal \in [Peers -> 0 .. MaxData] /\ packetThrottleLimit \in [Peers -> 0 .. Scale]
  BY <1>2 DEF Init
<1>5. \A p \in Peers : PeerOK(p)
  BY <1>2 DEF Init, PeerOK, Limited
<1>6. recalculateBandwidthLimits \in BOOLEAN
  BY DEF Init
<1>7. bandwidthLimitedPeers \in Nat
  BY DEF Init
<1>8. packetThrottle \in [Peers -> 0 .. Scale]
  BY <1>2 DEF Init
<1>9. pending \subseteq Peers \ connected
  BY DEF Init
<1> QED BY <1>1, <1>3, <1>4, <1>5, <1>6, <1>7, <1>8, <1>9 DEF BInv, TypeOK, CInv, PeerOK

\* Every step keeps it.
LEMMA NextBInv == BInv /\ [Next]_vars => BInv'
<1> SUFFICES ASSUME BInv, [Next]_vars PROVE BInv'
  OBVIOUS
<1> DEFINE Rest ==
        /\ Announced' /\ host' \in Limits
        /\ outgoingDataTotal' \in [Peers -> 0 .. MaxData]
        /\ packetThrottle' \in [Peers -> 0 .. Scale]
        /\ packetThrottleLimit' \in [Peers -> 0 .. Scale]
        /\ recalculateBandwidthLimits' \in BOOLEAN
        /\ \A p \in Peers : PeerOK(p)'
<1>1. /\ CInv /\ Announced /\ host \in Limits
      /\ outgoingDataTotal \in [Peers -> 0 .. MaxData]
      /\ packetThrottle \in [Peers -> 0 .. Scale]
      /\ packetThrottleLimit \in [Peers -> 0 .. Scale]
      /\ recalculateBandwidthLimits \in BOOLEAN
      /\ \A p \in Peers : PeerOK(p)
  BY BInvByPeer
<1>2. CInv'
  BY <1>1, NextCInv
<1>3. connected \subseteq Peers /\ limits \in [Peers -> Limits]
  BY <1>1 DEF CInv
<1>4. /\ Scale \in Nat \ {0} /\ MaxData \in Nat /\ Word \in Nat \ {0}
      /\ Steps \subseteq 0 .. Word - 1 /\ Sizes \subseteq Nat
      /\ HostLimits \subseteq Limits /\ PeerLimits \subseteq Limits
  BY BandwidthAssumption
<1>5. ASSUME NEW p \in Peers, NEW l \in PeerLimits,
             NotifyConnect(p, l) \/ DispatchConnect(p, l) \/ HandleBandwidthLimit(p, l)
      PROVE  Rest
  <2>1. /\ limits' = [limits EXCEPT ![p] = l] /\ p \in connected' /\ connected \subseteq connected'
        /\ \A q \in Peers : q # p => (q \in connected' <=> q \in connected)
        /\ host' = host /\ outgoingDataTotal' = outgoingDataTotal
        /\ packetThrottle' = packetThrottle /\ packetThrottleLimit' = packetThrottleLimit
        /\ recalculateBandwidthLimits' \in BOOLEAN
    BY <1>1, <1>5 DEF NotifyConnect, DispatchConnect, Connect, HandleBandwidthLimit
  <2>2. Announced'
    BY <1>1, <1>3, <2>1 DEF Announced
  <2>3. ASSUME NEW q \in Peers PROVE PeerOK(q)'
    <3>1. PeerOK(q)
      BY <1>1
    <3>2. q # p => limits'[q] = limits[q]
      BY <1>3, <2>1
    <3> QED BY <2>1, <3>1, <3>2 DEF PeerOK, Limited
  <2> QED BY <1>1, <2>1, <2>2, <2>3
<1>6. ASSUME NEW p \in Peers, NEW recalculate \in BOOLEAN, Disconnect(p, recalculate)
      PROVE  Rest
  <2>1. /\ limits' = [limits EXCEPT ![p] = NoLimits] /\ connected' = connected \ {p}
        /\ host' = host /\ outgoingDataTotal' = [outgoingDataTotal EXCEPT ![p] = 0]
        /\ packetThrottle' = [packetThrottle EXCEPT ![p] = Scale]
        /\ packetThrottleLimit' = [packetThrottleLimit EXCEPT ![p] = Scale]
        /\ recalculateBandwidthLimits' \in BOOLEAN
    BY <1>1, <1>6 DEF Disconnect, NoLimits
  <2>2. Announced'
    BY <1>1, <1>3, <2>1 DEF Announced
  <2>3. /\ outgoingDataTotal' \in [Peers -> 0 .. MaxData]
        /\ packetThrottle' \in [Peers -> 0 .. Scale]
        /\ packetThrottleLimit' \in [Peers -> 0 .. Scale]
    BY <1>1, <1>4, <2>1
  <2>4. /\ limits' \in [Peers -> Limits]
        /\ limits'[p] = NoLimits /\ outgoingDataTotal'[p] = 0 /\ packetThrottleLimit'[p] = Scale
    BY <1>1, <1>2, <1>3, <2>1 DEF CInv
  <2>5. \A q \in Peers : packetThrottle'[q] = IF q = p THEN Scale ELSE packetThrottle[q]
    BY <1>1, <2>1
  <2>6. ASSUME NEW q \in Peers PROVE PeerOK(q)'
    <3>1. PeerOK(q)
      BY <1>1
    <3>2. CASE q = p
      BY <1>4, <2>4, <2>5, <3>2 DEF PeerOK, Limited, NoLimits
    <3>3. CASE q # p
      <4>1. /\ limits'[q] = limits[q] /\ outgoingDataTotal'[q] = outgoingDataTotal[q]
            /\ packetThrottle'[q] = packetThrottle[q]
            /\ packetThrottleLimit'[q] = packetThrottleLimit[q]
            /\ (q \in connected' <=> q \in connected)
        BY <1>1, <1>3, <2>1, <2>5, <3>3
      <4> QED BY <3>1, <4>1 DEF PeerOK, Limited
    <3> QED BY <3>2, <3>3
  <2> QED BY <1>1, <2>1, <2>2, <2>3, <2>6
<1>7. ASSUME NEW l \in HostLimits, HostLimit(l)
      PROVE  Rest
  <2>1. /\ host' = l /\ UNCHANGED <<connected, limits>> /\ outgoingDataTotal' = outgoingDataTotal
        /\ packetThrottle' = packetThrottle /\ packetThrottleLimit' = packetThrottleLimit
        /\ recalculateBandwidthLimits' \in BOOLEAN
    BY <1>1, <1>7 DEF HostLimit, peerVars
  <2>2. Announced' /\ host' \in Limits
    BY <1>1, <1>4, <2>1 DEF Announced
  <2>3. \A q \in Peers : PeerOK(q)'
    BY <1>1, <2>1 DEF PeerOK, Limited
  <2> QED BY <1>1, <2>1, <2>2, <2>3
<1>8. ASSUME NEW p \in Peers, NEW size \in Sizes, Queue(p, size)
      PROVE  Rest
  <2>1. /\ UNCHANGED <<host, connected, limits>> /\ p \in connected
        /\ outgoingDataTotal' = [outgoingDataTotal EXCEPT ![p] = @ + size]
        /\ outgoingDataTotal[p] + size \in 0 .. MaxData
        /\ packetThrottle' = packetThrottle /\ packetThrottleLimit' = packetThrottleLimit
        /\ recalculateBandwidthLimits' \in BOOLEAN
    BY <1>1, <1>4, <1>8 DEF Queue
  <2>2. Announced'
    BY <1>1, <2>1 DEF Announced
  <2>3. outgoingDataTotal' \in [Peers -> 0 .. MaxData]
    BY <1>1, <2>1
  <2>4. ASSUME NEW q \in Peers PROVE PeerOK(q)'
    <3>1. PeerOK(q)
      BY <1>1
    <3>2. outgoingDataTotal'[q] \in 0 .. MaxData
          /\ (q \notin connected => outgoingDataTotal'[q] = outgoingDataTotal[q])
      BY <1>1, <2>1, <2>3
    <3> QED BY <2>1, <3>1, <3>2 DEF PeerOK, Limited
  <2> QED BY <1>1, <2>1, <2>2, <2>3, <2>4
<1>9. ASSUME NEW p \in Peers, NEW step \in Steps, PeerThrottle(p, step)
      PROVE  Rest
  <2> DEFINE t == packetThrottle[p]
             m == packetThrottleLimit[p]
  <2>1. /\ UNCHANGED <<host, connected, limits>> /\ p \in connected
        /\ outgoingDataTotal' = outgoingDataTotal /\ packetThrottleLimit' = packetThrottleLimit
        /\ recalculateBandwidthLimits' \in BOOLEAN
    BY <1>1, <1>9 DEF PeerThrottle
  <2>2. m \in 0 .. Scale /\ t \in 0 .. m /\ step \in Nat
    BY <1>1, <1>4 DEF PeerOK
  <2>3. PICK v \in 0 .. m : packetThrottle' = [packetThrottle EXCEPT ![p] = v]
    <3>1. CASE packetThrottle' = [packetThrottle EXCEPT ![p] = m]
      <4>1. m \in 0 .. m
        BY <1>4, <2>2
      <4> QED BY <3>1, <4>1
    <3>2. CASE packetThrottle' = [packetThrottle EXCEPT ![p] = Min({(t + step) % Word, m})]
      <4>1. (t + step) % Word \in Nat
        BY <1>4, <2>2
      <4>2. Min({(t + step) % Word, m}) \in 0 .. m
        <5> HIDE DEF t, m
        <5>1. m \in Int /\ (t + step) % Word \in Int
          BY <2>2, <4>1
        <5>2. Min({(t + step) % Word, m}) = IF (t + step) % Word <= m THEN (t + step) % Word ELSE m
          BY <5>1, MinOfTwo
        <5> QED BY <1>4, <2>2, <4>1, <5>2
      <4> QED BY <3>2, <4>2
    <3>3. CASE packetThrottle' = [packetThrottle EXCEPT ![p] = IF t > step THEN t - step ELSE 0]
      <4>1. (IF t > step THEN t - step ELSE 0) \in 0 .. m
        BY <1>4, <2>2
      <4> QED BY <3>3, <4>1
    <3>4. \/ packetThrottle' = [packetThrottle EXCEPT ![p] = m]
          \/ packetThrottle' = [packetThrottle EXCEPT ![p] = Min({(t + step) % Word, m})]
          \/ packetThrottle' = [packetThrottle EXCEPT ![p] = IF t > step THEN t - step ELSE 0]
      BY <1>9 DEF PeerThrottle
    <3> QED BY <3>1, <3>2, <3>3, <3>4
  <2>4. packetThrottle' \in [Peers -> 0 .. Scale]
    <3>1. v \in 0 .. Scale
      BY <1>4, <2>2
    <3> QED BY <1>1, <2>3, <3>1
  <2>5. \A q \in Peers : packetThrottle'[q] = IF q = p THEN v ELSE packetThrottle[q]
    BY <1>1, <2>3
  <2>6. Announced'
    BY <1>1, <2>1 DEF Announced
  <2>7. ASSUME NEW q \in Peers PROVE PeerOK(q)'
    <3>1. PeerOK(q)
      BY <1>1
    <3>2. v \in 0 .. Scale /\ v <= m
      BY <1>4, <2>2
    <3> QED BY <2>1, <2>5, <3>1, <3>2 DEF PeerOK, Limited
  <2> QED BY <1>1, <2>1, <2>4, <2>6, <2>7
<1>10. ASSUME NEW elapsed \in Elapsed, BandwidthThrottle(elapsed)
      PROVE  Rest
  <2> DEFINE limit(p) == LimitAfter(p, Shared(elapsed), elapsed)
  <2>1. /\ UNCHANGED <<host, connected, limits>> /\ recalculateBandwidthLimits' = FALSE
        /\ outgoingDataTotal' = [p \in Peers |-> 0]
        /\ packetThrottleLimit' =
               [p \in Peers |-> IF p \in connected THEN limit(p) ELSE packetThrottleLimit[p]]
        /\ packetThrottle' =
               [p \in Peers |-> IF p \in connected THEN Min({packetThrottle[p], limit(p)})
                                ELSE packetThrottle[p]]
    BY <1>10 DEF BandwidthThrottle
  <2>2. \A p \in connected : limit(p) \in 0 .. Scale
    BY LimitFits
  <2> HIDE DEF limit
  <2>3. Announced'
    BY <1>1, <2>1 DEF Announced
  <2>4. outgoingDataTotal' \in [Peers -> 0 .. MaxData] /\ \A p \in Peers : outgoingDataTotal'[p] = 0
    BY <1>4, <2>1
  <2>5. packetThrottleLimit' \in [Peers -> 0 .. Scale]
    BY <1>1, <2>1, <2>2
  <2>6. ASSUME NEW q \in Peers PROVE PeerOK(q)' /\ packetThrottle'[q] \in 0 .. Scale
    <3>1. PeerOK(q)
      BY <1>1
    <3>2. CASE q \notin connected
      <4>1. /\ packetThrottle'[q] = packetThrottle[q]
            /\ packetThrottleLimit'[q] = packetThrottleLimit[q]
        BY <2>1, <3>2
      <4> QED BY <1>4, <2>1, <2>4, <3>1, <3>2, <4>1 DEF PeerOK, Limited
    <3>3. CASE q \in connected
      <4>1. /\ packetThrottle'[q] = Min({packetThrottle[q], limit(q)})
            /\ packetThrottleLimit'[q] = limit(q)
        BY <2>1, <3>3
      <4>2. packetThrottle[q] \in Nat /\ limit(q) \in Nat /\ limit(q) \in 0 .. Scale
        BY <1>4, <2>2, <3>1, <3>3 DEF PeerOK
      <4>3. Min({packetThrottle[q], limit(q)})
                = IF packetThrottle[q] <= limit(q) THEN packetThrottle[q] ELSE limit(q)
        BY <4>2, MinOfTwo
      <4>4. packetThrottle'[q] \in 0 .. Scale /\ packetThrottle'[q] <= packetThrottleLimit'[q]
        BY <1>4, <4>1, <4>2, <4>3
      <4>5. outgoingDataTotal'[q] \in 0 .. MaxData
        BY <2>4
      <4> QED BY <2>1, <3>3, <4>1, <4>2, <4>4, <4>5 DEF PeerOK
    <3> QED BY <3>2, <3>3
  <2>7. packetThrottle' \in [Peers -> 0 .. Scale]
    BY <2>1, <2>6
  <2> QED BY <1>1, <2>1, <2>3, <2>4, <2>5, <2>6, <2>7
<1>11. ASSUME UNCHANGED vars
       PROVE  Rest
  <2>1. UNCHANGED <<host, connected, limits, outgoingDataTotal, packetThrottle, packetThrottleLimit,
                    recalculateBandwidthLimits>>
    BY <1>11 DEF vars, peerVars
  <2>2. Announced'
    BY <1>1, <2>1 DEF Announced
  <2>3. \A p \in Peers : PeerOK(p)'
    BY <1>1, <2>1 DEF PeerOK, Limited
  <2>4. /\ host' \in Limits
        /\ outgoingDataTotal' \in [Peers -> 0 .. MaxData]
        /\ packetThrottle' \in [Peers -> 0 .. Scale]
        /\ packetThrottleLimit' \in [Peers -> 0 .. Scale]
        /\ recalculateBandwidthLimits' \in BOOLEAN
    BY <1>1, <2>1
  <2> QED BY <2>2, <2>3, <2>4
<1>12. ASSUME NEW p \in Peers, NEW recalculate \in BOOLEAN,
              NotifyConnectLater(p) \/ Leave(p, recalculate)
       PROVE  Rest
  <2>1. /\ UNCHANGED <<host, connected, limits, outgoingDataTotal, packetThrottle,
                       packetThrottleLimit>>
        /\ recalculateBandwidthLimits' \in BOOLEAN
    BY <1>1, <1>12 DEF NotifyConnectLater, Leave, peerVars
  <2>2. Announced'
    BY <1>1, <2>1 DEF Announced
  <2>3. \A q \in Peers : PeerOK(q)'
    BY <1>1, <2>1 DEF PeerOK, Limited
  <2> QED BY <1>1, <2>1, <2>2, <2>3
<1>13. Rest
  <2> HIDE DEF Rest
  <2>1. CASE \E p \in Peers, l \in PeerLimits :
                NotifyConnect(p, l) \/ DispatchConnect(p, l) \/ HandleBandwidthLimit(p, l)
    BY <1>5, <2>1
  <2>2. CASE \E p \in Peers, recalculate \in BOOLEAN :
                Disconnect(p, recalculate) \/ Leave(p, recalculate)
    BY <1>6, <1>12, <2>2
  <2>3. CASE \E l \in HostLimits : HostLimit(l)
    BY <1>7, <2>3
  <2>4. CASE \E p \in Peers, size \in Sizes : Queue(p, size)
    BY <1>8, <2>4
  <2>5. CASE \E p \in Peers, step \in Steps : PeerThrottle(p, step)
    BY <1>9, <2>5
  <2>6. CASE \E elapsed \in Elapsed : BandwidthThrottle(elapsed)
    BY <1>10, <2>6
  <2>7. CASE \E p \in Peers : NotifyConnectLater(p)
    BY <1>12, <2>7
  <2> QED BY <1>11, <2>1, <2>2, <2>3, <2>4, <2>5, <2>6, <2>7 DEF Next
<1>14. bandwidthLimitedPeers' \in Nat
  <2> DEFINE S == {p \in connected' : Limited(p)'}
  <2>1. S \subseteq Peers /\ bandwidthLimitedPeers' = Cardinality(S)
    BY <1>2 DEF CInv, LimitedPeersCounted
  <2> HIDE DEF S
  <2>2. IsFiniteSet(S)
    BY <2>1, BandwidthAssumption, FS_Subset
  <2> QED BY <2>1, <2>2, FS_CardinalityType
<1>15. pending' \subseteq Peers \ connected'
  BY PendingApart DEF BInv, TypeOK
<1>16. TypeOK'
  BY <1>2, <1>13, <1>14, <1>15 DEF TypeOK, CInv, PeerOK
<1> QED BY <1>2, <1>13, <1>16 DEF BInv, CInv

\* Every variable has its type: a peer's throttle never exceeds the limit that its
\* share of the bandwidth sets, nor the limit the scale.
THEOREM TypeCorrect == Spec => []TypeOK
<1>1. BInv => TypeOK
  BY DEF BInv
<1> QED BY <1>1, InitBInv, NextBInv, PTL DEF Spec

\* enet_host_bandwidth_throttle never lets more through than the host and each
\* limited peer allow, for any number of peers with any bandwidths: its unsigned
\* subtractions do not wrap.
THEOREM OutgoingNeverExceeds == Spec => OutgoingFits
<1>1. BInv /\ [Next]_vars
        => [\A elapsed \in Elapsed : BandwidthThrottle(elapsed) => DataFits(elapsed)]_vars
  BY ThrottleFits
<1> QED BY <1>1, InitBInv, NextBInv, PTL DEF Spec, OutgoingFits

-----------------------------------------------------------------------------
(* The share of the incoming bandwidth *)

\* What the peers of a set send together.
Sent(S) == SumFunctionOnSet(Sends, S)

\* What holds before each round of the loop: no subtraction wrapped, what is left
\* is enough for the last equal part, and those that left send less than it.
GoodFairShare(s) ==
    /\ s.bandwidth + Sent(connected \ s.peers) = host.incoming
    /\ s.each * Cardinality(s.peers) <= s.bandwidth
    /\ \A p \in connected \ s.peers : Sends[p] = 0 \/ Sends[p] < s.each

FairShares ==
    {s \in [peers : SUBSET connected, bandwidth : 0 .. Word - 1, each : Nat] : GoodFairShare(s)}

\* The sums over connected peers.
LEMMA FairSums ==
    ASSUME BInv, NEW S \in SUBSET connected
    PROVE  /\ IsFiniteSet(S) /\ S \in SUBSET Peers /\ Cardinality(S) \in Nat
           /\ Sends \in [Peers -> Nat] /\ Sends \in [Peers -> Int] /\ Sent(S) \in Nat
<1>1. connected \subseteq Peers /\ limits \in [Peers -> Limits]
  BY DEF BInv, TypeOK
<1>2. S \in SUBSET Peers /\ IsFiniteSet(S)
  BY <1>1, BandwidthAssumption, FS_Subset
<1>3. Cardinality(S) \in Nat
  BY <1>2, FS_CardinalityType
<1>4. Sends \in [Peers -> Nat]
  BY <1>1 DEF Sends, Limits
<1>5. Sent(S) \in Nat
  BY <1>2, <1>4, SumNat DEF Sent
<1> QED BY <1>2, <1>3, <1>4, <1>5

\* What two sets of connected peers send together, and how many they are.
LEMMA FairUnion ==
    ASSUME BInv, NEW R \in SUBSET connected, NEW S \in SUBSET connected, R \cap S = {}
    PROVE  /\ Sent(R \cup S) = Sent(R) + Sent(S)
           /\ Cardinality(R \cup S) = Cardinality(R) + Cardinality(S)
<1>1. /\ S \in SUBSET Peers /\ IsFiniteSet(S) /\ R \in SUBSET Peers /\ IsFiniteSet(R)
      /\ Sends \in [Peers -> Int] /\ Cardinality(S) \in Nat /\ Cardinality(R) \in Nat
  BY FairSums
<1>2. Sent(R \cup S) = Sent(R) + Sent(S)
  BY <1>1, SumUnion DEF Sent
<1>3. Cardinality(R \cup S) = Cardinality(R) + Cardinality(S) - Cardinality({})
  BY <1>1, FS_Union
<1>4. Cardinality({}) = 0
  BY FS_EmptySet
<1> QED BY <1>1, <1>2, <1>3, <1>4

\* The equal part does not shrink, and fits.
LEMMA PartFits ==
    ASSUME BInv, NEW s \in FairShares
    PROVE  LET n == Cardinality(s.peers)
               e == EqualPart(s)
           IN  /\ n \in Nat /\ e \in Nat /\ s.each <= e
               /\ e * n <= s.bandwidth
               /\ s.peers # {} => s.bandwidth < e * n + n
<1> DEFINE n == Cardinality(s.peers)
           e == EqualPart(s)
           b == s.bandwidth
<1>1. /\ s.peers \in SUBSET connected /\ b \in Nat /\ s.each \in Nat /\ s.each * n <= b
  BY BandwidthAssumption DEF FairShares, GoodFairShare
<1>2. IsFiniteSet(s.peers) /\ n \in Nat
  BY <1>1, FairSums
<1>3. CASE s.peers = {}
  <2>1. n = 0 /\ e = s.each
    BY <1>3, FS_EmptySet DEF EqualPart
  <2> HIDE DEF n, e, b
  <2> QED BY <1>1, <1>3, <2>1 DEF n, e, b
<1>4. CASE s.peers # {}
  <2>1. n # 0
    BY <1>2, <1>4, FS_EmptySet
  <2>2. e = b \div n
    BY <1>4 DEF EqualPart
  <2> HIDE DEF n, e, b
  <2>3. e \in Nat /\ n * e <= b /\ b < n * e + n
    BY <1>1, <1>2, <2>1, <2>2, Quotient
  <2>4. n * e = e * n /\ n * s.each = s.each * n
    BY <1>1, <1>2, <2>3
  <2>5. s.each <= e
    <3>1. n * s.each < n * (e + 1)
      <4>1. n * (e + 1) = n * e + n * 1 /\ n * e \in Int
        BY <1>2, <2>3, Distributes
      <4> QED BY <1>1, <1>2, <2>3, <2>4, <4>1
    <3>2. ~ (e + 1 <= s.each)
      <4> SUFFICES ASSUME e + 1 <= s.each PROVE FALSE
        OBVIOUS
      <4>1. n * (e + 1) <= n * s.each /\ n * (e + 1) \in Nat /\ n * s.each \in Nat
        BY <1>1, <1>2, <2>3, ProductOrder
      <4> QED BY <3>1, <4>1
    <3> QED BY <1>1, <2>3, <3>2
  <2> QED BY <1>2, <2>3, <2>4, <2>5 DEF n, e, b
<1> QED BY <1>3, <1>4

\* The modest peers send at most an equal part each, so the subtraction does not wrap
\* and an equal part is left for each of the others.
LEMMA ModestFit ==
    ASSUME BInv, NEW s \in FairShares
    PROVE  LET m == Modest(s)
           IN  /\ m \in SUBSET s.peers /\ Sent(m) \in Nat
               /\ EqualPart(s) * Cardinality(s.peers \ m) <= s.bandwidth - Sent(m)
<1> DEFINE m == Modest(s)
           e == EqualPart(s)
           rest == s.peers \ m
           k == Cardinality(m)
           r == Cardinality(rest)
<1>1. /\ s.peers \in SUBSET connected /\ s.bandwidth \in Nat
      /\ m \in SUBSET s.peers
  BY BandwidthAssumption DEF FairShares, Modest
<1>2. e \in Nat /\ e * Cardinality(s.peers) <= s.bandwidth
  BY PartFits
<1>3. /\ m \in SUBSET connected /\ rest \in SUBSET connected /\ m \cap rest = {}
      /\ m \cup rest = s.peers
  BY <1>1
<1>4. /\ Sends \in [Peers -> Nat] /\ Sends \in [Peers -> Int]
      /\ m \in SUBSET Peers /\ IsFiniteSet(m) /\ k \in Nat /\ Sent(m) \in Nat /\ r \in Nat
  BY <1>3, FairSums
<1>5. 1 * Sent(m) + (-e) * k <= 0 * Sent(m)
  <2>1. \A p \in m : 1 * Sends[p] + (-e) <= 0 * Sends[p]
    BY <1>2, <1>4 DEF Modest
  <2>2. 1 \in Int /\ -e \in Int /\ 0 \in Int
    BY <1>2
  <2> HIDE DEF m, e, k
  <2> QED BY <1>4, <2>1, <2>2, SumCompare DEF Sent, k
<1>6. Cardinality(s.peers) = k + r
  <2> HIDE DEF m, rest
  <2>1. Cardinality(m \cup rest) = Cardinality(m) + Cardinality(rest)
    BY <1>3, FairUnion
  <2> QED BY <1>3, <2>1, Zenon
<1> HIDE DEF m, e, rest, k, r
<1>7. e * (k + r) = e * k + e * r /\ e * k \in Int /\ e * r \in Int
  BY <1>2, <1>4, Distributes
<1>8. Sent(m) <= e * k
  BY <1>2, <1>4, <1>5
<1>9. e * r <= s.bandwidth - Sent(m)
  BY <1>1, <1>2, <1>4, <1>6, <1>7, <1>8
<1> QED BY <1>1, <1>4, <1>9 DEF m, e, rest, k, r

\* What there is to share at first.
FairStart == [peers |-> connected, bandwidth |-> host.incoming, each |-> 0]

\* It is a share.
LEMMA FairStartIsShare ==
    ASSUME BInv, NEW elapsed \in Elapsed
    PROVE  FairStart \in FairShares
<1> DEFINE s == FairStart
<1>1. host.incoming \in Nat /\ host.incoming < Word
  BY NoOverflow DEF BInv
<1>2. Sent({}) = 0
  <2>1. {} \in SUBSET Peers /\ IsFiniteSet({}) /\ Sends \in [Peers -> Int]
    BY FairSums, FS_EmptySet
  <2> QED BY <2>1, SumChosen DEF Sent
<1>3. /\ s.peers = connected /\ connected \ s.peers = {}
      /\ s.bandwidth = host.incoming /\ s.each = 0
  BY DEF FairStart
<1>4. s \in [peers : SUBSET connected, bandwidth : 0 .. Word - 1, each : Nat]
  <2>1. host.incoming \in 0 .. Word - 1
    BY <1>1, BandwidthAssumption
  <2> QED BY <2>1 DEF FairStart
<1>5. Cardinality(connected) \in Nat
  BY FairSums
<1> HIDE DEF s
<1>6. GoodFairShare(s)
  <2>1. s.bandwidth + Sent(connected \ s.peers) = host.incoming
    <3>1. Sent(connected \ s.peers) = 0
      BY <1>2, <1>3, Zenon
    <3> QED BY <1>1, <1>3, <3>1
  <2>2. s.each * Cardinality(s.peers) <= s.bandwidth
    BY <1>1, <1>3, <1>5
  <2>3. \A p \in connected \ s.peers : FALSE
    BY <1>3
  <2> QED BY <2>1, <2>2, <2>3 DEF GoodFairShare
<1> QED BY <1>4, <1>6 DEF FairShares, s

\* One round of the loop keeps what holds before it.
LEMMA RoundKeepsFair ==
    ASSUME BInv, NEW s \in FairShares
    PROVE  WithoutModest(s) \in FairShares
<1> DEFINE m == Modest(s)
           e == EqualPart(s)
           w == WithoutModest(s)
           left == connected \ s.peers
<1>1. /\ s.peers \in SUBSET connected /\ s.bandwidth \in 0 .. Word - 1 /\ s.each \in Nat
      /\ s.bandwidth + Sent(left) = host.incoming
      /\ \A p \in left : Sends[p] = 0 \/ Sends[p] < s.each
      /\ Word \in Nat \ {0}
  BY BandwidthAssumption DEF FairShares, GoodFairShare
<1>2. m \in SUBSET s.peers /\ Sent(m) \in Nat
      /\ e * Cardinality(s.peers \ m) <= s.bandwidth - Sent(m)
  BY ModestFit
<1>3. e \in Nat /\ s.each <= e
  BY PartFits
<1>4. Cardinality(s.peers \ m) \in Nat
  <2>1. s.peers \ m \in SUBSET connected
    BY <1>1
  <2> HIDE DEF m
  <2> QED BY <2>1, FairSums
<1>5. Sent(m) <= s.bandwidth
  <2> HIDE DEF m, e
  <2>1. e * Cardinality(s.peers \ m) \in Nat
    BY <1>3, <1>4
  <2> QED BY <1>1, <1>2, <2>1
<1>6. w = [peers |-> s.peers \ m, bandwidth |-> s.bandwidth - Sent(m), each |-> e]
  <2>1. (s.bandwidth - Sent(m)) % Word = s.bandwidth - Sent(m)
    BY <1>1, <1>2, <1>5, SmallWord
  <2>2. w = [peers     |-> s.peers \ m,
             bandwidth |-> (s.bandwidth - Sent(m)) % Word,
             each      |-> e]
    BY Zenon DEF WithoutModest, Sent, Minus
  <2> QED BY <2>1, <2>2, Zenon
<1>7. w.peers = s.peers \ m /\ w.bandwidth = s.bandwidth - Sent(m) /\ w.each = e
  BY <1>6
<1>8. w \in [peers : SUBSET connected, bandwidth : 0 .. Word - 1, each : Nat]
  <2>1. s.peers \ m \in SUBSET connected
    BY <1>1
  <2>2. s.bandwidth - Sent(m) \in 0 .. Word - 1
    BY <1>1, <1>2, <1>5
  <2> HIDE DEF m, e, w
  <2> QED BY <1>3, <1>6, <2>1, <2>2
<1>9. /\ connected \ w.peers = left \cup m /\ left \cap m = {}
      /\ left \in SUBSET connected /\ m \in SUBSET connected
  BY <1>1, <1>2, <1>7
<1>10. \A p \in m : Sends[p] = 0 \/ Sends[p] < e
  BY DEF Modest
<1> HIDE DEF m, e, w, left
<1>11. w.bandwidth + Sent(connected \ w.peers) = host.incoming
  <2>1. Sent(left \cup m) = Sent(left) + Sent(m)
    BY <1>9, FairUnion
  <2>2. Sent(connected \ w.peers) = Sent(left) + Sent(m)
    BY <1>9, <2>1, Zenon
  <2>3. Sent(left) \in Nat
    BY <1>9, FairSums
  <2> QED BY <1>1, <1>2, <1>7, <2>2, <2>3
<1>12. w.each * Cardinality(w.peers) <= w.bandwidth
  BY <1>2, <1>7
<1>13. \A p \in connected \ w.peers : Sends[p] = 0 \/ Sends[p] < w.each
  <2> TAKE p \in connected \ w.peers
  <2>1. CASE p \in m
    BY <1>7, <1>10, <2>1
  <2>2. CASE p \in left
    <3>1. Sends[p] \in Nat
      <4>1. p \in Peers
        BY <1>9, FairSums
      <4> QED BY <4>1, FairSums, <1>9
    <3> QED BY <1>1, <1>3, <1>7, <2>2, <3>1
  <2> QED BY <1>9, <2>1, <2>2
<1>14. GoodFairShare(w)
  BY <1>11, <1>12, <1>13 DEF GoodFairShare
<1> QED BY <1>8, <1>14 DEF FairShares, w

\* A share that a round does not change.
Settled(s) == Modest(s) = {} /\ s.each = EqualPart(s)

\* A round without modest peers leads to a settled share and keeps one.
LEMMA FairStops ==
    ASSUME BInv, NEW s \in FairShares, Modest(s) = {}
    PROVE  Settled(WithoutModest(s))
<1> DEFINE w == WithoutModest(s)
<1>1. Sent({}) = 0
  <2>1. {} \in SUBSET Peers /\ IsFiniteSet({}) /\ Sends \in [Peers -> Int]
    BY FairSums, FS_EmptySet
  <2> QED BY <2>1, SumChosen DEF Sent
<1>2. s \in [peers : SUBSET connected, bandwidth : 0 .. Word - 1, each : Nat] /\ Word \in Nat
  BY BandwidthAssumption DEF FairShares
<1>3. (s.bandwidth - 0) % Word = s.bandwidth
  BY <1>2, SmallWord
<1>4. w = [peers |-> s.peers \ {}, bandwidth |-> (s.bandwidth - 0) % Word, each |-> EqualPart(s)]
  <2>1. SumFunctionOnSet(Sends, {}) = 0
    BY <1>1, Zenon DEF Sent
  <2> QED BY <2>1, Zenon DEF WithoutModest, Minus
<1>5. w.peers = s.peers /\ w.bandwidth = s.bandwidth /\ w.each = EqualPart(s)
  BY <1>3, <1>4
<1>6. EqualPart(w) = EqualPart(s)
  BY <1>5 DEF EqualPart
<1>7. Modest(w) = Modest(s)
  <2> HIDE DEF w
  <2> QED BY <1>5, <1>6, Zenon DEF Modest
<1> QED BY <1>5, <1>6, <1>7 DEF Settled

\* The rounds of the loop, as the definition of FairShare computes them.
FairRounds(round) ==
    round = [n \in 0 .. Cardinality(Peers) + 1 |->
                IF n = 0 THEN [peers |-> connected, bandwidth |-> host.incoming, each |-> 0]
                ELSE WithoutModest(round[n - 1])]

\* The loop can be computed.
LEMMA FairRoundsExist ==
    ASSUME BInv, NEW elapsed \in Elapsed
    PROVE  \E round : FairRounds(round)
<1> DEFINE Q == FairShares
           n == Cardinality(Peers) + 1
           b == FairStart
           step == [i \in 1 .. n |-> [s \in Q |-> WithoutModest(s)]]
<1>1. n \in Nat
  BY BandwidthAssumption, FS_CardinalityType
<1>2. b \in Q
  BY FairStartIsShare
<1>3. step \in [1 .. n -> [Q -> Q]]
  <2>1. \A s \in Q : WithoutModest(s) \in Q
    BY RoundKeepsFair
  <2> HIDE DEF Q
  <2> QED BY <2>1
<1>4. PICK f : Computes(f, Q, n, b, step)
  <2> HIDE DEF step, Q, b, n
  <2> QED BY <1>1, <1>2, <1>3, Recursion
<1> HIDE DEF n
<1>5. /\ f \in [0 .. n -> Q] /\ f[0] = b
      /\ \A i \in 1 .. n : f[i] = step[i][f[i - 1]]
  BY <1>4 DEF Computes
<1>6. ASSUME NEW i \in 1 .. n PROVE f[i] = WithoutModest(f[i - 1])
  <2>1. i - 1 \in 0 .. n
    BY <1>1
  <2> HIDE DEF Q
  <2>2. f[i - 1] \in Q
    BY <1>5, <2>1
  <2>3. step[i][f[i - 1]] = WithoutModest(f[i - 1])
    BY <2>2
  <2> HIDE DEF step
  <2> QED BY <1>5, <2>3
<1>7. ASSUME NEW i \in 0 .. n
      PROVE  f[i] = IF i = 0 THEN b ELSE WithoutModest(f[i - 1])
  <2>1. CASE i = 0
    BY <1>5, <2>1
  <2>2. CASE i # 0
    <3>1. i \in 1 .. n
      BY <1>1, <2>2
    <3> QED BY <1>6, <2>2, <3>1
  <2> QED BY <2>1, <2>2
<1>8. f = [i \in 0 .. n |-> IF i = 0 THEN b ELSE WithoutModest(f[i - 1])]
  <2> HIDE DEF Q, b
  <2> QED BY <1>5, <1>7
<1> QED BY <1>8, Zenon DEF FairRounds, FairStart, n

\* The loop ends with a settled share.
LEMMA FairShareSettles ==
    ASSUME BInv, NEW elapsed \in Elapsed, host.incoming # 0
    PROVE  FairShare \in FairShares /\ Settled(FairShare)
<1> DEFINE Q == FairShares
           n == Cardinality(Peers)
           last == n + 1
           round == CHOOSE f : FairRounds(f)
<1>1. n \in Nat /\ IsFiniteSet(Peers)
  BY BandwidthAssumption, FS_CardinalityType
<1>2. FairRounds(round)
  BY FairRoundsExist
<1>3. FairShare = round[last]
  <2>1. FairShare = round[IF host.incoming = 0 THEN 0 ELSE last]
    BY Zenon DEF FairShare, FairRounds
  <2> HIDE DEF round, last
  <2> QED BY <2>1
<1> HIDE DEF round
<1>4. \A i \in 0 .. last : round[i] = IF i = 0 THEN FairStart ELSE WithoutModest(round[i - 1])
  BY <1>2, Zenon DEF FairRounds, FairStart
<1> DEFINE Good(i) == /\ round[i] \in Q
                      /\ Settled(round[i]) \/ Cardinality(round[i].peers) <= n - i
           G == {i \in 0 .. last : Good(i)}
<1>5. \A s \in Q : /\ IsFiniteSet(s.peers) /\ Cardinality(s.peers) \in Nat
                   /\ Cardinality(s.peers) <= n
                   /\ Modest(s) \subseteq s.peers
  <2> TAKE s \in Q
  <2>1. s.peers \in SUBSET connected /\ s.peers \in SUBSET Peers
    BY DEF FairShares, BInv, TypeOK
  <2>2. Cardinality(s.peers) <= n
    BY <1>1, <2>1, FS_Subset
  <2>3. IsFiniteSet(s.peers) /\ Cardinality(s.peers) \in Nat
    BY <2>1, FairSums
  <2> QED BY <2>2, <2>3 DEF Modest
<1>6. Good(0)
  <2>1. round[0] = FairStart
    BY <1>1, <1>4
  <2>2. round[0] \in Q
    BY <2>1, FairStartIsShare
  <2>3. Cardinality(round[0].peers) <= n - 0
    <3> HIDE DEF Q
    <3> QED BY <1>1, <1>5, <2>2
  <2> QED BY <2>2, <2>3
<1>7. ASSUME NEW i \in 1 .. last, Good(i - 1)
      PROVE  Good(i)
  <2> DEFINE s == round[i - 1]
             m == Modest(s)
  <2>1. round[i] = WithoutModest(s)
    <3>1. i \in 0 .. last /\ i # 0
      BY <1>1
    <3> QED BY <1>4, <3>1
  <2>2. s \in Q
    BY <1>7
  <2>3. round[i] \in Q
    BY <2>1, <2>2, RoundKeepsFair
  <2>4. CASE m = {}
    <3>1. Settled(round[i])
      BY <2>1, <2>2, <2>4, FairStops
    <3> QED BY <2>3, <3>1
  <2>5. CASE m # {}
    <3>1. round[i].peers = s.peers \ m
      BY <2>1 DEF WithoutModest
    <3>2. Cardinality(s.peers) <= n - (i - 1)
      BY <1>7, <2>5 DEF Settled
    <3>3. IsFiniteSet(s.peers) /\ Cardinality(s.peers) \in Nat /\ m \subseteq s.peers
      BY <1>5, <2>2
    <3>4. PICK p \in m : TRUE
      BY <2>5
    <3> HIDE DEF m, s
    <3>5. s.peers \ m \subseteq s.peers \ {p} /\ p \in s.peers
      BY <3>3
    <3>6. IsFiniteSet(s.peers \ {p}) /\ Cardinality(s.peers \ {p}) = Cardinality(s.peers) - 1
      BY <3>3, <3>5, FS_RemoveElement
    <3>7. Cardinality(s.peers \ m) <= Cardinality(s.peers \ {p})
      BY <3>5, <3>6, FS_Subset
    <3>8. Cardinality(round[i].peers) \in Nat
      BY <1>5, <2>3
    <3>9. Cardinality(round[i].peers) <= n - i
      BY <1>1, <3>1, <3>2, <3>3, <3>6, <3>7, <3>8
    <3> QED BY <2>3, <3>9
  <2> QED BY <2>4, <2>5
<1>8. 0 .. last \subseteq G
  <2>1. 0 \in G
    BY <1>1, <1>6
  <2>2. \A i \in 1 .. last : i - 1 \in G => i \in G
    <3> HIDE DEF Good
    <3> QED BY <1>1, <1>7
  <2>3. last \in Nat
    BY <1>1
  <2> HIDE DEF G, last
  <2> QED BY <2>1, <2>2, <2>3, Induct
<1>9. Good(last)
  <2>1. last \in G
    BY <1>1, <1>8
  <2> QED BY <2>1
<1>10. Settled(round[last])
  <2>1. Cardinality(round[last].peers) \in Nat
    BY <1>5, <1>9
  <2> QED BY <1>1, <1>9, <2>1
<1>11. round[last] \in Q
  BY <1>9
<1> QED BY <1>3, <1>10, <1>11, Zenon

\* What the peers are told is fair.
LEMMA ToldIsFair ==
    ASSUME BInv, NEW elapsed \in Elapsed, host.incoming # 0
    PROVE  FairlyTold
<1> DEFINE s == FairShare
           some == {p \in connected : limits[p].outgoing # 0}
           told == [p \in Peers |-> IF p \in some THEN Told(p) ELSE 0]
           e == s.each
           n == Cardinality(s.peers)
           gone == some \ s.peers
           left == connected \ s.peers
           F(S) == SumFunctionOnSet(told, S)
<1>1. /\ s.peers \in SUBSET connected /\ s.bandwidth \in Nat /\ e \in Nat
      /\ s.bandwidth + Sent(left) = host.incoming
      /\ \A p \in left : Sends[p] = 0 \/ Sends[p] < e
      /\ Modest(s) = {} /\ e = EqualPart(s)
  <2>1. s \in FairShares /\ Settled(s)
    BY FairShareSettles
  <2> HIDE DEF s
  <2> QED BY <2>1, BandwidthAssumption DEF FairShares, GoodFairShare, Settled
<1>2. e * n <= s.bandwidth /\ (s.peers # {} => s.bandwidth < e * n + n)
  BY <1>1, FairShareSettles, PartFits
<1>3. connected \subseteq Peers /\ Sends \in [Peers -> Nat] /\ Sends \in [Peers -> Int]
      /\ \A p \in Peers : Sends[p] = limits[p].outgoing
  BY FairSums DEF BInv, TypeOK, Sends
<1> HIDE DEF s, e
<1>4. \A p \in s.peers : p \in some /\ p \in connected /\ p \in Peers
                         /\ Sends[p] >= e /\ Told(p) = e
  <2>1. \A p \in s.peers : Sends[p] # 0 /\ ~ (Sends[p] < e)
    BY <1>1 DEF Modest
  <2> QED BY <1>1, <1>3, <2>1 DEF Told, s, e
<1>5. \A p \in gone : /\ p \in Peers /\ p \in connected /\ p \in left /\ p \in some
                      /\ Sends[p] < e /\ Told(p) = Sends[p]
  BY <1>1, <1>3 DEF Told, s
<1>6. told \in [Peers -> Nat] /\ told \in [Peers -> Int]
  <2>1. \A p \in some : p \in s.peers \/ p \in gone
    OBVIOUS
  <2>2. \A p \in some : Told(p) \in Nat
    BY <1>1, <1>3, <1>4, <1>5, <2>1
  <2> QED BY <2>2
<1>7. /\ s.peers \in SUBSET connected /\ gone \in SUBSET connected /\ left \in SUBSET connected
      /\ some = s.peers \cup gone /\ s.peers \cap gone = {}
  BY <1>1, <1>4
<1>8. /\ s.peers \in SUBSET Peers /\ IsFiniteSet(s.peers) /\ n \in Nat
  BY <1>7, FairSums
<1>9. gone \in SUBSET Peers /\ IsFiniteSet(gone) /\ Sent(gone) \in Nat
  BY <1>7, FairSums
<1>10. F(some) = F(s.peers) + F(gone) /\ F(s.peers) \in Nat /\ F(gone) \in Nat
  <2> HIDE DEF gone, told, some
  <2>1. F(s.peers \cup gone) = F(s.peers) + F(gone)
    BY <1>6, <1>7, <1>8, <1>9, SumUnion
  <2>2. F(s.peers) \in Nat /\ F(gone) \in Nat
    BY <1>6, <1>8, <1>9, SumNat
  <2> HIDE DEF F
  <2> QED BY <1>7, <2>1, <2>2, Zenon
<1>11. F(gone) = Sent(gone)
  <2>1. \A p \in gone : told[p] = Sends[p]
    BY <1>5
  <2> HIDE DEF gone, told
  <2> QED BY <1>3, <1>6, <1>9, <2>1, SumSame DEF Sent
<1>12. Sent(left) = Sent(gone)
  <2> DEFINE zero == left \ gone
             nothing == [p \in Peers |-> 0]
  <2>1. gone \cup zero = left /\ gone \cap zero = {} /\ zero \in SUBSET connected
    BY <1>7
  <2>2. \A p \in zero : Sends[p] = 0
    BY <1>3
  <2>3. /\ zero \in SUBSET Peers /\ IsFiniteSet(zero)
        /\ Cardinality(zero) \in Nat /\ Sent(zero) \in Nat
    BY <2>1, FairSums
  <2>4. 1 * Sent(zero) + 0 * Cardinality(zero) <= 0 * Sent(zero)
    <3>1. \A p \in zero : 1 * Sends[p] + 0 <= 0 * Sends[p]
      BY <2>2
    <3>2. 0 \in Int /\ 1 \in Int
      OBVIOUS
    <3> HIDE DEF zero
    <3> QED BY <1>3, <2>3, <3>1, <3>2, SumCompare DEF Sent
  <2> HIDE DEF zero, gone, left
  <2>5. Sent(gone \cup zero) = Sent(gone) + Sent(zero)
    BY <1>7, <2>1, FairUnion
  <2>6. Sent(left) = Sent(gone) + Sent(zero)
    BY <2>1, <2>5, Zenon
  <2>7. Sent(zero) = 0
    BY <2>3, <2>4
  <2> QED BY <1>9, <2>6, <2>7
<1>13. F(s.peers) = e * n
  <2>1. \A p \in s.peers : told[p] = e
    BY <1>4
  <2> HIDE DEF told, n
  <2>2. 1 * F(s.peers) + (-e) * n <= 0 * F(s.peers)
    <3>1. \A p \in s.peers : 1 * told[p] + (-e) <= 0 * told[p]
      BY <1>1, <2>1
    <3>2. 1 \in Int /\ -e \in Int /\ 0 \in Int
      BY <1>1
    <3> QED BY <1>6, <1>8, <3>1, <3>2, SumCompare DEF n
  <2>3. 0 * F(s.peers) + e * n <= 1 * F(s.peers)
    <3>1. \A p \in s.peers : 0 * told[p] + e <= 1 * told[p]
      BY <1>1, <2>1
    <3>2. 1 \in Int /\ e \in Int /\ 0 \in Int
      BY <1>1
    <3> QED BY <1>6, <1>8, <3>1, <3>2, SumCompare DEF n
  <2> HIDE DEF F
  <2>4. e * n \in Int /\ (-e) * n = -(e * n)
    BY <1>1, <1>8
  <2> QED BY <1>10, <2>2, <2>3, <2>4
<1>14. n <= Cardinality(connected) /\ Cardinality(connected) \in Nat
  BY <1>7, FairSums, FS_Subset
<1> HIDE DEF F, n, told
<1>15. /\ F(some) + s.bandwidth = e * n + host.incoming
       /\ F(some) <= host.incoming
       /\ s.peers # {} => F(some) > host.incoming - Cardinality(connected)
  <2>1. e * n \in Nat /\ Sent(gone) \in Nat /\ Sent(left) \in Nat
    BY <1>1, <1>8, <1>9, <1>12
  <2> HIDE DEF gone, left, some
  <2>2. F(some) + s.bandwidth = e * n + host.incoming
    BY <1>1, <1>8, <1>9, <1>10, <1>11, <1>12, <1>13, <2>1
  <2> QED BY <1>1, <1>2, <1>8, <1>10, <1>14, <2>1, <2>2
<1>16. ASSUME NEW p \in some
       PROVE  \/ Told(p) = limits[p].outgoing
              \/ /\ Told(p) < limits[p].outgoing
                 /\ \A q \in some : Told(q) <= Told(p)
                 /\ F(some) > host.incoming - Cardinality(connected)
  <2>1. CASE p \in gone
    BY <1>3, <1>5, <2>1
  <2>2. CASE p \in s.peers
    <3>1. Told(p) = e /\ e <= limits[p].outgoing /\ limits[p].outgoing \in Nat
      BY <1>1, <1>3, <1>4, <2>2
    <3>2. ASSUME NEW q \in some PROVE Told(q) <= Told(p)
      <4>1. CASE q \in gone
        BY <1>1, <1>3, <1>5, <3>1, <4>1
      <4>2. CASE q \in s.peers
        BY <1>1, <1>4, <3>1, <4>2
      <4> QED BY <1>7, <4>1, <4>2
    <3>3. F(some) > host.incoming - Cardinality(connected)
      BY <1>15, <2>2
    <3> QED BY <1>1, <3>1, <3>2, <3>3
  <2> QED BY <1>7, <2>1, <2>2
<1> QED BY <1>15, <1>16 DEF FairlyTold, F, told

\* Only enet_host_bandwidth_throttle takes back the request for new limits, and what
\* it tells the peers then is fair, for any number of peers with any bandwidths.
THEOREM IncomingSharedFairly == Spec => IncomingShared
<1>1. ASSUME BInv, [Next]_vars, host.incoming # 0,
             recalculateBandwidthLimits, ~recalculateBandwidthLimits'
      PROVE  FairlyTold
  <2>1. ASSUME NEW p \in Peers, NEW l \in PeerLimits,
               NotifyConnect(p, l) \/ DispatchConnect(p, l) \/ HandleBandwidthLimit(p, l)
        PROVE  FALSE
    BY <1>1, <2>1 DEF NotifyConnect, DispatchConnect, HandleBandwidthLimit
  <2>2. ASSUME NEW p \in Peers, NEW recalculate \in BOOLEAN,
               NotifyConnectLater(p) \/ Disconnect(p, recalculate) \/ Leave(p, recalculate)
        PROVE  FALSE
    BY <1>1, <2>2 DEF NotifyConnectLater, Disconnect, Leave
  <2>3. ASSUME NEW l \in HostLimits, HostLimit(l) PROVE FALSE
    BY <1>1, <2>3 DEF HostLimit
  <2>4. ASSUME NEW p \in Peers, NEW x, Queue(p, x) \/ PeerThrottle(p, x) PROVE FALSE
    BY <1>1, <2>4 DEF Queue, PeerThrottle
  <2>5. ASSUME NEW elapsed \in Elapsed, BandwidthThrottle(elapsed) PROVE FairlyTold
    BY <1>1, ToldIsFair
  <2>6. CASE UNCHANGED vars
    BY <1>1, <2>6 DEF vars
  <2> QED BY <1>1, <2>1, <2>2, <2>3, <2>4, <2>5, <2>6 DEF Next
<1>2. BInv /\ [Next]_vars
          => [host.incoming # 0 /\ recalculateBandwidthLimits /\ ~recalculateBandwidthLimits'
                  => FairlyTold]_vars
  BY <1>1
<1> QED BY <1>2, InitBInv, NextBInv, PTL DEF Spec, IncomingShared
=============================================================================
