----------------------- MODULE OutgoingPacketsProofs -----------------------
(***************************************************************************)
(* Proofs about OutgoingPackets for any peers, packets, batches, fragments *)
(* and throttles.                                                          *)
(***************************************************************************)
EXTENDS OutgoingPackets, DataProofs

-----------------------------------------------------------------------------
(* Counting the commands of a packet *)

\* A count is a natural number, and zero if no command of the packet is there.
LEMMA HoldingType ==
    ASSUME NEW S, NEW s \in Seq(S), NEW p
    PROVE  /\ IsFiniteSet({i \in DOMAIN s : s[i].pkt = p})
           /\ Holding(p, s) \in Nat
           /\ Holding(p, s) = 0 <=> \A i \in 1 .. Len(s) : s[i].pkt # p
<1> DEFINE A == {i \in DOMAIN s : s[i].pkt = p}
<1>1. IsFiniteSet(1 .. Len(s)) /\ A \subseteq 1 .. Len(s)
  BY FS_Interval
<1>2. IsFiniteSet(A)
  <2> HIDE DEF A
  <2> QED BY <1>1, FS_Subset
<1>3. Cardinality(A) \in Nat /\ (Cardinality(A) = 0 <=> A = {})
  <2> HIDE DEF A
  <2> QED BY <1>2, FS_CardinalityType, FS_EmptySet
<1> QED BY <1>1, <1>2, <1>3 DEF Holding

\* Counting with an injective map between places.
LEMMA SameCount ==
    ASSUME NEW A, NEW B, IsFiniteSet(A), NEW f \in [A -> B],
           \A x, y \in A : f[x] = f[y] => x = y,
           \A z \in B : \E x \in A : f[x] = z
    PROVE  IsFiniteSet(B) /\ Cardinality(B) = Cardinality(A)
<1>1. f \in Bijection(A, B)
  BY DEF Bijection, Injection, Surjection, IsInjective
<1> QED BY <1>1, FS_Bijection DEF ExistsBijection

\* Lists that are joined have the commands of both.
LEMMA HoldingConcat ==
    ASSUME NEW S, NEW s \in Seq(S), NEW t \in Seq(S), NEW p
    PROVE  Holding(p, s \o t) = Holding(p, s) + Holding(p, t)
<1> DEFINE n == Len(s)
           A == {i \in DOMAIN s : s[i].pkt = p}
           B == {i \in DOMAIN t : t[i].pkt = p}
           C == {i \in DOMAIN (s \o t) : (s \o t)[i].pkt = p}
           D == {i \in n + 1 .. n + Len(t) : (s \o t)[i].pkt = p}
           f == [i \in B |-> n + i]
<1>1. /\ n \in Nat /\ Len(t) \in Nat /\ DOMAIN (s \o t) = 1 .. n + Len(t)
      /\ DOMAIN s = 1 .. n /\ DOMAIN t = 1 .. Len(t)
      /\ \A i \in 1 .. n : (s \o t)[i] = s[i]
      /\ \A i \in n + 1 .. n + Len(t) : (s \o t)[i] = t[i - n]
  OBVIOUS
<1> DEFINE st == s \o t
<1>2. C = A \cup D /\ A \cap D = {}
  <2> HIDE DEF n, st
  <2> QED BY <1>1
<1>3. IsFiniteSet(D) /\ Cardinality(D) = Cardinality(B)
  <2>1. IsFiniteSet(B)
    BY HoldingType
  <2>2. f \in [B -> D] /\ \A x, y \in B : f[x] = f[y] => x = y
    <3>1. ASSUME NEW i \in B PROVE n + i \in D
      <4>1. i \in 1 .. Len(t) /\ n + i - n = i /\ n + i \in n + 1 .. n + Len(t)
        BY <1>1
      <4> QED BY <4>1, <1>1
    <3>2. \A i \in B : i \in Nat
      BY <1>1
    <3> HIDE DEF B, D
    <3> QED BY <3>1, <3>2, <1>1
  <2>3. ASSUME NEW z \in D PROVE \E x \in B : f[x] = z
    <3>1. z - n \in B /\ n + (z - n) = z
      BY <1>1
    <3> QED BY <3>1
  <2> HIDE DEF B, D, f
  <2> QED BY <2>1, <2>2, <2>3, SameCount
<1>4. IsFiniteSet(A) /\ Cardinality(A) \in Nat
  <2>1. IsFiniteSet(A)
    BY HoldingType
  <2> HIDE DEF A
  <2> QED BY <2>1, FS_CardinalityType
<1>5. Cardinality(D) \in Nat
  <2> HIDE DEF D
  <2> QED BY <1>3, FS_CardinalityType
<1>6. Cardinality(C) = Cardinality(A) + Cardinality(D)
  <2> HIDE DEF A, C, D
  <2>1. Cardinality(A \cup D) = Cardinality(A) + Cardinality(D) - Cardinality(A \cap D)
    BY <1>3, <1>4, FS_Union
  <2>2. Cardinality(A \cap D) = 0
    BY <1>2, FS_EmptySet
  <2> QED BY <2>1, <2>2, <1>2, <1>4, <1>5
<1> QED BY <1>3, <1>6 DEF Holding

\* A list of one command.
LEMMA HoldingOne ==
    ASSUME NEW c, NEW p
    PROVE  /\ Holding(p, <<c>>) = IF c.pkt = p THEN 1 ELSE 0
           /\ Holding(p, <<>>) = 0
<1>1. {i \in DOMAIN <<c>> : <<c>>[i].pkt = p} = IF c.pkt = p THEN {1} ELSE {}
  OBVIOUS
<1>2. {i \in DOMAIN <<>> : <<>>[i].pkt = p} = {}
  OBVIOUS
<1>3. Cardinality({1}) = 1 /\ Cardinality({}) = 0
  BY FS_Singleton, FS_EmptySet
<1> QED BY <1>1, <1>2, <1>3 DEF Holding

\* The elements of two lists that are joined.
LEMMA ConcatElements ==
    ASSUME NEW S, NEW s \in Seq(S), NEW t \in Seq(S)
    PROVE  /\ s \o t \in Seq(S) /\ Len(s \o t) = Len(s) + Len(t)
           /\ Len(s) \in Nat /\ Len(t) \in Nat
           /\ \A i \in 1 .. Len(s) : (s \o t)[i] = s[i]
           /\ \A i \in 1 .. Len(t) : (s \o t)[Len(s) + i] = t[i]
<1>1. /\ s \o t \in Seq(S) /\ Len(s \o t) = Len(s) + Len(t) /\ Len(s) \in Nat /\ Len(t) \in Nat
      /\ \A i \in 1 .. Len(s) : (s \o t)[i] = s[i]
  OBVIOUS
<1>2. ASSUME NEW i \in 1 .. Len(t) PROVE (s \o t)[Len(s) + i] = t[i]
  <2>1. Len(s) + i \in 1 .. Len(s) + Len(t) /\ ~ (Len(s) + i <= Len(s)) /\ (Len(s) + i) - Len(s) = i
    BY <1>1
  <2> QED BY <2>1
<1> QED BY <1>1, <1>2

\* The elements of the two parts of a list.
LEMMA PartsElements ==
    ASSUME NEW S, NEW s \in Seq(S), NEW k \in 0 .. Len(s)
    PROVE  /\ SubSeq(s, 1, k) \in Seq(S) /\ Len(SubSeq(s, 1, k)) = k
           /\ SubSeq(s, k + 1, Len(s)) \in Seq(S) /\ Len(SubSeq(s, k + 1, Len(s))) = Len(s) - k
           /\ \A i \in 1 .. k : SubSeq(s, 1, k)[i] = s[i]
           /\ \A i \in 1 .. Len(s) - k : SubSeq(s, k + 1, Len(s))[i] = s[k + i]
OBVIOUS

\* The two parts of a list.
LEMMA HoldingParts ==
    ASSUME NEW S, NEW s \in Seq(S), NEW k \in 0 .. Len(s), NEW p
    PROVE  /\ SubSeq(s, 1, k) \in Seq(S) /\ SubSeq(s, k + 1, Len(s)) \in Seq(S)
           /\ s = SubSeq(s, 1, k) \o SubSeq(s, k + 1, Len(s))
           /\ Holding(p, s) = Holding(p, SubSeq(s, 1, k)) + Holding(p, SubSeq(s, k + 1, Len(s)))
<1> DEFINE a == SubSeq(s, 1, k)
           b == SubSeq(s, k + 1, Len(s))
           n == Len(s)
<1>1. /\ a \in Seq(S) /\ Len(a) = k /\ b \in Seq(S) /\ Len(b) = n - k
      /\ \A i \in 1 .. k : a[i] = s[i]
      /\ \A i \in 1 .. n - k : b[i] = s[k + i]
      /\ n \in Nat /\ k \in 0 .. n
  BY PartsElements
<1>2. s = a \o b
  <2> HIDE DEF a, b
  <2>1. a \o b \in Seq(S) /\ Len(a \o b) = n
    BY <1>1
  <2>2. ASSUME NEW i \in 1 .. n PROVE (a \o b)[i] = s[i]
    <3>1. CASE i \in 1 .. k
      <4>1. (a \o b)[i] = a[i]
        BY <1>1, <3>1
      <4> QED BY <1>1, <3>1, <4>1
    <3>2. CASE i \in k + 1 .. n
      <4>1. (a \o b)[i] = b[i - k] /\ i - k \in 1 .. n - k /\ k + (i - k) = i
        BY <1>1, <3>2
      <4> QED BY <1>1, <4>1
    <3> QED BY <3>1, <3>2, <1>1
  <2> QED BY <2>1, <2>2, SeqEqual
<1>3. Holding(p, a \o b) = Holding(p, a) + Holding(p, b)
  <2> HIDE DEF a, b
  <2> QED BY <1>1, HoldingConcat
<1> QED BY <1>1, <1>2, <1>3

\* A command that is taken out of a list.
LEMMA HoldingRemoveAt ==
    ASSUME NEW S, NEW s \in Seq(S), NEW i \in 1 .. Len(s), NEW p
    PROVE  /\ RemoveAt(s, i) \in Seq(S)
           /\ Holding(p, s) = Holding(p, RemoveAt(s, i)) + Holding(p, <<s[i]>>)
<1> DEFINE a == SubSeq(s, 1, i - 1)
           b == SubSeq(s, i, Len(s))
           c == SubSeq(s, i + 1, Len(s))
<1>1. i - 1 \in 0 .. Len(s) /\ (i - 1) + 1 = i
  OBVIOUS
<1>2. a \in Seq(S) /\ b \in Seq(S) /\ Holding(p, s) = Holding(p, a) + Holding(p, b)
  BY <1>1, HoldingParts
<1>3. c \in Seq(S) /\ <<s[i]>> \in Seq(S) /\ b = <<s[i]>> \o c
  <2>1. /\ c \in Seq(S) /\ Len(c) = Len(s) - i /\ <<s[i]>> \in Seq(S) /\ Len(b) = Len(s) - i + 1
        /\ \A j \in 1 .. Len(s) - i + 1 : b[j] = s[i - 1 + j]
        /\ \A j \in 1 .. Len(s) - i : c[j] = s[i + j]
    OBVIOUS
  <2>2. ASSUME NEW j \in 1 .. Len(b) PROVE (<<s[i]>> \o c)[j] = b[j]
    <3> HIDE DEF b, c
    <3>1. CASE j = 1
      <4>1. (<<s[i]>> \o c)[j] = s[i]
        BY <2>1, <3>1
      <4>2. b[j] = s[i - 1 + 1]
        BY <2>1, <3>1
      <4>3. i - 1 + 1 = i
        OBVIOUS
      <4> QED BY <4>1, <4>2, <4>3
    <3>2. CASE j # 1
      <4>1. (<<s[i]>> \o c)[j] = c[j - 1] /\ j - 1 \in 1 .. Len(s) - i
        BY <2>1, <3>2
      <4>2. i + (j - 1) = i - 1 + j
        BY <2>1
      <4> QED BY <2>1, <4>1, <4>2
    <3> QED BY <3>1, <3>2
  <2>3. <<s[i]>> \o c \in Seq(S) /\ Len(<<s[i]>> \o c) = Len(b)
    BY <2>1
  <2> HIDE DEF b, c
  <2> QED BY <2>1, <2>2, <2>3, <1>2, SeqEqual
<1>4. Holding(p, b) = Holding(p, <<s[i]>>) + Holding(p, c)
  <2> HIDE DEF c
  <2> QED BY <1>3, HoldingConcat
<1>5. a \o c \in Seq(S) /\ Holding(p, a \o c) = Holding(p, a) + Holding(p, c)
  <2> HIDE DEF a, c
  <2> QED BY <1>2, <1>3, HoldingConcat
<1>6. Holding(p, a) \in Nat /\ Holding(p, c) \in Nat /\ Holding(p, <<s[i]>>) \in Nat
  <2> HIDE DEF a, c
  <2> QED BY <1>2, <1>3, HoldingType
<1>7. RemoveAt(s, i) = a \o c
  BY DEF RemoveAt
<1> QED BY <1>2, <1>4, <1>5, <1>6, <1>7

\* x has the elements of s at the places C.
Picks(x, s, C) ==
    /\ \A k \in 1 .. Len(x) : \E i \in 1 .. Len(s) : i \in C /\ x[k] = s[i]
    /\ \A i \in 1 .. Len(s) : i \in C => \E k \in 1 .. Len(x) : x[k] = s[i]

\* The elements that are chosen.
LEMMA ChosenElements ==
    ASSUME NEW S, NEW s \in Seq(S), NEW C
    PROVE  Picks(Chosen(s, C), s, C)
<1> DEFINE t == Chosen(s, C)
<1>1. PICK e : Embeds(e, t, s, Len(s), C)
  BY ChosenEmbeds
<1>2. /\ e \in [1 .. Len(t) -> 1 .. Len(s)]
      /\ \A k \in 1 .. Len(t) : t[k] = s[e[k]] /\ e[k] \in C
      /\ \A j \in 1 .. Len(s) : j \in C => \E k \in 1 .. Len(t) : e[k] = j
  BY <1>1 DEF Embeds
<1> HIDE DEF t
<1>3. ASSUME NEW k \in 1 .. Len(t) PROVE \E i \in 1 .. Len(s) : i \in C /\ t[k] = s[i]
  <2>1. e[k] \in 1 .. Len(s) /\ e[k] \in C /\ t[k] = s[e[k]]
    BY <1>2
  <2> QED BY <2>1
<1>4. ASSUME NEW i \in 1 .. Len(s), i \in C PROVE \E k \in 1 .. Len(t) : t[k] = s[i]
  <2>1. PICK k \in 1 .. Len(t) : e[k] = i
    BY <1>2, <1>4
  <2> QED BY <2>1, <1>2
<1>5. Picks(t, s, C)
  BY <1>3, <1>4 DEF Picks
<1> QED BY <1>5 DEF t

\* What is chosen from a list are the commands at the chosen places.
LEMMA HoldingChosen ==
    ASSUME NEW S, NEW s \in Seq(S), NEW C, NEW p
    PROVE  /\ Chosen(s, C) \in Seq(S)
           /\ Holding(p, Chosen(s, C)) = Cardinality({i \in DOMAIN s : s[i].pkt = p} \cap C)
<1> DEFINE t == Chosen(s, C)
           n == Len(t)
<1>1. t \in Seq(S) /\ n \in Nat
  <2>1. t \in Seq(S)
    BY ChosenEmbeds
  <2> HIDE DEF t
  <2> QED BY <2>1
<1>2. PICK e : Embeds(e, t, s, Len(s), C)
  BY ChosenEmbeds
<1>3. /\ e \in [1 .. n -> 1 .. Len(s)]
      /\ \A k \in 1 .. n : t[k] = s[e[k]] /\ e[k] \in C
      /\ \A k, l \in 1 .. n : k < l => e[k] < e[l]
      /\ \A j \in 1 .. Len(s) : j \in C => \E k \in 1 .. n : e[k] = j
  BY <1>2 DEF Embeds
<1> HIDE DEF t
<1> DEFINE A == {k \in DOMAIN t : t[k].pkt = p}
           B == {i \in DOMAIN s : s[i].pkt = p} \cap C
           f == [k \in A |-> e[k]]
<1>4. DOMAIN t = 1 .. n /\ DOMAIN s = 1 .. Len(s)
  BY <1>1
<1> HIDE DEF n
<1>5. IsFiniteSet(A)
  BY <1>1, HoldingType
<1>6. f \in [A -> B]
  BY <1>3, <1>4
<1>7. ASSUME NEW k \in A, NEW l \in A, f[k] = f[l] PROVE k = l
  <2>1. k \in 1 .. n /\ l \in 1 .. n /\ e[k] = e[l] /\ e[k] \in Nat
    BY <1>3, <1>4, <1>7
  <2>2. ~ (k < l) /\ ~ (l < k)
    BY <1>3, <2>1
  <2> QED BY <2>1, <2>2, <1>1
<1>8. ASSUME NEW j \in B PROVE \E k \in A : f[k] = j
  <2>1. j \in 1 .. Len(s) /\ j \in C /\ s[j].pkt = p
    BY <1>4
  <2>2. PICK k \in 1 .. n : e[k] = j
    BY <1>3, <2>1
  <2>3. k \in A
    BY <2>1, <2>2, <1>3, <1>4
  <2> QED BY <2>2, <2>3
<1>9. Cardinality(B) = Cardinality(A)
  <2> HIDE DEF A, B, f
  <2> QED BY <1>5, <1>6, <1>7, <1>8, SameCount
<1> QED BY <1>1, <1>9 DEF Holding, t, n

\* What is chosen and the rest are the whole list.
LEMMA HoldingDivided ==
    ASSUME NEW S, NEW s \in Seq(S), NEW C, NEW p
    PROVE  /\ Chosen(s, C) \in Seq(S) /\ Others(s, C) \in Seq(S)
           /\ Holding(p, s) = Holding(p, Chosen(s, C)) + Holding(p, Others(s, C))
<1> DEFINE A == {i \in DOMAIN s : s[i].pkt = p}
           D == DOMAIN s \ C
<1>1. IsFiniteSet(A)
  BY HoldingType
<1>2. /\ Chosen(s, C) \in Seq(S) /\ Chosen(s, D) \in Seq(S)
      /\ Holding(p, Chosen(s, C)) = Cardinality(A \cap C)
      /\ Holding(p, Chosen(s, D)) = Cardinality(A \cap D)
  BY HoldingChosen
<1>3. A = (A \cap C) \cup (A \cap D) /\ (A \cap C) \cap (A \cap D) = {}
  OBVIOUS
<1>4. Cardinality(A) = Cardinality(A \cap C) + Cardinality(A \cap D)
  <2> HIDE DEF A, D
  <2>1. IsFiniteSet(A \cap C) /\ IsFiniteSet(A \cap D)
    BY <1>1, FS_Subset
  <2> DEFINE X == A \cap C
             Y == A \cap D
  <2>2. X \cup Y = A /\ X \cap Y = {} /\ IsFiniteSet(X) /\ IsFiniteSet(Y)
    BY <1>3, <2>1
  <2>3. Cardinality(X) + Cardinality(Y) - Cardinality({}) = Cardinality(A)
    <3> HIDE DEF X, Y
    <3> QED BY <2>2, FS_Union
  <2>4. Cardinality(X) \in Nat /\ Cardinality(Y) \in Nat /\ Cardinality({}) = 0
    <3> HIDE DEF X, Y
    <3> QED BY <2>2, FS_CardinalityType, FS_EmptySet
  <2> QED BY <2>3, <2>4
<1> QED BY <1>2, <1>4 DEF Holding, Others

-----------------------------------------------------------------------------
(* Counting over all peers *)

\* The places of p in the lists L of some peers.
PlacesIn(L, Q, p) == UNION {{q} \X {i \in DOMAIN L[q] : L[q][i].pkt = p} : q \in Q}

\* The places of one peer count apart from those of the others.
LEMMA PlacesSplit ==
    ASSUME NEW L \in [Peers -> Seq(CommandSpace)], NEW q \in Peers, NEW p
    PROVE  /\ IsFiniteSet(PlacesIn(L, Peers, p)) /\ Cardinality(PlacesIn(L, Peers, p)) \in Nat
           /\ Cardinality(PlacesIn(L, Peers \ {q}, p)) \in Nat
           /\ Cardinality(PlacesIn(L, Peers, p)) =
                  Cardinality(PlacesIn(L, Peers \ {q}, p)) + Holding(p, L[q])
<1> DEFINE Q == Peers
<1>0. IsFiniteSet(Peers)
  BY PacketsAssumption, FS_Interval DEF Peers
<1> DEFINE At(r) == {i \in DOMAIN L[r] : L[r][i].pkt = p}
           Pairs(r) == {r} \X At(r)
<1>1. ASSUME NEW r \in Q
      PROVE  IsFiniteSet(Pairs(r)) /\ Cardinality(Pairs(r)) = Holding(p, L[r])
  <2> DEFINE A == At(r)
             f == [i \in A |-> <<r, i>>]
             B == {r} \X A
  <2>1. IsFiniteSet(A) /\ Holding(p, L[r]) = Cardinality(A)
    <3>1. L[r] \in Seq(CommandSpace)
      OBVIOUS
    <3> QED BY <3>1, HoldingType DEF Holding
  <2>2. /\ f \in [A -> B] /\ \A x, y \in A : f[x] = f[y] => x = y
        /\ \A z \in B : \E x \in A : f[x] = z
    <3> HIDE DEF A
    <3> QED OBVIOUS
  <2>3. Cardinality(B) = Cardinality(A) /\ IsFiniteSet(B)
    <3> HIDE DEF A, f, B
    <3> QED BY <2>1, <2>2, SameCount
  <2> QED BY <2>1, <2>3
<1>2. ASSUME NEW R \in SUBSET Q
      PROVE  IsFiniteSet(PlacesIn(L, R, p))
  <2>1. IsFiniteSet(R)
    BY <1>0, FS_Subset
  <2>2. IsFiniteSet({Pairs(r) : r \in R}) /\ \A T \in {Pairs(r) : r \in R} : IsFiniteSet(T)
    <3> DEFINE Img == {Pairs(r) : r \in R}
               g == [r \in R |-> Pairs(r)]
    <3>1. g \in Surjection(R, Img)
      <4> HIDE DEF Pairs
      <4> QED BY DEF Surjection
    <3>2. IsFiniteSet(Img)
      <4> HIDE DEF Img, g
      <4> QED BY <2>1, <3>1, FS_Surjection
    <3> HIDE DEF Pairs
    <3> QED BY <1>1, <3>2
  <2>3. PlacesIn(L, R, p) = UNION {Pairs(r) : r \in R}
    BY DEF PlacesIn
  <2> DEFINE U == {Pairs(r) : r \in R}
  <2> HIDE DEF U
  <2>4. IsFiniteSet(UNION U)
    BY <2>2, FS_UNION DEF U
  <2> QED BY <2>3, <2>4 DEF U
<1> DEFINE X == PlacesIn(L, Q \ {q}, p)
           Y == Pairs(q)
           Z == PlacesIn(L, Q, p)
<1>3. Z = X \cup Y /\ X \cap Y = {}
  <2>1. Z = X \cup Y
    BY DEF PlacesIn
  <2>2. \A z \in X : z[1] \in Q \ {q}
    BY DEF PlacesIn
  <2>3. \A z \in Y : z[1] = q
    OBVIOUS
  <2> QED BY <2>1, <2>2, <2>3
<1>4. IsFiniteSet(X) /\ IsFiniteSet(Y) /\ IsFiniteSet(Z) /\ Cardinality(Y) = Holding(p, L[q])
  <2> HIDE DEF Pairs
  <2> QED BY <1>1, <1>2
<1>5. Cardinality(X) \in Nat /\ Cardinality(Y) \in Nat /\ Cardinality(Z) \in Nat
  <2> HIDE DEF X, Y, Z
  <2> QED BY <1>4, FS_CardinalityType
<1>6. Cardinality(Z) = Cardinality(X) + Cardinality(Y)
  <2> HIDE DEF X, Y, Z
  <2>1. Cardinality(X \cup Y) = Cardinality(X) + Cardinality(Y) - Cardinality(X \cap Y)
    BY <1>4, FS_Union
  <2>2. Cardinality(X \cap Y) = 0
    BY <1>3, FS_EmptySet
  <2> QED BY <2>1, <2>2, <1>3, <1>5
<1> QED BY <1>4, <1>5, <1>6

-----------------------------------------------------------------------------
(* The lists of one peer *)

\* Fragments, with the kinds as a parameter.
FragmentsOf(k, p) == IF k[p].large THEN FragmentCount ELSE 1

\* d is the next fragment after c.
Follows(c, d) == d.pkt = c.pkt /\ d.frag = c.frag + 1 /\ d.number = c.number

\* The fragments of an unreliable packet stand one behind the other, up to the
\* last one; only the front of the list may begin in the middle, behind
\* fragments that were all sent.
InRuns(k, s, t) ==
    /\ \A i \in 1 .. Len(s) : k[s[i].pkt].class # "reliable"
    /\ \A i \in 1 .. Len(s) : s[i].frag > 0 /\ i > 1 => Follows(s[i - 1], s[i])
    /\ \A i \in 1 .. Len(s) : s[i].frag > 0 /\ i = 1
          => \A f \in 0 .. s[i].frag - 1 : <<s[i].pkt, f>> \in t
    /\ \A i \in 1 .. Len(s) : s[i].frag + 1 < FragmentsOf(k, s[i].pkt)
          => i < Len(s) /\ Follows(s[i], s[i + 1])

\* Where packet p is in a list.
Has(s, p) == \E i \in 1 .. Len(s) : s[i].pkt = p

\* Reliable commands that wait (w) or were sent (s): the first fragment of a
\* packet goes before the others, and all are there that were never sent.
Waits(k, w, s, t) ==
    /\ \A i \in 1 .. Len(w) : /\ k[w[i].pkt].class = "reliable"
                              /\ w[i].attempted => <<w[i].pkt, w[i].frag>> \in t
    /\ \A i \in 1 .. Len(s) : /\ k[s[i].pkt].class = "reliable"
                              /\ s[i].attempted /\ <<s[i].pkt, s[i].frag>> \in t
    /\ \A i \in 1 .. Len(w) :
          <<w[i].pkt, 0>> \in t \/ \E j \in 1 .. i : w[j].pkt = w[i].pkt /\ w[j].frag = 0
    /\ \A p \in Packets : Has(w, p) \/ Has(s, p) =>
          \A f \in 0 .. FragmentsOf(k, p) - 1 :
              <<p, f>> \in t \/ \E j \in 1 .. Len(w) : w[j].pkt = p /\ w[j].frag = f

\* With a fragment its first one was sent.
Whole(t) == \A x \in t : <<x[1], 0>> \in t

\* The fields of a command in a list.
LEMMA CommandFields ==
    ASSUME NEW s \in Seq(CommandSpace), NEW i \in 1 .. Len(s)
    PROVE  s[i] \in CommandSpace /\ s[i].pkt \in Packets /\ s[i].frag \in Nat
<1>1. s[i] \in CommandSpace
  OBVIOUS
<1>2. \A c \in CommandSpace : c.pkt \in Packets /\ c.frag \in 0 .. FragmentCount - 1
  BY DEF CommandSpace
<1>3. 0 .. FragmentCount - 1 \subseteq Nat
  BY PacketsAssumption
<1> QED BY <1>1, <1>2, <1>3

\* What was sent of the first n commands, those of D being dropped, is each time
\* all of a packet up to some fragment.
LEMMA SentFromTheFirst ==
    ASSUME NEW k, NEW s \in Seq(CommandSpace), NEW t, InRuns(k, s, t),
           NEW n \in 0 .. Len(s), NEW D,
           \A i \in 1 .. n : s[i].frag > 0 /\ i > 1 =>
               (i \in D <=> i - 1 \in D /\ s[i - 1].number = s[i].number),
           NEW u, t \subseteq u,
           \A i \in 1 .. n : i \notin D => <<s[i].pkt, s[i].frag>> \in u
    PROVE  \A i \in 1 .. n : i \notin D => \A f \in 0 .. s[i].frag : <<s[i].pkt, f>> \in u
<1> DEFINE E == {i \in 0 .. n : i # 0 /\ i \notin D => \A f \in 0 .. s[i].frag : <<s[i].pkt, f>> \in u}
<1>1. 0 \in E
  OBVIOUS
<1>2. ASSUME NEW i \in 1 .. n, i - 1 \in E PROVE i \in E
  <2> SUFFICES ASSUME i \notin D, NEW f \in 0 .. s[i].frag
               PROVE  <<s[i].pkt, f>> \in u
    BY <1>2
  <2>0. i \in 1 .. Len(s)
    OBVIOUS
  <2>1. s[i] \in CommandSpace /\ s[i].frag \in Nat /\ i \in 1 .. Len(s)
    BY <2>0, CommandFields
  <2>2. CASE f = s[i].frag
    BY <2>2
  <2>3. CASE f < s[i].frag
    <3>1. s[i].frag > 0 /\ f \in 0 .. s[i].frag - 1
      BY <2>1, <2>3
    <3>2. CASE i = 1
      BY <2>1, <3>1, <3>2 DEF InRuns
    <3>3. CASE i > 1
      <4>1. Follows(s[i - 1], s[i])
        BY <2>1, <3>1, <3>3 DEF InRuns
      <4>2. i - 1 \in 1 .. n /\ i - 1 \in 1 .. Len(s) /\ i - 1 \notin D
        BY <3>1, <3>3, <4>1 DEF Follows
      <4>3. f \in 0 .. s[i - 1].frag
        <5>1. s[i - 1] \in CommandSpace /\ s[i - 1].frag \in Nat
          BY <4>2, CommandFields
        <5> QED BY <5>1, <4>1, <3>1 DEF Follows
      <4>4. <<s[i - 1].pkt, f>> \in u
        BY <1>2, <4>2, <4>3
      <4> QED BY <4>1, <4>4 DEF Follows
    <3> QED BY <3>2, <3>3
  <2> QED BY <2>1, <2>2, <2>3
<1>3. 0 .. n \subseteq E
  <2>1. n \in Nat
    OBVIOUS
  <2> HIDE DEF E
  <2> QED BY <1>1, <1>2, <2>1, Induct
<1>4. ASSUME NEW i \in 1 .. n PROVE i \in E
  BY <1>3
<1> QED BY <1>4

\* After the first n commands have been sent or dropped, the rest is in runs,
\* and a packet that has nothing left was sent to its last fragment.
LEMMA RunsCut ==
    ASSUME NEW k, NEW s \in Seq(CommandSpace), NEW t, InRuns(k, s, t),
           NEW n \in 0 .. Len(s), NEW D,
           \A i \in 1 .. n : s[i].frag > 0 /\ i > 1 =>
               (i \in D <=> i - 1 \in D /\ s[i - 1].number = s[i].number),
           \A i \in 1 .. n : s[i].frag > 0 /\ i = 1 => i \notin D,
           n \in 1 .. Len(s) - 1 /\ n \in D => s[n].number # s[n + 1].number,
           NEW u, t \subseteq u,
           \A i \in 1 .. n : i \notin D => <<s[i].pkt, s[i].frag>> \in u
    PROVE  /\ InRuns(k, SubSeq(s, n + 1, Len(s)), u)
           /\ \A i \in 1 .. n : i \notin D => \A f \in 0 .. s[i].frag : <<s[i].pkt, f>> \in u
           /\ \A i \in 1 .. n : i \notin D /\ (\A j \in n + 1 .. Len(s) : s[j].pkt # s[i].pkt)
                 => \A f \in 0 .. FragmentsOf(k, s[i].pkt) - 1 : <<s[i].pkt, f>> \in u
<1>1. \A i \in 1 .. n : i \notin D => \A f \in 0 .. s[i].frag : <<s[i].pkt, f>> \in u
  BY SentFromTheFirst
<1> DEFINE rest == SubSeq(s, n + 1, Len(s))
           m == Len(s) - n
<1>2. /\ m \in Nat /\ Len(rest) = m
      /\ \A i \in 1 .. m : rest[i] = s[n + i] /\ n + i \in 1 .. Len(s)
  OBVIOUS
<1>3. InRuns(k, rest, u)
  <2> HIDE DEF rest
  <2>1. \A i \in 1 .. m : k[rest[i].pkt].class # "reliable"
    BY <1>2 DEF InRuns
  <2>2. ASSUME NEW i \in 1 .. m, rest[i].frag > 0, i > 1
        PROVE  Follows(rest[i - 1], rest[i])
    <3>1. n + i \in 1 .. Len(s) /\ n + i > 1 /\ s[n + i].frag > 0 /\ rest[i] = s[n + i]
      BY <1>2, <2>2
    <3>2. Follows(s[(n + i) - 1], s[n + i])
      BY <3>1 DEF InRuns
    <3>3. i - 1 \in 1 .. m /\ n + (i - 1) = (n + i) - 1
      BY <2>2, <1>2
    <3>4. rest[i - 1] = s[n + (i - 1)]
      BY <3>3, <1>2
    <3> QED BY <3>1, <3>2, <3>3, <3>4
  <2>3. ASSUME NEW i \in 1 .. m, rest[i].frag > 0, i = 1, NEW f \in 0 .. rest[i].frag - 1
        PROVE  <<rest[i].pkt, f>> \in u
    <3>1. rest[i] = s[n + 1] /\ n + 1 \in 1 .. Len(s) /\ s[n + 1].frag > 0
      BY <1>2, <2>3
    <3>2. CASE n = 0
      BY <2>3, <3>1, <3>2 DEF InRuns
    <3>3. CASE n > 0
      <4>1. n + 1 > 1 /\ (n + 1) - 1 = n /\ n \in 1 .. Len(s) - 1 /\ n \in 1 .. Len(s) /\ n \in 1 .. n
        BY <3>1, <3>3
      <4>2. Follows(s[n], s[n + 1])
        BY <3>1, <4>1 DEF InRuns
      <4>3. n \notin D
        BY <4>1, <4>2 DEF Follows
      <4>4. f \in 0 .. s[n].frag
        <5>1. s[n] \in CommandSpace /\ s[n].frag \in Nat
          BY <4>1, CommandFields
        <5> QED BY <5>1, <4>2, <2>3, <3>1 DEF Follows
      <4>5. <<s[n].pkt, f>> \in u
        BY <1>1, <4>1, <4>3, <4>4
      <4> QED BY <4>2, <4>5, <3>1 DEF Follows
    <3> QED BY <3>2, <3>3
  <2>4. ASSUME NEW i \in 1 .. m, rest[i].frag + 1 < FragmentsOf(k, rest[i].pkt)
        PROVE  i < m /\ Follows(rest[i], rest[i + 1])
    <3>1. n + i \in 1 .. Len(s) /\ rest[i] = s[n + i]
      BY <1>2
    <3>2. n + i < Len(s) /\ Follows(s[n + i], s[(n + i) + 1])
      BY <3>1, <2>4 DEF InRuns
    <3>3. i < m /\ i + 1 \in 1 .. m /\ n + (i + 1) = (n + i) + 1
      BY <3>2, <1>2
    <3>4. rest[i + 1] = s[n + (i + 1)]
      BY <3>3, <1>2
    <3> QED BY <3>1, <3>2, <3>3, <3>4
  <2> QED BY <1>2, <2>1, <2>2, <2>3, <2>4 DEF InRuns
<1>4. ASSUME NEW i \in 1 .. n, i \notin D, \A j \in n + 1 .. Len(s) : s[j].pkt # s[i].pkt,
             NEW f \in 0 .. FragmentsOf(k, s[i].pkt) - 1
      PROVE  <<s[i].pkt, f>> \in u
  <2> DEFINE p == s[i].pkt
             A == {j \in 0 .. n - i : s[n - j].pkt = p /\ n - j \notin D}
  <2>1. n - i \in A
    <3>1. n - (n - i) = i /\ n - i \in 0 .. n - i
      OBVIOUS
    <3> QED BY <3>1, <1>4
  <2>2. PICK a \in A : \A b \in A : a <= b
    <3>1. A \subseteq Nat
      OBVIOUS
    <3> HIDE DEF A
    <3> QED BY <2>1, <3>1, LeastNat
  <2>a. a \in 0 .. n - i
    BY <2>2
  <2> DEFINE j == n - a
  <2>3. /\ j \in 1 .. n /\ s[j].pkt = p /\ j \notin D /\ j \in 1 .. Len(s) /\ j \in i .. n
        /\ j \in Nat /\ j > 0
    BY <2>2, <2>a
  <2>b. ASSUME j + 1 \in 1 .. n, s[j + 1].pkt = p, j + 1 \notin D PROVE FALSE
    <3>1. a - 1 \in 0 .. n - i /\ n - (a - 1) = j + 1
      BY <2>a, <2>b, <2>3
    <3>2. a - 1 \in A
      BY <3>1, <2>b
    <3>3. a <= a - 1
      BY <3>2, <2>2
    <3> QED BY <3>3, <2>a
  <2> HIDE DEF j, A
  <2>4. ~ (s[j].frag + 1 < FragmentsOf(k, p))
    <3> SUFFICES ASSUME s[j].frag + 1 < FragmentsOf(k, p) PROVE FALSE
      OBVIOUS
    <3>1. j < Len(s) /\ Follows(s[j], s[j + 1])
      BY <2>3 DEF InRuns
    <3>2. s[j + 1].pkt = p /\ j + 1 \in 1 .. Len(s)
      BY <2>3, <3>1 DEF Follows
    <3>3. j + 1 \in 1 .. n
      <4>1. ~ (j + 1 \in n + 1 .. Len(s))
        BY <3>2, <1>4
      <4> QED BY <4>1, <3>2
    <3>4. s[j + 1].frag > 0
      <4>1. s[j] \in CommandSpace /\ s[j].frag \in Nat
        BY <2>3, CommandFields
      <4> QED BY <4>1, <3>1 DEF Follows
    <3>5. j + 1 \notin D
      <4>1. j + 1 > 1 /\ (j + 1) - 1 = j
        BY <2>3
      <4> QED BY <4>1, <3>3, <3>4, <2>3
    <3> QED BY <3>2, <3>3, <3>5, <2>b
  <2>5. f \in 0 .. s[j].frag
    <3>1. s[j] \in CommandSpace /\ s[j].frag \in Nat
      BY <2>3, CommandFields
    <3>2. FragmentsOf(k, p) \in Nat
      BY PacketsAssumption DEF FragmentsOf
    <3> QED BY <3>1, <3>2, <2>4, <1>4
  <2> QED BY <2>3, <2>5, <1>1
<1> QED BY <1>1, <1>3, <1>4

\* A packet is queued behind the others, from its first fragment to its last.
LEMMA RunsJoin ==
    ASSUME NEW k, NEW s \in Seq(CommandSpace), NEW t, InRuns(k, s, t),
           NEW c \in Seq(CommandSpace), NEW p, Len(c) = FragmentsOf(k, p),
           k[p].class # "reliable", NEW number,
           \A i \in 1 .. Len(c) : c[i].pkt = p /\ c[i].frag = i - 1 /\ c[i].number = number
    PROVE  InRuns(k, s \o c, t)
<1> DEFINE n == Len(s)
           m == Len(c)
           j == s \o c
<1>1. /\ n \in Nat /\ m \in Nat /\ Len(j) = n + m
      /\ \A i \in 1 .. n : j[i] = s[i]
      /\ \A i \in 1 .. m : j[n + i] = c[i]
  BY ConcatElements
<1> HIDE DEF j
<1>2. ASSUME NEW i \in n + 1 .. n + m
      PROVE  /\ i - n \in 1 .. m /\ n + (i - n) = i
             /\ j[i].pkt = p /\ j[i].frag = (i - n) - 1 /\ j[i].number = number
  <2>1. i - n \in 1 .. m /\ n + (i - n) = i
    BY <1>1
  <2>2. j[i] = c[i - n]
    BY <1>1, <2>1
  <2> QED BY <2>1, <2>2
<1>3. \A i \in 1 .. n + m : k[j[i].pkt].class # "reliable"
  <2> TAKE i \in 1 .. n + m
  <2>1. CASE i \in 1 .. n
    BY <2>1, <1>1 DEF InRuns
  <2>2. CASE i \in n + 1 .. n + m
    BY <2>2, <1>2
  <2> QED BY <2>1, <2>2, <1>1
<1>4. ASSUME NEW i \in 1 .. n + m, j[i].frag > 0, i > 1
      PROVE  Follows(j[i - 1], j[i])
  <2>1. CASE i \in 1 .. n
    <3>1. i - 1 \in 1 .. n
      BY <2>1, <1>4
    <3> QED BY <2>1, <3>1, <1>1, <1>4 DEF InRuns
  <2>2. CASE i \in n + 1 .. n + m
    <3>1. i - 1 \in n + 1 .. n + m
      BY <2>2, <1>2, <1>4, <1>1
    <3>2. (i - 1) - n - 1 + 1 = i - n - 1
      BY <3>1, <1>1
    <3> QED BY <2>2, <3>1, <3>2, <1>2 DEF Follows
  <2> QED BY <2>1, <2>2, <1>1
<1>5. ASSUME NEW i \in 1 .. n + m, j[i].frag > 0, i = 1, NEW f \in 0 .. j[i].frag - 1
      PROVE  <<j[i].pkt, f>> \in t
  <2>1. CASE i \in 1 .. n
    BY <2>1, <1>1, <1>5 DEF InRuns
  <2>2. CASE i \in n + 1 .. n + m
    <3>1. n = 0 /\ j[i].frag = 0
      BY <2>2, <1>2, <1>5, <1>1
    <3> QED BY <3>1, <1>5
  <2> QED BY <2>1, <2>2, <1>1
<1>6. ASSUME NEW i \in 1 .. n + m, j[i].frag + 1 < FragmentsOf(k, j[i].pkt)
      PROVE  i < n + m /\ Follows(j[i], j[i + 1])
  <2>1. CASE i \in 1 .. n
    <3>1. i < n /\ Follows(s[i], s[i + 1])
      BY <2>1, <1>1, <1>6 DEF InRuns
    <3>2. i + 1 \in 1 .. n
      BY <2>1, <3>1
    <3> QED BY <3>1, <3>2, <2>1, <1>1
  <2>2. CASE i \in n + 1 .. n + m
    <3>1. (i - n) - 1 + 1 < m
      BY <2>2, <1>2, <1>6
    <3>2. i + 1 \in n + 1 .. n + m /\ i < n + m /\ (i + 1) - n - 1 = (i - n) - 1 + 1
      BY <2>2, <3>1, <1>1
    <3> QED BY <2>2, <3>2, <1>2 DEF Follows
  <2> QED BY <2>1, <2>2, <1>1
<1> QED BY <1>1, <1>3, <1>4, <1>5, <1>6 DEF InRuns, j

\* The elements of a list without its i-th.
LEMMA RemoveAtElements ==
    ASSUME NEW S, NEW s \in Seq(S), NEW i \in 1 .. Len(s)
    PROVE  /\ RemoveAt(s, i) \in Seq(S) /\ Len(RemoveAt(s, i)) = Len(s) - 1
           /\ \A j \in 1 .. Len(s) - 1 : RemoveAt(s, i)[j] = IF j < i THEN s[j] ELSE s[j + 1]
           /\ \A j \in 1 .. Len(s) : j < i => j \in 1 .. Len(s) - 1 /\ RemoveAt(s, i)[j] = s[j]
           /\ \A j \in 1 .. Len(s) : j > i => j - 1 \in 1 .. Len(s) - 1 /\ RemoveAt(s, i)[j - 1] = s[j]
<1> DEFINE a == SubSeq(s, 1, i - 1)
           b == SubSeq(s, i + 1, Len(s))
           n == Len(s)
           r == RemoveAt(s, i)
<1>1. /\ a \in Seq(S) /\ Len(a) = i - 1 /\ b \in Seq(S) /\ Len(b) = n - i
      /\ \A j \in 1 .. i - 1 : a[j] = s[j]
      /\ \A j \in 1 .. n - i : b[j] = s[i + j]
      /\ n \in Nat /\ i \in 1 .. n
  OBVIOUS
<1>2. r = a \o b
  BY DEF RemoveAt
<1> HIDE DEF a, b, n, r
<1>3. /\ r \in Seq(S) /\ Len(r) = n - 1
      /\ \A j \in 1 .. i - 1 : r[j] = a[j]
      /\ \A j \in 1 .. n - i : r[(i - 1) + j] = b[j]
  <2>1. /\ a \o b \in Seq(S) /\ Len(a \o b) = Len(a) + Len(b)
        /\ \A j \in 1 .. Len(a) : (a \o b)[j] = a[j]
        /\ \A j \in 1 .. Len(b) : (a \o b)[Len(a) + j] = b[j]
    <3>1. a \in Seq(S) /\ b \in Seq(S)
      BY <1>1
    <3> QED BY <3>1, ConcatElements
  <2>2. Len(a) = i - 1 /\ Len(b) = n - i /\ Len(a) + Len(b) = n - 1
    BY <1>1
  <2> QED BY <2>1, <2>2, <1>2
<1>4. ASSUME NEW j \in 1 .. n, j < i PROVE j \in 1 .. n - 1 /\ r[j] = s[j]
  <2>1. j \in 1 .. i - 1 /\ j \in 1 .. n - 1
    BY <1>1, <1>4
  <2>2. r[j] = a[j] /\ a[j] = s[j]
    BY <1>1, <1>3, <2>1
  <2> QED BY <2>1, <2>2
<1>5. ASSUME NEW j \in 1 .. n, j > i PROVE j - 1 \in 1 .. n - 1 /\ r[j - 1] = s[j]
  <2>1. j - i \in 1 .. n - i /\ (i - 1) + (j - i) = j - 1 /\ i + (j - i) = j /\ j - 1 \in 1 .. n - 1
    BY <1>1, <1>5
  <2>2. r[(i - 1) + (j - i)] = b[j - i] /\ b[j - i] = s[i + (j - i)]
    BY <2>1, <1>1, <1>3
  <2> QED BY <2>1, <2>2
<1>6. ASSUME NEW j \in 1 .. n - 1 PROVE r[j] = IF j < i THEN s[j] ELSE s[j + 1]
  <2>1. CASE j < i
    BY <2>1, <1>1, <1>4
  <2>2. CASE ~ (j < i)
    <3>1. j + 1 \in 1 .. n /\ j + 1 > i /\ (j + 1) - 1 = j
      BY <1>1, <2>2
    <3> QED BY <3>1, <2>2, <1>5
  <2> QED BY <2>1, <2>2
<1> QED BY <1>3, <1>4, <1>5, <1>6 DEF n, r

\* The parts of Waits, for lists of known lengths.
LEMMA WaitsParts ==
    ASSUME NEW k, NEW w, NEW s, NEW t, NEW m, NEW n, Len(w) = m, Len(s) = n,
           \A i \in 1 .. m : k[w[i].pkt].class = "reliable" /\ (w[i].attempted => <<w[i].pkt, w[i].frag>> \in t),
           \A i \in 1 .. n : k[s[i].pkt].class = "reliable" /\ s[i].attempted /\ <<s[i].pkt, s[i].frag>> \in t,
           \A i \in 1 .. m : <<w[i].pkt, 0>> \in t \/ \E j \in 1 .. i : w[j].pkt = w[i].pkt /\ w[j].frag = 0,
           \A p \in Packets : Has(w, p) \/ Has(s, p) =>
               \A f \in 0 .. FragmentsOf(k, p) - 1 :
                   <<p, f>> \in t \/ \E j \in 1 .. m : w[j].pkt = p /\ w[j].frag = f
    PROVE  Waits(k, w, s, t)
BY DEF Waits

\* An acknowledged command leaves the sent ones.
LEMMA WaitsAcknowledgedSent ==
    ASSUME NEW k, NEW w \in Seq(CommandSpace), NEW s \in Seq(CommandSpace), NEW t,
           Waits(k, w, s, t), NEW i \in 1 .. Len(s)
    PROVE  Waits(k, w, RemoveAt(s, i), t)
<1> DEFINE r == RemoveAt(s, i)
<1>1. Len(r) = Len(s) - 1 /\ \A j \in 1 .. Len(r) : r[j] = s[j] \/ r[j] = s[j + 1]
  BY RemoveAtElements
<1>2. \A j \in 1 .. Len(r) : \E l \in 1 .. Len(s) : r[j] = s[l]
  <2> TAKE j \in 1 .. Len(r)
  <2>1. j \in 1 .. Len(s) /\ j + 1 \in 1 .. Len(s)
    BY <1>1
  <2> QED BY <1>1, <2>1
<1> HIDE DEF r
<1>3. \A p : Has(r, p) => Has(s, p)
  BY <1>2 DEF Has
<1> QED BY <1>2, <1>3 DEF Waits, r

\* An acknowledged command leaves those that wait to be sent again.
LEMMA WaitsAcknowledgedWaiting ==
    ASSUME NEW k, NEW w \in Seq(CommandSpace), NEW s \in Seq(CommandSpace), NEW t,
           Waits(k, w, s, t), NEW i \in 1 .. Len(w), w[i].attempted
    PROVE  Waits(k, RemoveAt(w, i), s, t)
<1> DEFINE r == RemoveAt(w, i)
           n == Len(w)
<1>1. /\ Len(r) = n - 1 /\ n \in Nat /\ i \in 1 .. n
      /\ \A j \in 1 .. n - 1 : r[j] = IF j < i THEN w[j] ELSE w[j + 1]
      /\ \A j \in 1 .. n : j < i => j \in 1 .. n - 1 /\ r[j] = w[j]
      /\ \A j \in 1 .. n : j > i => j - 1 \in 1 .. n - 1 /\ r[j - 1] = w[j]
  <2>1. n \in Nat /\ i \in 1 .. n
    OBVIOUS
  <2>2. /\ Len(r) = n - 1
        /\ \A j \in 1 .. n - 1 : r[j] = IF j < i THEN w[j] ELSE w[j + 1]
        /\ \A j \in 1 .. n : j < i => j \in 1 .. n - 1 /\ r[j] = w[j]
        /\ \A j \in 1 .. n : j > i => j - 1 \in 1 .. n - 1 /\ r[j - 1] = w[j]
    BY RemoveAtElements
  <2> HIDE DEF r, n
  <2> QED BY <2>1, <2>2
<1> HIDE DEF r, n
<1>2. ASSUME NEW j \in 1 .. n - 1
      PROVE  \E l \in 1 .. n : /\ r[j] = w[l] /\ l # i
                               /\ \A m \in 1 .. l : m # i => \E h \in 1 .. j : r[h] = w[m]
  <2>1. CASE j < i
    <3>1. j \in 1 .. n /\ r[j] = w[j] /\ \A m \in 1 .. j : m \in 1 .. n /\ m < i
      BY <1>1, <2>1
    <3>2. \A m \in 1 .. j : r[m] = w[m]
      BY <1>1, <3>1
    <3> QED BY <3>1, <3>2, <2>1
  <2>2. CASE ~ (j < i)
    <3>1. j + 1 \in 1 .. n /\ r[j] = w[j + 1] /\ j + 1 # i
      BY <1>1, <2>2
    <3>2. ASSUME NEW m \in 1 .. j + 1, m # i PROVE \E h \in 1 .. j : r[h] = w[m]
      <4>1. CASE m < i
        <5>1. m \in 1 .. n /\ m \in 1 .. j
          BY <4>1, <2>2, <1>1
        <5> QED BY <5>1, <4>1, <1>1
      <4>2. CASE m > i
        <5>1. m \in 1 .. n /\ m - 1 \in 1 .. j
          BY <4>2, <3>1, <1>1
        <5> QED BY <5>1, <4>2, <1>1
      <4>3. m \in Nat /\ i \in Nat
        BY <1>1
      <4> QED BY <4>1, <4>2, <4>3, <3>2
    <3> QED BY <3>1, <3>2
  <2>3. j \in Nat /\ i \in Nat
    BY <1>1
  <2> QED BY <2>1, <2>2, <2>3
<1>3. \A j \in 1 .. n : j # i => \E h \in 1 .. n - 1 : r[h] = w[j]
  <2> TAKE j \in 1 .. n
  <2> HAVE j # i
  <2>1. j < i \/ j > i
    BY <1>1
  <2> QED BY <1>1, <2>1
<1>4. <<w[i].pkt, w[i].frag>> \in t
  BY <1>1 DEF Waits, n
<1>5. \A j \in 1 .. n - 1 : k[r[j].pkt].class = "reliable" /\ (r[j].attempted => <<r[j].pkt, r[j].frag>> \in t)
  <2>1. \A l \in 1 .. n : k[w[l].pkt].class = "reliable" /\ (w[l].attempted => <<w[l].pkt, w[l].frag>> \in t)
    BY DEF Waits, n
  <2>2. \A j \in 1 .. n - 1 : \E l \in 1 .. n : r[j] = w[l]
    BY <1>2
  <2> QED BY <2>1, <2>2
<1>6. ASSUME NEW j \in 1 .. n - 1
      PROVE  <<r[j].pkt, 0>> \in t \/ \E h \in 1 .. j : r[h].pkt = r[j].pkt /\ r[h].frag = 0
  <2>1. PICK l \in 1 .. n : /\ r[j] = w[l] /\ l # i
                            /\ \A m \in 1 .. l : m # i => \E h \in 1 .. j : r[h] = w[m]
    BY <1>2
  <2>2. <<w[l].pkt, 0>> \in t \/ \E m \in 1 .. l : w[m].pkt = w[l].pkt /\ w[m].frag = 0
    BY DEF Waits, n
  <2>3. CASE <<w[l].pkt, 0>> \in t
    BY <2>1, <2>3
  <2>4. ASSUME NEW m \in 1 .. l, w[m].pkt = w[l].pkt, w[m].frag = 0
        PROVE  <<r[j].pkt, 0>> \in t \/ \E h \in 1 .. j : r[h].pkt = r[j].pkt /\ r[h].frag = 0
    <3>1. CASE m = i
      BY <3>1, <2>1, <2>4, <1>4
    <3>2. CASE m # i
      <4>1. PICK h \in 1 .. j : r[h] = w[m]
        BY <2>1, <3>2
      <4> QED BY <4>1, <2>1, <2>4
    <3> QED BY <3>1, <3>2
  <2> QED BY <2>2, <2>3, <2>4
<1>7. ASSUME NEW p \in Packets, Has(r, p) \/ Has(s, p), NEW f \in 0 .. FragmentsOf(k, p) - 1
      PROVE  <<p, f>> \in t \/ \E j \in 1 .. n - 1 : r[j].pkt = p /\ r[j].frag = f
  <2>1. Has(w, p) \/ Has(s, p)
    BY <1>1, <1>2, <1>7 DEF Has, n
  <2>2. <<p, f>> \in t \/ \E j \in 1 .. n : w[j].pkt = p /\ w[j].frag = f
    BY <2>1 DEF Waits, n
  <2>3. ASSUME NEW j \in 1 .. n, w[j].pkt = p, w[j].frag = f
        PROVE  <<p, f>> \in t \/ \E h \in 1 .. n - 1 : r[h].pkt = p /\ r[h].frag = f
    <3>1. CASE j = i
      BY <3>1, <2>3, <1>4
    <3>2. CASE j # i
      BY <3>2, <2>3, <1>3
    <3> QED BY <3>1, <3>2
  <2> QED BY <2>2, <2>3
<1>8. \A j \in 1 .. Len(s) : /\ k[s[j].pkt].class = "reliable"
                             /\ s[j].attempted /\ <<s[j].pkt, s[j].frag>> \in t
  BY DEF Waits
<1>9. Waits(k, r, s, t)
  <2> DEFINE m == n - 1
  <2>1. Len(r) = m
    BY <1>1
  <2>2. \A j \in 1 .. m : k[r[j].pkt].class = "reliable" /\ (r[j].attempted => <<r[j].pkt, r[j].frag>> \in t)
    BY <1>5
  <2>3. \A j \in 1 .. m : <<r[j].pkt, 0>> \in t \/ \E h \in 1 .. j : r[h].pkt = r[j].pkt /\ r[h].frag = 0
    BY <1>6
  <2>4. \A p \in Packets : Has(r, p) \/ Has(s, p) =>
            \A f \in 0 .. FragmentsOf(k, p) - 1 :
                <<p, f>> \in t \/ \E j \in 1 .. m : r[j].pkt = p /\ r[j].frag = f
    BY <1>7
  <2> HIDE DEF m
  <2> DEFINE x == Len(s)
  <2>5. Len(s) = x /\ \A j \in 1 .. x : k[s[j].pkt].class = "reliable" /\ s[j].attempted /\ <<s[j].pkt, s[j].frag>> \in t
    BY <1>8
  <2> HIDE DEF x
  <2> QED BY <2>1, <2>2, <2>3, <2>4, <2>5, WaitsParts
<1> QED BY <1>9 DEF r

\* A reliable packet is queued behind the others, first fragment first.
LEMMA WaitsJoin ==
    ASSUME NEW k, NEW w \in Seq(CommandSpace), NEW s \in Seq(CommandSpace), NEW t,
           Waits(k, w, s, t),
           NEW c \in Seq(CommandSpace), NEW p \in Packets, Len(c) = FragmentsOf(k, p),
           k[p].class = "reliable",
           \A i \in 1 .. Len(c) : c[i].pkt = p /\ c[i].frag = i - 1 /\ c[i].attempted = FALSE
    PROVE  Waits(k, w \o c, s, t)
<1> DEFINE n == Len(w)
           m == Len(c)
           j == w \o c
<1>1. /\ n \in Nat /\ m \in Nat /\ Len(j) = n + m
      /\ \A i \in 1 .. n : j[i] = w[i]
      /\ \A i \in 1 .. m : j[n + i] = c[i]
  BY ConcatElements
<1> HIDE DEF j
<1>2. ASSUME NEW i \in n + 1 .. n + m
      PROVE  /\ i - n \in 1 .. m /\ n + (i - n) = i
             /\ j[i].pkt = p /\ j[i].frag = (i - n) - 1 /\ j[i].attempted = FALSE
  <2>1. i - n \in 1 .. m /\ n + (i - n) = i
    BY <1>1
  <2>2. j[i] = c[i - n]
    BY <1>1, <2>1
  <2> QED BY <2>1, <2>2
<1>3. \A i \in 1 .. n + m : i \in 1 .. n \/ i \in n + 1 .. n + m
  BY <1>1
<1>4. \A i \in 1 .. n + m : /\ k[j[i].pkt].class = "reliable"
                            /\ j[i].attempted => <<j[i].pkt, j[i].frag>> \in t
  <2> TAKE i \in 1 .. n + m
  <2>1. CASE i \in 1 .. n
    BY <2>1, <1>1 DEF Waits
  <2>2. CASE i \in n + 1 .. n + m
    BY <2>2, <1>2
  <2> QED BY <2>1, <2>2, <1>3
<1>5. ASSUME NEW i \in 1 .. n + m
      PROVE  <<j[i].pkt, 0>> \in t \/ \E l \in 1 .. i : j[l].pkt = j[i].pkt /\ j[l].frag = 0
  <2>1. CASE i \in 1 .. n
    <3>1. \A l \in 1 .. i : j[l] = w[l]
      BY <2>1, <1>1
    <3>2. <<w[i].pkt, 0>> \in t \/ \E l \in 1 .. i : w[l].pkt = w[i].pkt /\ w[l].frag = 0
      BY <2>1 DEF Waits
    <3> QED BY <3>1, <3>2, <2>1, <1>1
  <2>2. CASE i \in n + 1 .. n + m
    <3>1. n + 1 \in n + 1 .. n + m /\ n + 1 \in 1 .. i /\ (n + 1) - n - 1 = 0
      BY <2>2, <1>1
    <3> QED BY <3>1, <2>2, <1>2
  <2> QED BY <2>1, <2>2, <1>3
<1>6. ASSUME NEW q \in Packets, Has(j, q) \/ Has(s, q), NEW f \in 0 .. FragmentsOf(k, q) - 1
      PROVE  <<q, f>> \in t \/ \E i \in 1 .. n + m : j[i].pkt = q /\ j[i].frag = f
  <2>1. CASE q = p
    <3>1. f + 1 \in 1 .. m /\ (f + 1) - 1 = f
      BY <2>1, <1>1
    <3>2. n + (f + 1) \in 1 .. n + m /\ j[n + (f + 1)] = c[f + 1]
      BY <3>1, <1>1
    <3> QED BY <3>1, <3>2, <2>1
  <2>2. CASE q # p
    <3>1. Has(w, q) \/ Has(s, q)
      <4>1. ASSUME NEW i \in 1 .. n + m, j[i].pkt = q PROVE i \in 1 .. n /\ w[i].pkt = q
        BY <4>1, <2>2, <1>1, <1>2, <1>3
      <4> QED BY <4>1, <1>6, <1>1 DEF Has
    <3>2. <<q, f>> \in t \/ \E i \in 1 .. n : w[i].pkt = q /\ w[i].frag = f
      BY <3>1 DEF Waits
    <3>3. \A i \in 1 .. n : i \in 1 .. n + m
      BY <1>1
    <3> QED BY <3>2, <3>3, <1>1
  <2> QED BY <2>1, <2>2
<1>7. \A i \in 1 .. Len(s) : /\ k[s[i].pkt].class = "reliable"
                             /\ s[i].attempted /\ <<s[i].pkt, s[i].frag>> \in t
  BY DEF Waits
<1>8. Waits(k, j, s, t)
  <2> HIDE DEF n, m
  <2> QED BY <1>1, <1>4, <1>5, <1>6, <1>7 DEF Waits
<1> QED BY <1>8 DEF j

\* Every command of a is one of s.
Among(a, s) == \A i \in 1 .. Len(a) : \E l \in 1 .. Len(s) : a[i] = s[l]

\* The first r commands of j, now attempted.
Resent(sent, j, r) ==
    Len(sent) = r /\ \A i \in 1 .. r : sent[i] = [j[i] EXCEPT !.attempted = TRUE]

\* Some sent commands go to the front again, and the first r are sent: the rest
\* waits, and the others are on their way.
LEMMA WaitsSent ==
    ASSUME NEW k, NEW w \in Seq(CommandSpace), NEW s \in Seq(CommandSpace), NEW t,
           Waits(k, w, s, t), Whole(t),
           NEW a \in Seq(CommandSpace), NEW b \in Seq(CommandSpace),
           Among(a, s), Among(b, s),
           NEW r \in 0 .. Len(a \o w), NEW sent \in Seq(CommandSpace), Resent(sent, a \o w, r),
           NEW u, t \subseteq u,
           \A i \in 1 .. r : <<sent[i].pkt, sent[i].frag>> \in u
    PROVE  Waits(k, SubSeq(a \o w, r + 1, Len(a \o w)), b \o sent, u)
<1> DEFINE j == a \o w
           n == Len(j)
           v == SubSeq(j, r + 1, n)
           g == b \o sent
           m == n - r
<1>1. /\ j \in Seq(CommandSpace) /\ n \in Nat
      /\ n = Len(a) + Len(w) /\ Len(a) \in Nat /\ Len(w) \in Nat
      /\ \A i \in 1 .. Len(a) : j[i] = a[i]
      /\ \A i \in 1 .. Len(w) : j[Len(a) + i] = w[i]
  BY ConcatElements
<1>2. r \in 0 .. n /\ Len(sent) = r /\ \A i \in 1 .. r : sent[i] = [j[i] EXCEPT !.attempted = TRUE]
  BY DEF Resent
<1> HIDE DEF j, n
<1>3. /\ Len(v) = m /\ m \in Nat /\ \A i \in 1 .. m : v[i] = j[r + i] /\ r + i \in 1 .. n
  <2>1. Len(v) = n - r /\ \A i \in 1 .. n - r : v[i] = j[r + i]
    BY <1>1, <1>2, PartsElements DEF n
  <2> HIDE DEF v
  <2> QED BY <2>1, <1>1, <1>2
<1>4. /\ Len(g) = Len(b) + r /\ Len(b) \in Nat /\ r \in Nat
      /\ \A i \in 1 .. Len(b) : g[i] = b[i]
      /\ \A i \in 1 .. r : g[Len(b) + i] = sent[i]
  <2>1. /\ Len(g) = Len(b) + Len(sent) /\ Len(b) \in Nat /\ Len(sent) \in Nat
        /\ \A i \in 1 .. Len(b) : g[i] = b[i]
        /\ \A i \in 1 .. Len(sent) : g[Len(b) + i] = sent[i]
    BY ConcatElements
  <2> HIDE DEF g
  <2> QED BY <2>1, <1>2
<1> HIDE DEF g, v, m
<1>5. ASSUME NEW i \in 1 .. n
      PROVE  \/ i \in 1 .. Len(a) /\ \E l \in 1 .. Len(s) : j[i] = s[l]
             \/ i - Len(a) \in 1 .. Len(w) /\ j[i] = w[i - Len(a)]
  <2>1. CASE i \in 1 .. Len(a)
    BY <2>1, <1>1 DEF Among
  <2>2. CASE ~ (i \in 1 .. Len(a))
    <3>1. i - Len(a) \in 1 .. Len(w) /\ Len(a) + (i - Len(a)) = i
      BY <2>2, <1>1
    <3> QED BY <3>1, <1>1
  <2> QED BY <2>1, <2>2
<1>6. ASSUME NEW i \in 1 .. n
      PROVE  /\ k[j[i].pkt].class = "reliable" /\ j[i].pkt \in Packets
             /\ j[i].attempted => <<j[i].pkt, j[i].frag>> \in t
             /\ Has(w, j[i].pkt) \/ Has(s, j[i].pkt)
  <2>1. j[i].pkt \in Packets
    BY <1>1, CommandFields DEF n
  <2>2. CASE \E l \in 1 .. Len(s) : j[i] = s[l]
    BY <2>1, <2>2 DEF Waits, Has
  <2>3. CASE i - Len(a) \in 1 .. Len(w) /\ j[i] = w[i - Len(a)]
    BY <2>1, <2>3 DEF Waits, Has
  <2> QED BY <2>2, <2>3, <1>5
<1>7. ASSUME NEW i \in 1 .. n
      PROVE  <<j[i].pkt, 0>> \in t \/ \E l \in 1 .. i : j[l].pkt = j[i].pkt /\ j[l].frag = 0
  <2>1. CASE \E l \in 1 .. Len(s) : j[i] = s[l]
    <3>1. PICK l \in 1 .. Len(s) : j[i] = s[l]
      BY <2>1
    <3>2. <<s[l].pkt, s[l].frag>> \in t
      BY DEF Waits
    <3>3. <<s[l].pkt, s[l].frag>>[1] = s[l].pkt
      OBVIOUS
    <3>4. <<s[l].pkt, 0>> \in t
      BY <3>2, <3>3 DEF Whole
    <3> QED BY <3>1, <3>4
  <2>2. CASE i - Len(a) \in 1 .. Len(w) /\ j[i] = w[i - Len(a)]
    <3> DEFINE h == i - Len(a)
    <3>0. h \in 1 .. Len(w) /\ j[i] = w[h] /\ i = Len(a) + h /\ h \in Nat
      BY <2>2, <1>1
    <3> HIDE DEF h
    <3>1. <<w[h].pkt, 0>> \in t \/ \E l \in 1 .. h : w[l].pkt = w[h].pkt /\ w[l].frag = 0
      BY <3>0 DEF Waits
    <3>2. ASSUME NEW l \in 1 .. h PROVE Len(a) + l \in 1 .. i /\ j[Len(a) + l] = w[l]
      <4>1. l \in 1 .. Len(w) /\ Len(a) + l \in 1 .. i
        BY <1>1, <3>0
      <4> QED BY <4>1, <1>1
    <3> QED BY <3>0, <3>1, <3>2
  <2> QED BY <2>1, <2>2, <1>5
<1>8. ASSUME NEW i \in 1 .. r
      PROVE  /\ i \in 1 .. n /\ sent[i].attempted = TRUE
             /\ sent[i].pkt = j[i].pkt /\ sent[i].frag = j[i].frag
  <2>1. i \in 1 .. n
    BY <1>1, <1>2
  <2>2. j[i] \in CommandSpace
    BY <1>1, <2>1 DEF n
  <2>3. \A c \in CommandSpace : LET d == [c EXCEPT !.attempted = TRUE]
                                IN  d.attempted = TRUE /\ d.pkt = c.pkt /\ d.frag = c.frag
    BY DEF CommandSpace
  <2> QED BY <2>1, <2>2, <2>3, <1>2
<1>9. \A i \in 1 .. m : /\ k[v[i].pkt].class = "reliable"
                        /\ v[i].attempted => <<v[i].pkt, v[i].frag>> \in u
  <2> TAKE i \in 1 .. m
  <2> DEFINE h == r + i
  <2>1. v[i] = j[h] /\ h \in 1 .. n
    BY <1>3
  <2> HIDE DEF h
  <2> QED BY <2>1, <1>6
<1>10. \A i \in 1 .. Len(b) + r : /\ k[g[i].pkt].class = "reliable"
                                  /\ g[i].attempted /\ <<g[i].pkt, g[i].frag>> \in u
                                  /\ Has(w, g[i].pkt) \/ Has(s, g[i].pkt)
  <2> TAKE i \in 1 .. Len(b) + r
  <2>1. CASE i \in 1 .. Len(b)
    <3>1. PICK l \in 1 .. Len(s) : g[i] = s[l]
      BY <2>1, <1>4 DEF Among
    <3> QED BY <3>1 DEF Waits, Has
  <2>2. CASE ~ (i \in 1 .. Len(b))
    <3>1. i - Len(b) \in 1 .. r /\ Len(b) + (i - Len(b)) = i
      BY <2>2, <1>4
    <3>2. g[i] = sent[i - Len(b)]
      BY <3>1, <1>4
    <3> DEFINE h == i - Len(b)
    <3> HIDE DEF h
    <3>3. h \in 1 .. r /\ g[i] = sent[h]
      BY <3>1, <3>2 DEF h
    <3>4. h \in 1 .. n /\ sent[h].attempted = TRUE /\ sent[h].pkt = j[h].pkt
      BY <3>3, <1>8
    <3>5. <<sent[h].pkt, sent[h].frag>> \in u
      BY <3>3
    <3> QED BY <3>3, <3>4, <3>5, <1>6
  <2> QED BY <2>1, <2>2
<1>11. ASSUME NEW i \in 1 .. m
       PROVE  <<v[i].pkt, 0>> \in u \/ \E l \in 1 .. i : v[l].pkt = v[i].pkt /\ v[l].frag = 0
  <2>1. v[i] = j[r + i] /\ r + i \in 1 .. n
    BY <1>3
  <2>2. CASE <<j[r + i].pkt, 0>> \in t
    BY <2>1, <2>2
  <2>3. ASSUME NEW l \in 1 .. r + i, j[l].pkt = j[r + i].pkt, j[l].frag = 0
        PROVE  <<v[i].pkt, 0>> \in u \/ \E h \in 1 .. i : v[h].pkt = v[i].pkt /\ v[h].frag = 0
    <3>1. CASE l \in 1 .. r
      <4>1. <<sent[l].pkt, sent[l].frag>> \in u
        BY <3>1
      <4> QED BY <4>1, <3>1, <1>8, <2>1, <2>3
    <3>2. CASE ~ (l \in 1 .. r)
      <4>1. l - r \in 1 .. i /\ l - r \in 1 .. m /\ r + (l - r) = l
        BY <3>2, <1>3, <1>4
      <4>2. v[l - r] = j[l]
        BY <4>1, <1>3
      <4> QED BY <4>1, <4>2, <2>1, <2>3
    <3> QED BY <3>1, <3>2
  <2> QED BY <2>1, <2>2, <2>3, <1>7
<1>12. ASSUME NEW p \in Packets, Has(v, p) \/ Has(g, p), NEW f \in 0 .. FragmentsOf(k, p) - 1
       PROVE  <<p, f>> \in u \/ \E i \in 1 .. m : v[i].pkt = p /\ v[i].frag = f
  <2>1. Has(w, p) \/ Has(s, p)
    <3>1. CASE Has(v, p)
      <4>1. PICK i \in 1 .. m : v[i].pkt = p
        BY <3>1, <1>3 DEF Has
      <4> QED BY <4>1, <1>3, <1>6
    <3>2. CASE Has(g, p)
      <4>1. PICK i \in 1 .. Len(b) + r : g[i].pkt = p
        BY <3>2, <1>4 DEF Has
      <4> QED BY <4>1, <1>10
    <3> QED BY <3>1, <3>2, <1>12
  <2>2. <<p, f>> \in t \/ \E i \in 1 .. Len(w) : w[i].pkt = p /\ w[i].frag = f
    BY <2>1 DEF Waits
  <2>3. ASSUME NEW i \in 1 .. Len(w), w[i].pkt = p, w[i].frag = f
        PROVE  <<p, f>> \in u \/ \E l \in 1 .. m : v[l].pkt = p /\ v[l].frag = f
    <3> DEFINE l == Len(a) + i
    <3>1. l \in 1 .. n /\ j[l] = w[i]
      BY <1>1
    <3> HIDE DEF l
    <3>2. CASE l \in 1 .. r
      <4>1. <<sent[l].pkt, sent[l].frag>> \in u
        BY <3>2
      <4> QED BY <4>1, <3>1, <3>2, <1>8, <2>3
    <3>3. CASE ~ (l \in 1 .. r)
      <4>1. l - r \in 1 .. m /\ r + (l - r) = l
        BY <3>1, <3>3, <1>1, <1>4 DEF m
      <4>2. v[l - r] = j[l]
        BY <4>1, <1>3
      <4> QED BY <4>1, <4>2, <3>1, <2>3
    <3> QED BY <3>2, <3>3
  <2> QED BY <2>2, <2>3
<1>13. Waits(k, v, g, u)
  <2> DEFINE x == Len(b) + r
  <2>1. Len(v) = m /\ Len(g) = x
    BY <1>3, <1>4
  <2>2. \A i \in 1 .. x : k[g[i].pkt].class = "reliable" /\ g[i].attempted /\ <<g[i].pkt, g[i].frag>> \in u
    BY <1>10
  <2>3. \A p \in Packets : Has(v, p) \/ Has(g, p) =>
            \A f \in 0 .. FragmentsOf(k, p) - 1 :
                <<p, f>> \in u \/ \E i \in 1 .. m : v[i].pkt = p /\ v[i].frag = f
    BY <1>12
  <2> HIDE DEF x
  <2>4. \A i \in 1 .. m : <<v[i].pkt, 0>> \in u \/ \E l \in 1 .. i : v[l].pkt = v[i].pkt /\ v[l].frag = 0
    BY <1>11
  <2>5. \A i \in 1 .. m : k[v[i].pkt].class = "reliable" /\ (v[i].attempted => <<v[i].pkt, v[i].frag>> \in u)
    BY <1>9
  <2>6. \A i \in 1 .. Len(g) : /\ k[g[i].pkt].class = "reliable"
                               /\ g[i].attempted /\ <<g[i].pkt, g[i].frag>> \in u
    BY <2>1, <2>2
  <2>7. \A i \in 1 .. Len(v) : <<v[i].pkt, 0>> \in u \/ \E l \in 1 .. i : v[l].pkt = v[i].pkt /\ v[l].frag = 0
    BY <2>1, <2>4
  <2>8. \A i \in 1 .. Len(v) : /\ k[v[i].pkt].class = "reliable"
                               /\ v[i].attempted => <<v[i].pkt, v[i].frag>> \in u
    BY <2>1, <2>5
  <2>9. \A p \in Packets : Has(v, p) \/ Has(g, p) =>
            \A f \in 0 .. FragmentsOf(k, p) - 1 :
                <<p, f>> \in u \/ \E i \in 1 .. Len(v) : v[i].pkt = p /\ v[i].frag = f
    BY <2>1, <2>3
  <2> QED BY <2>6, <2>7, <2>8, <2>9, Zenon DEF Waits
<1> QED BY <1>13 DEF v, g, j, n

\* One turn of the throttle.
ThrottleTurn(s, throttle, i, before) ==
    LET next == (before.counter + ThrottleCounter) % ThrottleScale
    IN  IF i - 1 \in before.dropped /\ s[i - 1].number = s[i].number
        THEN [before EXCEPT !.dropped = @ \cup {i}]
        ELSE IF s[i].frag = 0 /\ ~kind[s[i].pkt].unthrottled
        THEN [counter |-> next, dropped |-> before.dropped \cup (IF next > throttle THEN {i} ELSE {})]
        ELSE before

\* verdict is the function that the definition of Throttle uses.
Judges(verdict, n, s, counter, throttle) ==
    verdict = [i \in 0 .. n |-> IF i = 0 THEN [counter |-> counter, dropped |-> {}]
                                ELSE ThrottleTurn(s, throttle, i, verdict[i - 1])]

\* What the throttle knows after a turn.
Verdicts(n) == [counter: 0 .. ThrottleScale - 1, dropped: SUBSET (1 .. n)]

\* A turn adds its own command to the dropped ones or none: if it is a later
\* fragment, exactly if the command before it was dropped and has its number.
LEMMA ThrottleTurnType ==
    ASSUME NEW s \in Seq(CommandSpace), NEW throttle,
           NEW n \in Nat, NEW i \in 1 .. n, i \in 1 .. Len(s), NEW before \in Verdicts(n)
    PROVE  LET after == ThrottleTurn(s, throttle, i, before)
           IN  /\ after \in Verdicts(n)
               /\ after.dropped \subseteq before.dropped \cup {i} /\ before.dropped \subseteq after.dropped
               /\ s[i].frag > 0 /\ i \notin before.dropped =>
                      (i \in after.dropped <=> i - 1 \in before.dropped /\ s[i - 1].number = s[i].number)
<1> DEFINE after == ThrottleTurn(s, throttle, i, before)
           next == (before.counter + ThrottleCounter) % ThrottleScale
           grown == before.dropped \cup (IF next > throttle THEN {i} ELSE {})
<1>1. before.counter \in 0 .. ThrottleScale - 1 /\ before.dropped \in SUBSET (1 .. n)
  BY DEF Verdicts
<1>2. next \in 0 .. ThrottleScale - 1
  BY <1>1, PacketsAssumption
<1>3. s[i].frag \in Nat
  BY CommandFields
<1>4. CASE i - 1 \in before.dropped /\ s[i - 1].number = s[i].number
  <2>1. after = [before EXCEPT !.dropped = before.dropped \cup {i}]
    BY <1>4 DEF ThrottleTurn
  <2>2. before.dropped \cup {i} \in SUBSET (1 .. n)
    BY <1>1
  <2>3. after \in Verdicts(n) /\ after.dropped = before.dropped \cup {i}
    BY <2>1, <2>2 DEF Verdicts
  <2> HIDE DEF after
  <2>4. i \in after.dropped
    BY <2>3
  <2> QED BY <2>3, <2>4, <1>4 DEF after
<1>5. CASE ~ (i - 1 \in before.dropped /\ s[i - 1].number = s[i].number)
  <2>1. CASE s[i].frag = 0 /\ ~kind[s[i].pkt].unthrottled
    <3>1. after = [counter |-> next, dropped |-> grown]
      BY <1>5, <2>1 DEF ThrottleTurn
    <3>2. grown \in SUBSET (1 .. n)
      BY <1>1
    <3> HIDE DEF next, grown
    <3>3. after \in Verdicts(n) /\ after.dropped = grown
      BY <3>1, <3>2, <1>2 DEF Verdicts
    <3> HIDE DEF after
    <3>4. ~ (s[i].frag > 0)
      BY <2>1
    <3>5. grown \subseteq before.dropped \cup {i} /\ before.dropped \subseteq grown
      BY DEF grown
    <3> QED BY <3>3, <3>4, <3>5 DEF after
  <2>2. CASE ~ (s[i].frag = 0 /\ ~kind[s[i].pkt].unthrottled)
    <3>1. after = before
      BY <1>5, <2>2 DEF ThrottleTurn
    <3> HIDE DEF after
    <3> QED BY <3>1, <1>5 DEF after
  <2> QED BY <2>1, <2>2
<1> QED BY <1>4, <1>5

\* The function in the definition of Throttle exists.
LEMMA ThrottleTurns ==
    ASSUME NEW s \in Seq(CommandSpace), NEW counter \in 0 .. ThrottleScale - 1, NEW throttle
    PROVE  \E verdict \in [0 .. Len(s) -> Verdicts(Len(s))] :
               /\ Judges(verdict, Len(s), s, counter, throttle)
               /\ Throttle(s, counter, throttle) = verdict[Len(s)]
<1> DEFINE n == Len(s)
           Q == Verdicts(n)
           b == [counter |-> counter, dropped |-> {}]
           step == [i \in 1 .. n |-> [v \in Q |-> ThrottleTurn(s, throttle, i, v)]]
           Rule(f) == f = [i \in 0 .. n |-> IF i = 0 THEN b ELSE ThrottleTurn(s, throttle, i, f[i - 1])]
<1>1. n \in Nat /\ b \in Q
  BY DEF Verdicts
<1>2. ASSUME NEW i \in 1 .. n, NEW v \in Q PROVE ThrottleTurn(s, throttle, i, v) \in Q
  BY ThrottleTurnType, <1>1
<1>3. step \in [1 .. n -> [Q -> Q]]
  <2> HIDE DEF Q
  <2> QED BY <1>2
<1>4. PICK f : Computes(f, Q, n, b, step)
  <2> HIDE DEF n, Q, b, step
  <2> QED BY <1>1, <1>3, Recursion
<1>5. /\ f \in [0 .. n -> Q] /\ f[0] = b
      /\ \A i \in 1 .. n : f[i] = step[i][f[i - 1]]
  <2> HIDE DEF n, Q, b, step
  <2> QED BY <1>4 DEF Computes
<1>6. \A i \in 1 .. n : f[i] = ThrottleTurn(s, throttle, i, f[i - 1])
  <2> TAKE i \in 1 .. n
  <2>1. f[i - 1] \in Q
    <3>1. i - 1 \in 0 .. n
      BY <1>1
    <3> HIDE DEF n, Q
    <3> QED BY <3>1, <1>5
  <2> HIDE DEF Q, n
  <2> QED BY <2>1, <1>5
<1>7. f = [i \in 0 .. n |-> IF i = 0 THEN b ELSE ThrottleTurn(s, throttle, i, f[i - 1])]
  <2> HIDE DEF step, b, Q, n
  <2>1. \A i \in 0 .. n : f[i] = IF i = 0 THEN b ELSE ThrottleTurn(s, throttle, i, f[i - 1])
    <3> TAKE i \in 0 .. n
    <3>1. CASE i = 0
      BY <3>1, <1>5
    <3>2. CASE i # 0
      <4>1. i \in 1 .. n
        BY <3>2, <1>1
      <4> QED BY <4>1, <3>2, <1>6
    <3> QED BY <3>1, <3>2
  <2> QED BY <2>1, <1>5
<1> DEFINE verdict == CHOOSE g : Rule(g)
<1>8. Rule(verdict)
  <2>1. Rule(f)
    BY <1>7
  <2> HIDE DEF Rule
  <2> QED BY <2>1
<1>9. Throttle(s, counter, throttle) = verdict[n]
  BY DEF Throttle, ThrottleTurn
<1>10. verdict = f
  <2> HIDE DEF verdict, step, b, Q
  <2> DEFINE E == {i \in 0 .. n : verdict[i] = f[i]}
  <2>1. 0 \in E
    BY <1>5, <1>8, <1>1
  <2>2. ASSUME NEW i \in 1 .. n, i - 1 \in E PROVE i \in E
    <3> HIDE DEF n
    <3>1. i \in 0 .. n /\ i # 0 /\ verdict[i - 1] = f[i - 1]
      BY <1>1, <2>2
    <3> QED BY <3>1, <1>7, <1>8
  <2>3. 0 .. n \subseteq E
    <3> HIDE DEF E, n
    <3> QED BY <2>1, <2>2, <1>1, Induct
  <2>4. \A i \in 0 .. n : verdict[i] = f[i]
    BY <2>3
  <2> QED BY <2>4, <1>7, <1>8
<1>11. Judges(f, n, s, counter, throttle)
  <2> HIDE DEF n, Q, verdict, step
  <2> QED BY <1>7 DEF Judges
<1> HIDE DEF verdict, step, b
<1> QED BY <1>5, <1>9, <1>10, <1>11

\* The verdict of the throttle: a later fragment is dropped exactly if the
\* command before it was and has the same number.
LEMMA ThrottleVerdict ==
    ASSUME NEW s \in Seq(CommandSpace), NEW counter \in 0 .. ThrottleScale - 1, NEW throttle
    PROVE  LET verdict == Throttle(s, counter, throttle)
           IN  /\ verdict.counter \in 0 .. ThrottleScale - 1
               /\ verdict.dropped \subseteq 1 .. Len(s)
               /\ \A i \in 1 .. Len(s) : s[i].frag > 0 =>
                     (i \in verdict.dropped <=> i - 1 \in verdict.dropped /\ s[i - 1].number = s[i].number)
<1> DEFINE n == Len(s)
<1>1. PICK f \in [0 .. n -> Verdicts(n)] :
          /\ Judges(f, n, s, counter, throttle)
          /\ Throttle(s, counter, throttle) = f[n]
  BY ThrottleTurns
<1>2. n \in Nat /\ 0 \in 0 .. n /\ n \in 0 .. n
  OBVIOUS
<1>3. f[0].dropped = {}
  <2> HIDE DEF n
  <2>1. f[0] = [counter |-> counter, dropped |-> {}]
    BY <1>1, <1>2 DEF Judges
  <2> QED BY <2>1
<1>4. \A i \in 1 .. n : f[i] = ThrottleTurn(s, throttle, i, f[i - 1])
  <2> HIDE DEF n
  <2> TAKE i \in 1 .. n
  <2>1. i \in 0 .. n /\ i # 0
    BY <1>2
  <2> QED BY <2>1, <1>1 DEF Judges
<1>5. \A i \in 0 .. n : f[i] \in Verdicts(n)
  OBVIOUS
<1> DEFINE Late(i, j) == s[j].frag > 0 =>
               (j \in f[i].dropped <=> j - 1 \in f[i].dropped /\ s[j - 1].number = s[j].number)
           Good(i) == f[i].dropped \subseteq 1 .. i /\ \A j \in 1 .. i : Late(i, j)
           E == {i \in 0 .. n : Good(i)}
<1>6. 0 \in E
  BY <1>2, <1>3
<1>7. ASSUME NEW i \in 1 .. n, i - 1 \in E PROVE i \in E
  <2>0. i \in 0 .. n /\ i - 1 \in 0 .. n /\ i \in Nat /\ i > 0 /\ i \in 1 .. Len(s)
    BY <1>2
  <2>1. Good(i - 1)
    BY <1>7
  <2>2. f[i] = ThrottleTurn(s, throttle, i, f[i - 1]) /\ f[i - 1] \in Verdicts(n)
    BY <1>4, <1>5, <2>0
  <2> DEFINE before == f[i - 1].dropped
             after == f[i].dropped
  <2>3. /\ after \subseteq before \cup {i} /\ before \subseteq after
        /\ s[i].frag > 0 /\ i \notin before =>
               (i \in after <=> i - 1 \in before /\ s[i - 1].number = s[i].number)
    <3> HIDE DEF n
    <3> QED BY <2>0, <2>2, <1>2, ThrottleTurnType
  <2>4. before \subseteq 1 .. i - 1 /\ \A j \in 1 .. i - 1 : Late(i - 1, j)
    BY <2>1
  <2>5. after \subseteq 1 .. i
    BY <2>0, <2>3, <2>4
  <2>6. \A j \in 0 .. i - 1 : j \in after <=> j \in before
    BY <2>0, <2>3
  <2>7. ASSUME NEW j \in 1 .. i PROVE Late(i, j)
    <3>1. CASE j = i
      <4>1. i \notin before
        BY <2>0, <2>4
      <4>2. i - 1 \in after <=> i - 1 \in before
        BY <2>0, <2>6
      <4> HIDE DEF n, before, after
      <4> QED BY <3>1, <4>1, <4>2, <2>3 DEF after
    <3>2. CASE j # i
      <4>1. j \in 1 .. i - 1 /\ j \in 0 .. i - 1 /\ j - 1 \in 0 .. i - 1
        BY <3>2, <2>0
      <4>2. Late(i - 1, j)
        BY <4>1, <2>4
      <4>3. (j \in after <=> j \in before) /\ (j - 1 \in after <=> j - 1 \in before)
        BY <4>1, <2>6
      <4> QED BY <4>2, <4>3
    <3> QED BY <3>1, <3>2
  <2>8. Good(i)
    BY <2>5, <2>7
  <2> QED BY <2>0, <2>8
<1>8. n \in E
  <2> HIDE DEF E, n
  <2>1. 0 .. n \subseteq E
    BY <1>2, <1>6, <1>7, Induct
  <2> QED BY <2>1, <1>2
<1>9. Good(n) /\ f[n] \in Verdicts(n)
  BY <1>8, <1>5, <1>2
<1>10. f[n].counter \in 0 .. ThrottleScale - 1
  <2> HIDE DEF n, Good, E
  <2> QED BY <1>9 DEF Verdicts
<1> QED BY <1>1, <1>9, <1>10

-----------------------------------------------------------------------------
(* The inductive invariant *)

\* The variables' types, with the lists as sequences of commands; what is not
\* created is not known, and there is a kind for what is.
Typed ==
    /\ kind \in Batches
    /\ owner \in [Packets -> {"nobody", "application", "ENet"}]
    /\ referenceCount \in [Packets -> Nat] /\ destroyed \in [Packets -> Nat]
    /\ flaggedSent \subseteq Packets
    /\ state \in [Peers -> {"CONNECTED", "DISCONNECT_LATER", "ZOMBIE", "ENDED"}]
    /\ numbers \in [Peers -> [rel: Nat, unrel: Nat]]
    /\ outgoingCommands \in [Peers -> Seq(CommandSpace)]
    /\ outgoingSendReliableCommands \in [Peers -> Seq(CommandSpace)]
    /\ sentReliableCommands \in [Peers -> Seq(CommandSpace)]
    /\ packetThrottleCounter \in [Peers -> 0 .. ThrottleScale - 1]
    /\ broadcasting \in [pkt: {0} \cup Packets, todo: Seq(Peers)]
    /\ visiting \in [todo: Seq(Peers), timeouts: BOOLEAN]
    /\ transmitted \in [Peers -> SUBSET (Packets \X (0 .. FragmentCount - 1))]
    /\ \A p \in Packets : owner[p] # "nobody" => p \in DOMAIN kind

\* The lists of a peer are in order, and so is what it was sent.
InOrder(peer) ==
    /\ InRuns(kind, outgoingCommands[peer], transmitted[peer])
    /\ Waits(kind, outgoingSendReliableCommands[peer], sentReliableCommands[peer], transmitted[peer])
    /\ Whole(transmitted[peer])

\* A packet is destroyed exactly while ENet has it, nothing refers to it and it
\* is not being broadcast.
Lives(p) ==
    /\ destroyed[p] = IF owner[p] = "ENet" /\ referenceCount[p] = 0 /\ broadcasting.pkt # p THEN 1 ELSE 0
    /\ owner[p] # "ENet" => referenceCount[p] = 0 /\ broadcasting.pkt # p

\* The peers are visited within a broadcast only if it guards its packet.
Guarded ==
    /\ broadcasting.pkt = 0 => broadcasting = Nobody
    /\ broadcasting.pkt # 0 /\ ~kind[broadcasting.pkt].instant => visiting.todo = <<>>

IInv ==
    /\ Typed
    /\ \A peer \in Peers : InOrder(peer)
    /\ ReferencesExact
    /\ \A p \in Packets : Lives(p) /\ SentReachedAPeer(p)
    /\ Guarded
-----------------------------------------------------------------------------
(* Reference counts *)

\* The lists of the peers.
Lists == [peer \in Peers |-> Commands(peer)]

\* Lists that differ at one peer.
LEMMA PlacesChanged ==
    ASSUME NEW L \in [Peers -> Seq(CommandSpace)], NEW M \in [Peers -> Seq(CommandSpace)],
           NEW q \in Peers, \A r \in Peers : r # q => M[r] = L[r], NEW p
    PROVE  /\ Cardinality(PlacesIn(L, Peers, p)) \in Nat /\ Cardinality(PlacesIn(M, Peers, p)) \in Nat
           /\ Holding(p, L[q]) \in Nat /\ Holding(p, M[q]) \in Nat
           /\ Cardinality(PlacesIn(M, Peers, p)) + Holding(p, L[q]) =
                  Cardinality(PlacesIn(L, Peers, p)) + Holding(p, M[q])
<1>1. /\ Cardinality(PlacesIn(L, Peers, p)) \in Nat
      /\ Cardinality(PlacesIn(L, Peers \ {q}, p)) \in Nat
      /\ Cardinality(PlacesIn(L, Peers, p)) = Cardinality(PlacesIn(L, Peers \ {q}, p)) + Holding(p, L[q])
  BY PlacesSplit
<1>2. /\ Cardinality(PlacesIn(M, Peers, p)) \in Nat
      /\ Cardinality(PlacesIn(M, Peers, p)) = Cardinality(PlacesIn(M, Peers \ {q}, p)) + Holding(p, M[q])
  BY PlacesSplit
<1>3. PlacesIn(M, Peers \ {q}, p) = PlacesIn(L, Peers \ {q}, p)
  BY DEF PlacesIn
<1>4. Holding(p, L[q]) \in Nat /\ Holding(p, M[q]) \in Nat
  BY HoldingType
<1> QED BY <1>1, <1>2, <1>3, <1>4

\* The places of a packet, with the lists as a function.
LEMMA PlacesOfLists ==
    ASSUME NEW p
    PROVE  /\ PlacesOf(p, Peers) = PlacesIn(Lists, Peers, p)
           /\ PlacesOf(p, Peers)' = PlacesIn(Lists', Peers, p)
           /\ IsFiniteSet(Peers)
<1>1. IsFiniteSet(Peers)
  BY PacketsAssumption, FS_Interval DEF Peers
<1>2. PlacesOf(p, Peers) = PlacesIn(Lists, Peers, p)
  BY DEF PlacesOf, PlacesIn, Lists
<1>3. PlacesOf(p, Peers)' = PlacesIn(Lists', Peers, p)
  BY DEF PlacesOf, PlacesIn, Lists
<1> QED BY <1>1, <1>2, <1>3

\* The commands of a peer are counted list by list.
LEMMA HoldingThree ==
    ASSUME NEW a \in Seq(CommandSpace), NEW b \in Seq(CommandSpace), NEW c \in Seq(CommandSpace),
           NEW p
    PROVE  /\ a \o b \o c \in Seq(CommandSpace)
           /\ Holding(p, a \o b \o c) = Holding(p, a) + Holding(p, b) + Holding(p, c)
           /\ Holding(p, a) \in Nat /\ Holding(p, b) \in Nat /\ Holding(p, c) \in Nat
<1>1. a \o b \in Seq(CommandSpace) /\ Holding(p, a \o b) = Holding(p, a) + Holding(p, b)
  BY HoldingConcat
<1> DEFINE ab == a \o b
<1>2. ab \o c \in Seq(CommandSpace) /\ Holding(p, ab \o c) = Holding(p, ab) + Holding(p, c)
  <2>1. ab \in Seq(CommandSpace)
    BY <1>1
  <2> HIDE DEF ab
  <2> QED BY <2>1, HoldingConcat
<1>3. Holding(p, a) \in Nat /\ Holding(p, b) \in Nat /\ Holding(p, c) \in Nat
  BY HoldingType
<1> QED BY <1>1, <1>2, <1>3

\* The lists are sequences of commands, each of three parts.
LEMMA ListsTyped ==
    ASSUME Typed
    PROVE  /\ Lists \in [Peers -> Seq(CommandSpace)]
           /\ \A peer \in Peers : Lists[peer] = Commands(peer)
           /\ \A peer \in Peers : \A p :
                 Holding(p, Commands(peer)) =
                     Holding(p, outgoingCommands[peer]) + Holding(p, outgoingSendReliableCommands[peer])
                         + Holding(p, sentReliableCommands[peer])
<1>1. ASSUME NEW q \in Peers PROVE Commands(q) \in Seq(CommandSpace)
  <2>1. /\ outgoingCommands[q] \in Seq(CommandSpace)
        /\ outgoingSendReliableCommands[q] \in Seq(CommandSpace)
        /\ sentReliableCommands[q] \in Seq(CommandSpace)
    BY DEF Typed
  <2> QED BY <2>1, HoldingThree DEF Commands
<1>2. ASSUME NEW q \in Peers, NEW p
      PROVE  Holding(p, Commands(q)) =
                 Holding(p, outgoingCommands[q]) + Holding(p, outgoingSendReliableCommands[q])
                     + Holding(p, sentReliableCommands[q])
  <2> DEFINE a == outgoingCommands[q]
             b == outgoingSendReliableCommands[q]
             c == sentReliableCommands[q]
  <2>1. Commands(q) = a \o b \o c
    BY DEF Commands
  <2>2. a \in Seq(CommandSpace) /\ b \in Seq(CommandSpace) /\ c \in Seq(CommandSpace)
    BY DEF Typed
  <2> HIDE DEF a, b, c
  <2>3. Holding(p, a \o b \o c) = Holding(p, a) + Holding(p, b) + Holding(p, c)
    BY <2>2, HoldingThree
  <2> QED BY <2>1, <2>3 DEF a, b, c
<1> QED BY <1>1, <1>2 DEF Lists

\* A step that changes the lists of one peer, and the counts along with them,
\* keeps the counts exact.
LEMMA ReferencesFollow ==
    ASSUME Typed, ReferencesExact, NEW q \in Peers,
           Lists' \in [Peers -> Seq(CommandSpace)],
           \A r \in Peers : r # q => Lists'[r] = Lists[r],
           kind' = kind, broadcasting'.pkt = broadcasting.pkt,
           NEW p \in Packets,
           referenceCount'[p] = referenceCount[p] + Holding(p, Lists'[q]) - Holding(p, Lists[q])
    PROVE  /\ referenceCount'[p] = Uses(p)'
           /\ referenceCount'[p] \in Nat
           /\ Holding(p, Lists[q]) <= referenceCount[p]
           /\ Holding(p, Lists'[q]) <= referenceCount'[p]
           /\ broadcasting.pkt = p /\ kind[p].instant =>
                  /\ Holding(p, Lists[q]) < referenceCount[p]
                  /\ Holding(p, Lists'[q]) < referenceCount'[p]
<1> DEFINE a == Cardinality(PlacesIn(Lists, Peers, p))
           b == Cardinality(PlacesIn(Lists', Peers, p))
           g == IF broadcasting.pkt = p /\ kind[p].instant THEN 1 ELSE 0
           h == Holding(p, Lists[q])
           i == Holding(p, Lists'[q])
<1>1. Lists \in [Peers -> Seq(CommandSpace)] /\ IsFiniteSet(Peers)
  BY ListsTyped, PlacesOfLists
<1>2. a \in Nat /\ b \in Nat /\ h \in Nat /\ i \in Nat /\ b + h = a + i
  <2>1. /\ a \in Nat /\ b \in Nat /\ h \in Nat /\ i \in Nat
        /\ b + h = a + i
    BY <1>1, PlacesChanged
  <2> QED BY <2>1
<1>3. referenceCount[p] = a + g
  BY PlacesOfLists DEF ReferencesExact, Uses
<1>4. Uses(p)' = b + g
  <2>1. PlacesOf(p, Peers)' = PlacesIn(Lists', Peers, p)
    BY PlacesOfLists
  <2> QED BY <2>1 DEF Uses
<1>5. h <= a /\ i <= b
  <2>1. Cardinality(PlacesIn(Lists, Peers \ {q}, p)) \in Nat
        /\ a = Cardinality(PlacesIn(Lists, Peers \ {q}, p)) + h
    BY <1>1, PlacesSplit
  <2>2. Cardinality(PlacesIn(Lists', Peers \ {q}, p)) \in Nat
        /\ b = Cardinality(PlacesIn(Lists', Peers \ {q}, p)) + i
    BY <1>1, PlacesSplit
  <2> QED BY <2>1, <2>2, <1>2
<1>6. g \in {0, 1} /\ (broadcasting.pkt = p /\ kind[p].instant => g = 1)
  OBVIOUS
<1> HIDE DEF a, b, g, h, i
<1> QED BY <1>2, <1>3, <1>4, <1>5, <1>6 DEF h, i

\* The lists of a peer change, and those of the others do not.
LEMMA ListsChange ==
    ASSUME Typed, NEW q \in Peers,
           NEW o \in Seq(CommandSpace), NEW w \in Seq(CommandSpace), NEW s \in Seq(CommandSpace),
           outgoingCommands' = [outgoingCommands EXCEPT ![q] = o],
           outgoingSendReliableCommands' = [outgoingSendReliableCommands EXCEPT ![q] = w],
           sentReliableCommands' = [sentReliableCommands EXCEPT ![q] = s]
    PROVE  /\ outgoingCommands' \in [Peers -> Seq(CommandSpace)]
           /\ outgoingSendReliableCommands' \in [Peers -> Seq(CommandSpace)]
           /\ sentReliableCommands' \in [Peers -> Seq(CommandSpace)]
           /\ \A r \in Peers : r # q =>
                 UNCHANGED <<outgoingCommands[r], outgoingSendReliableCommands[r],
                             sentReliableCommands[r]>>
           /\ outgoingCommands'[q] = o /\ outgoingSendReliableCommands'[q] = w
           /\ sentReliableCommands'[q] = s
           /\ Lists' \in [Peers -> Seq(CommandSpace)]
           /\ \A r \in Peers : r # q => Lists'[r] = Lists[r]
           /\ \A p : /\ Holding(p, Lists'[q]) = Holding(p, o) + Holding(p, w) + Holding(p, s)
                     /\ Holding(p, Lists[q]) =
                           Holding(p, outgoingCommands[q]) + Holding(p, outgoingSendReliableCommands[q])
                               + Holding(p, sentReliableCommands[q])
                     /\ Holding(p, o) \in Nat /\ Holding(p, w) \in Nat /\ Holding(p, s) \in Nat
<1>1. /\ outgoingCommands \in [Peers -> Seq(CommandSpace)]
      /\ outgoingSendReliableCommands \in [Peers -> Seq(CommandSpace)]
      /\ sentReliableCommands \in [Peers -> Seq(CommandSpace)]
  BY DEF Typed
<1>2. /\ outgoingCommands' \in [Peers -> Seq(CommandSpace)]
      /\ outgoingCommands'[q] = o
      /\ \A r \in Peers : r # q => outgoingCommands'[r] = outgoingCommands[r]
  BY <1>1
<1>3. /\ outgoingSendReliableCommands' \in [Peers -> Seq(CommandSpace)]
      /\ outgoingSendReliableCommands'[q] = w
      /\ \A r \in Peers : r # q => outgoingSendReliableCommands'[r] = outgoingSendReliableCommands[r]
  BY <1>1
<1>4. /\ sentReliableCommands' \in [Peers -> Seq(CommandSpace)]
      /\ sentReliableCommands'[q] = s
      /\ \A r \in Peers : r # q => sentReliableCommands'[r] = sentReliableCommands[r]
  BY <1>1
<1>5. /\ \A r \in Peers : Lists'[r] = outgoingCommands'[r] \o outgoingSendReliableCommands'[r] \o sentReliableCommands'[r]
      /\ \A r \in Peers : Lists[r] = outgoingCommands[r] \o outgoingSendReliableCommands[r] \o sentReliableCommands[r]
  BY DEF Lists, Commands
<1>6. \A r \in Peers : r # q => Lists'[r] = Lists[r]
  BY <1>2, <1>3, <1>4, <1>5
<1>7. Lists'[q] = o \o w \o s
  BY <1>2, <1>3, <1>4, <1>5
<1>8. Lists \in [Peers -> Seq(CommandSpace)]
  BY ListsTyped
<1>9. Lists'[q] \in Seq(CommandSpace)
  BY <1>7, HoldingThree
<1>10. Lists' \in [Peers -> Seq(CommandSpace)]
  <2>1. ASSUME NEW r \in Peers PROVE Lists'[r] \in Seq(CommandSpace)
    BY <1>6, <1>8, <1>9
  <2> QED BY <2>1 DEF Lists
<1>11. \A p : /\ Holding(p, Lists'[q]) = Holding(p, o) + Holding(p, w) + Holding(p, s)
              /\ Holding(p, o) \in Nat /\ Holding(p, w) \in Nat /\ Holding(p, s) \in Nat
  BY <1>7, HoldingThree
<1>12. \A p : Holding(p, Lists[q]) =
                  Holding(p, outgoingCommands[q]) + Holding(p, outgoingSendReliableCommands[q])
                      + Holding(p, sentReliableCommands[q])
  <2> TAKE p
  <2>1. /\ outgoingCommands[q] \in Seq(CommandSpace)
        /\ outgoingSendReliableCommands[q] \in Seq(CommandSpace)
        /\ sentReliableCommands[q] \in Seq(CommandSpace)
    BY <1>1
  <2> DEFINE a == outgoingCommands[q]
             b == outgoingSendReliableCommands[q]
             c == sentReliableCommands[q]
  <2>2. Lists[q] = a \o b \o c
    BY <1>5
  <2> HIDE DEF a, b, c
  <2>3. a \in Seq(CommandSpace) /\ b \in Seq(CommandSpace) /\ c \in Seq(CommandSpace)
    BY <2>1 DEF a, b, c
  <2>4. Holding(p, a \o b \o c) = Holding(p, a) + Holding(p, b) + Holding(p, c)
    BY <2>3, HoldingThree
  <2> QED BY <2>2, <2>4 DEF a, b, c
<1> QED BY <1>2, <1>3, <1>4, <1>6, <1>10, <1>11, <1>12

\* The commands that Release was called for leave the lists of peer q.
Released(q, dropped, sent) ==
    /\ Lists' \in [Peers -> Seq(CommandSpace)]
    /\ \A r \in Peers : r # q => Lists'[r] = Lists[r]
    /\ \A p \in Packets :
          Holding(p, Lists[q]) = Holding(p, Lists'[q]) + Holding(p, dropped) + Holding(p, sent)

\* What peers were sent stays, and q was sent all of a packet that loses a sent
\* command and has no other in its lists.
Reached(q, sent) ==
    /\ \A r \in Peers : transmitted[r] \subseteq transmitted'[r]
    /\ \A p \in Packets : Holding(p, sent) > 0 /\ Holding(p, Lists'[q]) = 0 =>
          \A f \in 0 .. FragmentsOf(kind, p) - 1 : <<p, f>> \in transmitted'[q]

\* Release keeps the counts exact, destroys what has lost its last reference,
\* and flags it only if a peer was sent all of it.
LEMMA ReleaseKeeps ==
    ASSUME IInv, NEW q \in Peers,
           NEW dropped \in Seq(CommandSpace), NEW sent \in Seq(CommandSpace),
           Release(dropped, sent), Released(q, dropped, sent), Reached(q, sent),
           UNCHANGED <<kind, owner>>, broadcasting' = broadcasting,
           broadcasting.pkt # 0 => kind[broadcasting.pkt].instant
    PROVE  /\ ReferencesExact'
           /\ \A p \in Packets : Lives(p)' /\ SentReachedAPeer(p)'
           /\ referenceCount' \in [Packets -> Nat] /\ destroyed' \in [Packets -> Nat]
           /\ flaggedSent' \subseteq Packets
<1> DEFINE left(p) == referenceCount[p] - Holding(p, dropped) - Holding(p, sent)
           last == {p \in Packets : referenceCount[p] > 0 /\ left(p) = 0}
<1>1. /\ referenceCount' = [p \in Packets |-> left(p)]
      /\ destroyed' = [p \in Packets |-> destroyed[p] + (IF p \in last THEN 1 ELSE 0)]
      /\ flaggedSent' = flaggedSent \cup {p \in last : Holding(p, sent) > 0}
  BY DEF Release
<1>2. Typed /\ ReferencesExact /\ \A p \in Packets : Lives(p) /\ SentReachedAPeer(p)
  BY DEF IInv
<1>3. /\ referenceCount \in [Packets -> Nat] /\ destroyed \in [Packets -> Nat]
      /\ flaggedSent \subseteq Packets
  BY <1>2 DEF Typed
<1>4. ASSUME NEW p \in Packets
      PROVE  /\ referenceCount'[p] = left(p) /\ left(p) \in Nat
             /\ left(p) = Uses(p)'
             /\ Holding(p, Lists'[q]) <= left(p) /\ Holding(p, Lists'[q]) \in Nat
             /\ broadcasting.pkt = p => left(p) > 0
             /\ left(p) <= referenceCount[p] /\ Holding(p, sent) \in Nat
  <2> DEFINE a == Holding(p, Lists[q])
             b == Holding(p, Lists'[q])
             d == Holding(p, dropped)
             e == Holding(p, sent)
             r == referenceCount[p]
  <2>1. Lists \in [Peers -> Seq(CommandSpace)] /\ Lists' \in [Peers -> Seq(CommandSpace)]
    BY <1>2, ListsTyped DEF Released
  <2>2. a \in Nat /\ b \in Nat /\ d \in Nat /\ e \in Nat /\ r \in Nat
    BY <2>1, <1>3, HoldingType
  <2>3. a = b + d + e
    BY DEF Released
  <2>4. referenceCount'[p] = r - d - e
    BY <1>1
  <2>5. referenceCount'[p] = r + b - a
    <3> HIDE DEF a, b, d, e, r
    <3> QED BY <2>2, <2>3, <2>4
  <2>6. /\ referenceCount'[p] = Uses(p)' /\ referenceCount'[p] \in Nat
        /\ b <= referenceCount'[p]
        /\ broadcasting.pkt = p /\ kind[p].instant => b < referenceCount'[p]
    <3>1. \A x \in Peers : x # q => Lists'[x] = Lists[x]
      BY DEF Released
    <3> QED BY <1>2, <2>1, <2>5, <3>1, ReferencesFollow
  <2>7. broadcasting.pkt = p => kind[p].instant
    <3>1. p # 0
      BY DEF Packets
    <3> QED BY <3>1
  <2>8. left(p) = r - d - e /\ referenceCount'[p] = left(p)
    BY <2>4
  <2>9. r - d - e <= r
    <3> HIDE DEF a, b, d, e, r
    <3> QED BY <2>2
  <2> QED BY <2>2, <2>4, <2>6, <2>7, <2>8, <2>9
<1> HIDE DEF left
<1>5. ReferencesExact'
  BY <1>4 DEF ReferencesExact
<1>6. ASSUME NEW p \in Packets PROVE Lives(p)'
  <2>1. /\ destroyed[p] = IF owner[p] = "ENet" /\ referenceCount[p] = 0 /\ broadcasting.pkt # p THEN 1 ELSE 0
        /\ owner[p] # "ENet" => referenceCount[p] = 0 /\ broadcasting.pkt # p
    BY <1>2 DEF Lives
  <2>2. destroyed'[p] = destroyed[p] + (IF p \in last THEN 1 ELSE 0)
    BY <1>1
  <2>3. referenceCount[p] \in Nat /\ destroyed[p] \in Nat
    BY <1>3
  <2>4. p \in last <=> referenceCount[p] > 0 /\ referenceCount'[p] = 0
    BY <1>4
  <2> HIDE DEF last
  <2>5. destroyed'[p] = IF owner[p] = "ENet" /\ referenceCount'[p] = 0 /\ broadcasting.pkt # p THEN 1 ELSE 0
    <3>1. CASE p \in last
      <4>1. referenceCount'[p] = 0 /\ owner[p] = "ENet" /\ destroyed[p] = 0
        BY <3>1, <2>1, <2>3, <2>4
      <4>2. broadcasting.pkt # p
        BY <4>1, <1>4
      <4> QED BY <3>1, <4>1, <4>2, <2>2
    <3>2. CASE p \notin last
      <4>1. referenceCount'[p] = 0 <=> referenceCount[p] = 0
        BY <3>2, <2>3, <2>4, <1>4
      <4>2. destroyed'[p] = destroyed[p]
        BY <3>2, <2>2, <2>3
      <4> QED BY <4>1, <4>2, <2>1
    <3> QED BY <3>1, <3>2
  <2>6. owner[p] # "ENet" => referenceCount'[p] = 0 /\ broadcasting.pkt # p
    BY <2>1, <2>3, <1>4
  <2> QED BY <2>5, <2>6 DEF Lives
<1>7. ASSUME NEW p \in Packets, p \in flaggedSent' PROVE SentReachedAPeer(p)'
  <2>1. destroyed'[p] = IF owner[p] = "ENet" /\ referenceCount'[p] = 0 /\ broadcasting.pkt # p THEN 1 ELSE 0
    BY <1>6 DEF Lives
  <2>2. \A r \in Peers : transmitted[r] \subseteq transmitted'[r]
    BY DEF Reached
  <2>3. Fragments(p)' = Fragments(p) /\ Fragments(p) = FragmentsOf(kind, p)
    BY DEF Fragments, FragmentsOf
  <2>4. CASE p \in flaggedSent
    <3>1. /\ destroyed[p] = 1
          /\ \E peer \in Peers : \A frag \in 0 .. Fragments(p) - 1 : <<p, frag>> \in transmitted[peer]
      BY <1>2, <2>4 DEF SentReachedAPeer
    <3>2. owner[p] = "ENet" /\ referenceCount[p] = 0 /\ broadcasting.pkt # p
      BY <1>2, <3>1 DEF Lives
    <3>3. referenceCount'[p] = 0
      BY <3>2, <1>4
    <3>4. destroyed'[p] = 1
      BY <3>2, <3>3, <2>1
    <3> QED BY <3>1, <3>4, <2>2, <2>3 DEF SentReachedAPeer
  <2>5. CASE p \notin flaggedSent
    <3>1. p \in last /\ Holding(p, sent) > 0
      <4>1. p \in flaggedSent \cup {x \in last : Holding(x, sent) > 0}
        BY <1>7, <1>1
      <4> HIDE DEF last
      <4> QED BY <2>5, <4>1
    <3>2. referenceCount'[p] = 0 /\ referenceCount[p] > 0
      BY <3>1, <1>4
    <3>3. Holding(p, Lists'[q]) = 0
      BY <3>2, <1>4
    <3>4. \A f \in 0 .. FragmentsOf(kind, p) - 1 : <<p, f>> \in transmitted'[q]
      BY <3>1, <3>3 DEF Reached
    <3>5. owner[p] = "ENet"
      BY <3>2, <1>2 DEF Lives
    <3>6. broadcasting.pkt # p
      BY <3>2, <1>4
    <3>7. destroyed'[p] = 1
      BY <3>2, <3>5, <3>6, <2>1
    <3> QED BY <3>4, <3>7, <2>3 DEF SentReachedAPeer
  <2> QED BY <2>4, <2>5
<1>8. \A p \in Packets : SentReachedAPeer(p)'
  BY <1>7 DEF SentReachedAPeer
<1>9. referenceCount' \in [Packets -> Nat] /\ destroyed' \in [Packets -> Nat] /\ flaggedSent' \subseteq Packets
  BY <1>1, <1>3, <1>4
<1> QED BY <1>5, <1>6, <1>8, <1>9

-----------------------------------------------------------------------------
(* Steps that leave the lists alone *)

\* The loops over the peers.
LEMMA LoopTypes ==
    /\ HostPeers \in Seq(Peers)
    /\ Nowhere \in [todo: Seq(Peers), timeouts: BOOLEAN]
    /\ Flush \in [todo: Seq(Peers), timeouts: BOOLEAN]
    /\ Nobody \in [pkt: {0} \cup Packets, todo: Seq(Peers)]
<1>1. HostPeers \in Seq(Peers)
  <2>1. PeerCount \in Nat /\ HostPeers \in [1 .. PeerCount -> Peers]
    BY PacketsAssumption DEF HostPeers, Peers
  <2> QED BY <2>1
<1> QED BY <1>1 DEF Nowhere, Flush, Nobody

\* The order of the lists, where they stay.
LEMMA OrderStays ==
    ASSUME NEW q \in Peers, InOrder(q), kind' = kind,
           UNCHANGED <<outgoingCommands[q], outgoingSendReliableCommands[q],
                       sentReliableCommands[q], transmitted[q]>>
    PROVE  InOrder(q)'
BY DEF InOrder

\* A step that changes no list, no count and nothing ENet has.
LEMMA QuietKeeps ==
    ASSUME IInv, Typed', Guarded',
           UNCHANGED <<kind, lifeVars, listVars, transmitted>>,
           broadcasting'.pkt = broadcasting.pkt,
           \A p \in Packets : owner'[p] = "ENet" <=> owner[p] = "ENet"
    PROVE  IInv'
<1>1. \A q \in Peers : InOrder(q)'
  BY OrderStays DEF IInv, listVars
<1>2. ReferencesExact'
  <2>1. \A p : PlacesOf(p, Peers)' = PlacesOf(p, Peers)
    BY DEF PlacesOf, Commands, listVars
  <2> QED BY <2>1 DEF IInv, ReferencesExact, Uses, lifeVars
<1>3. \A p \in Packets : Lives(p)'
  BY DEF IInv, Lives, lifeVars
<1>4. \A p \in Packets : SentReachedAPeer(p)'
  BY DEF IInv, SentReachedAPeer, Fragments, lifeVars
<1> QED BY <1>1, <1>2, <1>3, <1>4 DEF IInv

\* A packet is created.
LEMMA CreateKeeps == ASSUME IInv, NEW p \in Packets, Create(p) PROVE IInv'
<1>1. Typed'
  BY DEF IInv, Typed, Create, lifeVars, peerVars, listVars
<1>2. Guarded'
  BY DEF IInv, Guarded, Create
<1>3. \A q \in Packets : owner'[q] = "ENet" <=> owner[q] = "ENet"
  BY DEF IInv, Typed, Create
<1> QED BY <1>1, <1>2, <1>3, QuietKeeps DEF Create

\* The application calls enet_host_service or enet_host_flush.
LEMMA ServiceKeeps == ASSUME IInv, NEW timeouts \in BOOLEAN, Service(timeouts) PROVE IInv'
<1>1. Typed'
  BY LoopTypes DEF IInv, Typed, Service, packetVars, lifeVars, peerVars, listVars
<1>2. Guarded'
  BY DEF IInv, Guarded, Service, Idle, Nobody, packetVars
<1> QED BY <1>1, <1>2, QuietKeeps DEF Service, packetVars

\* A peer without queues is passed over.
LEMMA VisitNobodyKeeps == ASSUME IInv, VisitNobody PROVE IInv'
<1>1. Typed'
  <2>1. visiting' \in [todo: Seq(Peers), timeouts: BOOLEAN]
    <3>1. visiting \in [todo: Seq(Peers), timeouts: BOOLEAN]
          /\ visiting' = [visiting EXCEPT !.todo = Tail(@)] /\ visiting.todo # <<>>
      BY DEF IInv, Typed, VisitNobody
    <3>2. Tail(visiting.todo) \in Seq(Peers)
      BY <3>1
    <3> DEFINE t == Tail(visiting.todo)
    <3> HIDE DEF t
    <3>3. visiting' = [visiting EXCEPT !.todo = t] /\ t \in Seq(Peers)
      BY <3>1, <3>2 DEF t
    <3> QED BY <3>1, <3>3
  <2> QED BY <2>1 DEF IInv, Typed, VisitNobody, packetVars, lifeVars, peerVars, listVars
<1>2. Guarded'
  BY DEF IInv, Guarded, VisitNobody, packetVars
<1> QED BY <1>1, <1>2, QuietKeeps DEF VisitNobody, packetVars

\* The application lets a peer disconnect later.
LEMMA DisconnectLaterKeeps == ASSUME IInv, NEW q \in Peers, DisconnectLater(q) PROVE IInv'
<1>1. Typed'
  BY DEF IInv, Typed, DisconnectLater, packetVars, lifeVars, listVars
<1>2. Guarded'
  BY DEF IInv, Guarded, DisconnectLater, packetVars
<1> QED BY <1>1, <1>2, QuietKeeps DEF DisconnectLater, packetVars

\* A connection takes a peer.
LEMMA ConnectKeeps == ASSUME IInv, NEW q \in Peers, Connect(q) PROVE IInv'
<1>1. Typed'
  <2>1. 0 \in 0 .. ThrottleScale - 1
    BY PacketsAssumption
  <2>2. packetThrottleCounter' \in [Peers -> 0 .. ThrottleScale - 1]
    BY <2>1 DEF IInv, Typed, Connect
  <2>3. numbers' \in [Peers -> [rel: Nat, unrel: Nat]]
    BY DEF IInv, Typed, Connect
  <2>4. state' \in [Peers -> {"CONNECTED", "DISCONNECT_LATER", "ZOMBIE", "ENDED"}]
    BY DEF IInv, Typed, Connect
  <2> QED BY <2>2, <2>3, <2>4 DEF IInv, Typed, Connect, packetVars, lifeVars, listVars
<1>2. Guarded'
  BY DEF IInv, Guarded, Connect, packetVars
<1> QED BY <1>1, <1>2, QuietKeeps DEF Connect, packetVars

\* A packet that nobody took is disposed of.
LEMMA DisposeKeeps == ASSUME IInv, NEW p \in Packets, Dispose(p) PROVE IInv'
<1>1. /\ Typed /\ (\A q \in Packets : Lives(q) /\ SentReachedAPeer(q)) /\ ReferencesExact
      /\ broadcasting = Nobody /\ owner[p] = "application"
  BY DEF IInv, Dispose, Idle
<1>2. referenceCount[p] = 0 /\ destroyed[p] = 0 /\ broadcasting.pkt = 0 /\ p # 0
  BY <1>1 DEF Lives, Nobody, Packets
<1>3. /\ owner' = [owner EXCEPT ![p] = "ENet"] /\ referenceCount' = referenceCount
      /\ destroyed' = [destroyed EXCEPT ![p] = 1]
  BY <1>1, <1>2 DEF Dispose, DestroyUnreferenced, Typed
<1>4. Typed'
  BY <1>1, <1>3 DEF Typed, Dispose, peerVars, listVars
<1>5. \A q \in Peers : InOrder(q)'
  BY OrderStays DEF IInv, listVars, Dispose
<1>6. ReferencesExact'
  <2>1. \A q : PlacesOf(q, Peers)' = PlacesOf(q, Peers)
    BY DEF PlacesOf, Commands, listVars, Dispose
  <2> QED BY <2>1, <1>1 DEF ReferencesExact, Uses, Dispose
<1>7. ASSUME NEW q \in Packets PROVE Lives(q)'
  BY <1>1, <1>2, <1>3 DEF Lives, Dispose, Typed
<1>8. ASSUME NEW q \in Packets PROVE SentReachedAPeer(q)'
  <2>1. SentReachedAPeer(q) /\ flaggedSent' = flaggedSent /\ transmitted' = transmitted /\ kind' = kind
    BY <1>1 DEF Dispose
  <2>2. destroyed[q] = 1 => destroyed'[q] = 1
    BY <1>1, <1>3 DEF Typed
  <2> QED BY <2>1, <2>2 DEF SentReachedAPeer, Fragments
<1>9. Guarded'
  BY DEF IInv, Guarded, Dispose
<1> QED BY <1>4, <1>5, <1>6, <1>7, <1>8, <1>9 DEF IInv

\* A broadcast begins.
LEMMA BroadcastKeeps ==
    ASSUME IInv, NEW p \in Packets, NEW recipients \in Recipients, Broadcast(p, recipients)
    PROVE  IInv'
<1>1. /\ Typed /\ (\A q \in Packets : Lives(q) /\ SentReachedAPeer(q)) /\ ReferencesExact
      /\ broadcasting = Nobody /\ visiting.todo = <<>> /\ owner[p] = "application"
  BY DEF IInv, Broadcast, Idle
<1>2. referenceCount[p] = 0 /\ destroyed[p] = 0 /\ broadcasting.pkt = 0 /\ p # 0
  BY <1>1 DEF Lives, Nobody, Packets
<1>3. /\ owner' = [owner EXCEPT ![p] = "ENet"]
      /\ referenceCount' = [referenceCount EXCEPT ![p] = IF kind[p].instant THEN 1 ELSE 0]
      /\ broadcasting' = [pkt |-> p, todo |-> recipients]
      /\ UNCHANGED <<kind, destroyed, flaggedSent, peerVars, listVars, visiting, transmitted>>
  BY <1>1, <1>2 DEF Broadcast, Typed
<1>4. Typed'
  <2>1. broadcasting' \in [pkt: {0} \cup Packets, todo: Seq(Peers)]
    BY <1>3, PacketsAssumption
  <2>2. /\ referenceCount' \in [Packets -> Nat]
        /\ owner' \in [Packets -> {"nobody", "application", "ENet"}]
    BY <1>1, <1>3 DEF Typed
  <2>3. \A q \in Packets : owner'[q] # "nobody" => q \in DOMAIN kind'
    BY <1>1, <1>3 DEF Typed
  <2> QED BY <1>1, <1>3, <2>1, <2>2, <2>3 DEF Typed, peerVars, listVars
<1>5. \A q \in Peers : InOrder(q)'
  BY <1>3, OrderStays DEF IInv, listVars
<1>6. ReferencesExact'
  <2> SUFFICES ASSUME NEW q \in Packets PROVE referenceCount'[q] = Uses(q)'
    BY DEF ReferencesExact
  <2>1. PlacesOf(q, Peers)' = PlacesOf(q, Peers)
    BY <1>3 DEF PlacesOf, Commands, listVars
  <2> DEFINE a == Cardinality(PlacesOf(q, Peers))
  <2>2. a \in Nat
    <3>1. Lists \in [Peers -> Seq(CommandSpace)] /\ IsFiniteSet(Peers)
      BY <1>1, ListsTyped, PlacesOfLists
    <3>2. PICK r \in Peers : TRUE
      BY PacketsAssumption DEF Peers
    <3>3. Cardinality(PlacesIn(Lists, Peers, q)) \in Nat
      BY <3>1, <3>2, PlacesSplit
    <3> QED BY <3>3, PlacesOfLists
  <2>3. referenceCount[q] = a + (IF broadcasting.pkt = q /\ kind[q].instant THEN 1 ELSE 0)
    BY <1>1 DEF ReferencesExact, Uses
  <2>4. Uses(q)' = a + (IF broadcasting'.pkt = q /\ kind[q].instant THEN 1 ELSE 0)
    BY <2>1, <1>3 DEF Uses
  <2>5. referenceCount[q] = a
    BY <2>2, <2>3, <1>2 DEF Packets
  <2>6. broadcasting'.pkt = p
    BY <1>3
  <2>7. CASE q = p
    <3>1. referenceCount'[q] = IF kind[p].instant THEN 1 ELSE 0
      BY <1>1, <1>3, <2>7 DEF Typed
    <3> HIDE DEF a
    <3> QED BY <3>1, <2>4, <2>5, <2>6, <2>7, <1>2
  <2>8. CASE q # p
    <3>1. referenceCount'[q] = referenceCount[q]
      BY <1>1, <1>3, <2>8 DEF Typed
    <3> HIDE DEF a
    <3> QED BY <3>1, <2>2, <2>4, <2>5, <2>6, <2>8
  <2> QED BY <2>7, <2>8
<1>7. ASSUME NEW q \in Packets PROVE Lives(q)'
  <2>1. Lives(q) /\ broadcasting.pkt # q
    BY <1>1, <1>2 DEF Packets
  <2>2. destroyed' = destroyed /\ broadcasting'.pkt = p
    BY <1>3
  <2>3. CASE q = p
    <3>1. owner'[q] = "ENet"
      BY <1>1, <1>3, <2>3 DEF Typed
    <3> QED BY <3>1, <2>2, <2>3, <1>2 DEF Lives
  <2>4. CASE q # p
    <3>1. owner'[q] = owner[q] /\ referenceCount'[q] = referenceCount[q]
      BY <1>1, <1>3, <2>4 DEF Typed
    <3> QED BY <3>1, <2>1, <2>2, <2>4 DEF Lives
  <2> QED BY <2>3, <2>4
<1>8. ASSUME NEW q \in Packets PROVE SentReachedAPeer(q)'
  BY <1>1, <1>3 DEF SentReachedAPeer, Fragments
<1>9. Guarded'
  BY <1>1, <1>2, <1>3 DEF Guarded
<1> QED BY <1>4, <1>5, <1>6, <1>7, <1>8, <1>9 DEF IInv

-----------------------------------------------------------------------------
(* Steps that queue a packet *)

\* The commands c for a packet: one for each fragment, in their order, and with
\* one number unless the packet is reliable.
Fresh(k, c, p) ==
    /\ Len(c) = FragmentsOf(k, p)
    /\ \A i \in 1 .. Len(c) : c[i].pkt = p /\ c[i].frag = i - 1 /\ c[i].attempted = FALSE
    /\ k[p].class # "reliable" => \E number : \A i \in 1 .. Len(c) : c[i].number = number

\* Fresh commands of an unreliable packet go behind the others.
LEMMA RunsFresh ==
    ASSUME NEW k, NEW s \in Seq(CommandSpace), NEW t, InRuns(k, s, t),
           NEW c \in Seq(CommandSpace), NEW p, Fresh(k, c, p), k[p].class # "reliable"
    PROVE  InRuns(k, s \o c, t)
<1>1. PICK number : \A i \in 1 .. Len(c) : c[i].number = number
  BY DEF Fresh
<1>2. Len(c) = FragmentsOf(k, p)
  BY DEF Fresh
<1>3. \A i \in 1 .. Len(c) : c[i].pkt = p /\ c[i].frag = i - 1 /\ c[i].number = number
  BY <1>1 DEF Fresh
<1> QED BY <1>2, <1>3, RunsJoin

\* Fresh commands of a reliable packet go behind the others.
LEMMA WaitsFresh ==
    ASSUME NEW k, NEW w \in Seq(CommandSpace), NEW s \in Seq(CommandSpace), NEW t,
           Waits(k, w, s, t),
           NEW c \in Seq(CommandSpace), NEW p \in Packets, Fresh(k, c, p), k[p].class = "reliable"
    PROVE  Waits(k, w \o c, s, t)
<1>1. Len(c) = FragmentsOf(k, p)
  BY DEF Fresh
<1>2. \A i \in 1 .. Len(c) : c[i].pkt = p /\ c[i].frag = i - 1 /\ c[i].attempted = FALSE
  BY DEF Fresh
<1> QED BY <1>1, <1>2, WaitsJoin

\* What enet_peer_send queues is fresh, and counts once for each fragment.
LEMMA CommandsForPacket ==
    ASSUME Typed, NEW q \in Peers, NEW p \in Packets, p \in DOMAIN kind,
           NEW c, c = CommandsFor(q, p)
    PROVE  /\ c \in Seq(CommandSpace) /\ Fresh(kind, c, p)
           /\ Fragments(p) \in Nat \ {0}
           /\ Last(c).number \in [rel: Nat, unrel: Nat]
           /\ \A r : Holding(r, c) = IF r = p THEN Fragments(p) ELSE 0
<1> DEFINE m == Fragments(p)
<1>1. m \in Nat \ {0} /\ m <= FragmentCount /\ m = FragmentsOf(kind, p)
  BY PacketsAssumption DEF Fragments, FragmentsOf
<1>2. kind[p] \in KindSpace
  <2>1. kind \in Seq(KindSpace)
    BY PacketsAssumption DEF Typed
  <2> QED BY <2>1
<1>3. numbers[q].rel \in Nat /\ numbers[q].unrel \in Nat
  BY DEF Typed
<1> DEFINE number(i) ==
            CASE kind[p].class = "reliable"    -> [rel |-> numbers[q].rel + i, unrel |-> 0]
              [] kind[p].class = "unreliable"  -> [rel |-> numbers[q].rel, unrel |-> numbers[q].unrel + 1]
              [] kind[p].class = "unsequenced" -> [rel |-> 0, unrel |-> 0]
<1>4. c = [i \in 1 .. m |-> [pkt |-> p, frag |-> i - 1, number |-> number(i), attempted |-> FALSE]]
  BY DEF CommandsFor
<1>5. kind[p].class \in {"reliable", "unreliable", "unsequenced"}
  BY <1>2 DEF KindSpace
<1>6. \A i \in 1 .. m : number(i) \in [rel: Nat, unrel: Nat]
  BY <1>1, <1>3, <1>5
<1>7. kind[p].class # "reliable" => \A i \in 1 .. m : number(i) = number(1)
  BY <1>5
<1> HIDE DEF number, m
<1>8. ASSUME NEW i \in 1 .. m
      PROVE  [pkt |-> p, frag |-> i - 1, number |-> number(i), attempted |-> FALSE] \in CommandSpace
  <2>1. i - 1 \in 0 .. FragmentCount - 1
    BY <1>1, PacketsAssumption
  <2> QED BY <2>1, <1>6 DEF CommandSpace
<1>9. c \in [1 .. m -> CommandSpace]
  BY <1>4, <1>8
<1>10. c \in Seq(CommandSpace) /\ Len(c) = m /\ DOMAIN c = 1 .. m
  BY <1>1, <1>9
<1>11. \A i \in 1 .. m : c[i].pkt = p /\ c[i].frag = i - 1 /\ c[i].attempted = FALSE /\ c[i].number = number(i)
  BY <1>4
<1>12. Last(c).number \in [rel: Nat, unrel: Nat]
  <2>1. m \in 1 .. m /\ Last(c) = c[m]
    BY <1>1, <1>10 DEF Last
  <2> QED BY <2>1, <1>6, <1>11
<1>13. ASSUME NEW r PROVE Holding(r, c) = IF r = p THEN m ELSE 0
  <2>1. CASE r = p
    <3>1. {i \in DOMAIN c : c[i].pkt = r} = 1 .. m
      BY <2>1, <1>10, <1>11
    <3>2. Cardinality(1 .. m) = m
      <4>1. 1 \in Int /\ m \in Int /\ 1 <= m
        BY <1>1
      <4>2. Cardinality(1 .. m) = IF 1 > m THEN 0 ELSE m - 1 + 1
        BY <4>1, FS_Interval
      <4> QED BY <4>1, <4>2
    <3> QED BY <2>1, <3>1, <3>2 DEF Holding
  <2>2. CASE r # p
    <3>1. \A i \in 1 .. Len(c) : c[i].pkt # r
      BY <2>2, <1>10, <1>11
    <3>2. Holding(r, c) = 0
      BY <3>1, <1>10, HoldingType
    <3> QED BY <2>2, <3>2
  <2> QED BY <2>1, <2>2
<1>14. kind[p].class # "reliable" => \E x : \A i \in 1 .. m : c[i].number = x
  BY <1>7, <1>11
<1>15. Fresh(kind, c, p)
  BY <1>1, <1>10, <1>11, <1>14 DEF Fresh
<1> QED BY <1>1, <1>10, <1>12, <1>13, <1>15 DEF m

\* A packet that is queued for a peer keeps what the invariant says of lists and
\* counts.
LEMMA EnqueueKeeps ==
    ASSUME IInv, NEW q \in Peers, NEW p \in Packets, p \in DOMAIN kind, Enqueue(q, p),
           destroyed[p] = 0, owner'[p] = "ENet",
           owner' \in [Packets -> {"nobody", "application", "ENet"}],
           \A r \in Packets : r # p => owner'[r] = owner[r],
           UNCHANGED <<kind, destroyed, flaggedSent, state, packetThrottleCounter,
                       sentReliableCommands, transmitted>>,
           broadcasting' \in [pkt: {0} \cup Packets, todo: Seq(Peers)],
           broadcasting'.pkt = broadcasting.pkt, Guarded'
    PROVE  IInv'
<1> DEFINE c == CommandsFor(q, p)
           O == outgoingCommands[q]
           W == outgoingSendReliableCommands[q]
           S == sentReliableCommands[q]
           o == IF kind[p].class = "reliable" THEN O ELSE O \o c
           w == IF kind[p].class = "reliable" THEN W \o c ELSE W
<1>0. c = CommandsFor(q, p)
  OBVIOUS
<1>1. /\ Typed /\ (\A r \in Peers : InOrder(r)) /\ ReferencesExact
      /\ \A r \in Packets : Lives(r) /\ SentReachedAPeer(r)
  BY DEF IInv
<1>2. /\ referenceCount' = [referenceCount EXCEPT ![p] = @ + Fragments(p)]
      /\ numbers' = IF kind[p].class = "unsequenced" THEN numbers
                    ELSE [numbers EXCEPT ![q] = Last(c).number]
      /\ visiting' = IF kind[p].instant /\ ~kind[p].large THEN Flush ELSE Nowhere
  BY DEF Enqueue
<1>3. /\ outgoingCommands \in [Peers -> Seq(CommandSpace)]
      /\ outgoingSendReliableCommands \in [Peers -> Seq(CommandSpace)]
      /\ sentReliableCommands \in [Peers -> Seq(CommandSpace)]
      /\ O \in Seq(CommandSpace) /\ W \in Seq(CommandSpace) /\ S \in Seq(CommandSpace)
      /\ InRuns(kind, O, transmitted[q]) /\ Waits(kind, W, S, transmitted[q])
      /\ Whole(transmitted[q])
  BY <1>1 DEF Typed, InOrder
<1>4. /\ outgoingCommands' = [outgoingCommands EXCEPT ![q] = o]
      /\ outgoingSendReliableCommands' = [outgoingSendReliableCommands EXCEPT ![q] = w]
      /\ sentReliableCommands' = [sentReliableCommands EXCEPT ![q] = S]
  <2>1. CASE kind[p].class = "reliable"
    BY <2>1, <1>3 DEF Enqueue
  <2>2. CASE kind[p].class # "reliable"
    BY <2>2, <1>3 DEF Enqueue
  <2> QED BY <2>1, <2>2
<1> HIDE DEF c
<1>5. /\ c \in Seq(CommandSpace) /\ Fresh(kind, c, p)
      /\ Fragments(p) \in Nat \ {0}
      /\ Last(c).number \in [rel: Nat, unrel: Nat]
      /\ \A r : Holding(r, c) = IF r = p THEN Fragments(p) ELSE 0
  BY <1>0, <1>1, CommandsForPacket
<1> HIDE DEF O, W, S
<1>6. /\ o \in Seq(CommandSpace) /\ w \in Seq(CommandSpace)
      /\ \A r : Holding(r, o) + Holding(r, w) = Holding(r, O) + Holding(r, W) + Holding(r, c)
      /\ InRuns(kind, o, transmitted[q]) /\ Waits(kind, w, S, transmitted[q])
  <2>0. \A r : Holding(r, O) \in Nat /\ Holding(r, W) \in Nat /\ Holding(r, c) \in Nat
    BY <1>5, <1>3, HoldingType
  <2>1. CASE kind[p].class = "reliable"
    <3>2. W \o c \in Seq(CommandSpace) /\ \A r : Holding(r, W \o c) = Holding(r, W) + Holding(r, c)
      BY <1>5, <1>3, HoldingConcat
    <3>3. Waits(kind, W \o c, S, transmitted[q])
      BY <1>5, <1>3, <2>1, WaitsFresh
    <3> QED BY <1>3, <2>0, <2>1, <3>2, <3>3
  <2>2. CASE kind[p].class # "reliable"
    <3>2. O \o c \in Seq(CommandSpace) /\ \A r : Holding(r, O \o c) = Holding(r, O) + Holding(r, c)
      BY <1>5, <1>3, HoldingConcat
    <3>3. InRuns(kind, O \o c, transmitted[q])
      BY <1>5, <1>3, <2>2, RunsFresh
    <3> QED BY <1>3, <2>0, <2>2, <3>2, <3>3
  <2> QED BY <2>1, <2>2
<1> HIDE DEF o, w
<1>7. /\ outgoingCommands' \in [Peers -> Seq(CommandSpace)]
      /\ outgoingSendReliableCommands' \in [Peers -> Seq(CommandSpace)]
      /\ sentReliableCommands' \in [Peers -> Seq(CommandSpace)]
      /\ \A r \in Peers : r # q =>
            UNCHANGED <<outgoingCommands[r], outgoingSendReliableCommands[r],
                        sentReliableCommands[r]>>
      /\ outgoingCommands'[q] = o /\ outgoingSendReliableCommands'[q] = w
      /\ sentReliableCommands'[q] = S
      /\ Lists' \in [Peers -> Seq(CommandSpace)]
      /\ \A r \in Peers : r # q => Lists'[r] = Lists[r]
      /\ \A r : /\ Holding(r, Lists'[q]) = Holding(r, o) + Holding(r, w) + Holding(r, S)
                /\ Holding(r, Lists[q]) =
                      Holding(r, outgoingCommands[q]) + Holding(r, outgoingSendReliableCommands[q])
                          + Holding(r, sentReliableCommands[q])
                /\ Holding(r, o) \in Nat /\ Holding(r, w) \in Nat /\ Holding(r, S) \in Nat
  <2>1. Typed /\ S \in Seq(CommandSpace) /\ o \in Seq(CommandSpace) /\ w \in Seq(CommandSpace)
    BY <1>1, <1>3, <1>6
  <2> QED BY <1>4, <2>1, ListsChange
<1>8. \A r : /\ Holding(r, Lists'[q]) = Holding(r, Lists[q]) + Holding(r, c)
             /\ Holding(r, Lists[q]) \in Nat
  <2> TAKE r
  <2>1. /\ Holding(r, Lists'[q]) = Holding(r, o) + Holding(r, w) + Holding(r, S)
        /\ Holding(r, Lists[q]) = Holding(r, O) + Holding(r, W) + Holding(r, S)
        /\ Holding(r, o) + Holding(r, w) = Holding(r, O) + Holding(r, W) + Holding(r, c)
    <3>1. Holding(r, o) + Holding(r, w) = Holding(r, O) + Holding(r, W) + Holding(r, c)
      BY <1>6
    <3>2. /\ Holding(r, Lists'[q]) = Holding(r, o) + Holding(r, w) + Holding(r, S)
          /\ Holding(r, Lists[q]) = Holding(r, O) + Holding(r, W) + Holding(r, S)
      BY <1>7 DEF O, W, S
    <3> QED BY <3>1, <3>2
  <2>2. /\ Holding(r, O) \in Nat /\ Holding(r, W) \in Nat /\ Holding(r, S) \in Nat
        /\ Holding(r, c) \in Nat /\ Holding(r, o) \in Nat /\ Holding(r, w) \in Nat
    BY <1>5, <1>3, <1>6, HoldingType
  <2> QED BY <2>1, <2>2
<1>9. ASSUME NEW r \in Packets
      PROVE  /\ referenceCount'[r] = referenceCount[r] + Holding(r, c)
             /\ referenceCount'[r] = Uses(r)' /\ referenceCount'[r] \in Nat
  <2>1. Holding(r, c) = IF r = p THEN Fragments(p) ELSE 0
    BY <1>5
  <2>2. referenceCount[r] \in Nat /\ referenceCount'[r] = referenceCount[r] + Holding(r, c)
    <3>1. referenceCount \in [Packets -> Nat]
      BY <1>1 DEF Typed
    <3> QED BY <2>1, <3>1, <1>5, <1>2
  <2>3. Holding(r, c) \in Nat
    BY <2>1, <1>5
  <2>4. referenceCount'[r] = referenceCount[r] + Holding(r, Lists'[q]) - Holding(r, Lists[q])
    BY <1>8, <2>2, <2>3
  <2>5. ReferencesExact /\ Lists' \in [Peers -> Seq(CommandSpace)]
        /\ \A k \in Peers : k # q => Lists'[k] = Lists[k]
    BY <1>1, <1>7
  <2> QED BY <1>1, <2>2, <2>4, <2>5, ReferencesFollow
<1>10. ReferencesExact'
  BY <1>9 DEF ReferencesExact
<1>11. ASSUME NEW r \in Packets PROVE Lives(r)'
  <2>1. Lives(r) /\ referenceCount[r] \in Nat
    BY <1>1 DEF Typed
  <2>2. CASE r = p
    <3>1. referenceCount'[r] # 0
      BY <1>5, <1>9, <2>1, <2>2
    <3> QED BY <3>1, <2>2 DEF Lives
  <2>3. CASE r # p
    <3>1. referenceCount'[r] = referenceCount[r] /\ owner'[r] = owner[r]
      BY <1>5, <1>9, <2>1, <2>3
    <3> QED BY <3>1, <2>1 DEF Lives
  <2> QED BY <2>2, <2>3
<1>12. \A r \in Packets : SentReachedAPeer(r)'
  BY <1>1 DEF SentReachedAPeer, Fragments
<1>13. ASSUME NEW r \in Peers PROVE InOrder(r)'
  <2>1. CASE r = q
    <3>1. /\ outgoingCommands'[q] = o /\ outgoingSendReliableCommands'[q] = w
          /\ sentReliableCommands'[q] = S /\ kind' = kind /\ transmitted' = transmitted
      BY <1>7
    <3>2. /\ InRuns(kind, o, transmitted[q]) /\ Waits(kind, w, S, transmitted[q])
          /\ Whole(transmitted[q])
      BY <1>3, <1>6
    <3> QED BY <2>1, <3>1, <3>2 DEF InOrder
  <2>2. CASE r # q
    BY <2>2, <1>1, <1>7, OrderStays
  <2> QED BY <2>1, <2>2
<1>14. Typed'
  <2>1. /\ visiting' \in [todo: Seq(Peers), timeouts: BOOLEAN]
        /\ numbers' \in [Peers -> [rel: Nat, unrel: Nat]]
    BY <1>5, <1>1, <1>2, LoopTypes DEF Typed
  <2>2. referenceCount' \in [Packets -> Nat]
    BY <1>1, <1>2, <1>9 DEF Typed
  <2>3. \A r \in Packets : owner'[r] # "nobody" => r \in DOMAIN kind'
    BY <1>1 DEF Typed
  <2> QED BY <1>1, <1>7, <2>1, <2>2, <2>3 DEF Typed
<1> QED BY <1>10, <1>11, <1>12, <1>13, <1>14 DEF IInv

\* The application sends a packet to one peer.
LEMMA SendKeeps ==
    ASSUME IInv, NEW p \in Packets, NEW q \in Peers, Send(q, p)
    PROVE  IInv'
<1>1. /\ Typed /\ Lives(p) /\ broadcasting = Nobody /\ owner[p] = "application"
      /\ owner' = [owner EXCEPT ![p] = "ENet"]
  BY DEF IInv, Send, Idle
<1>2. destroyed[p] = 0 /\ p \in DOMAIN kind
  BY <1>1 DEF Lives, Typed
<1>3. /\ owner'[p] = "ENet" /\ owner' \in [Packets -> {"nobody", "application", "ENet"}]
      /\ \A r \in Packets : r # p => owner'[r] = owner[r]
  BY <1>1 DEF Typed
<1>4. broadcasting' = broadcasting /\ Guarded'
  BY <1>1 DEF Send, Guarded, Nobody
<1>5. broadcasting' \in [pkt: {0} \cup Packets, todo: Seq(Peers)]
  BY <1>1, <1>4 DEF Typed
<1> QED BY <1>2, <1>3, <1>4, <1>5, EnqueueKeeps DEF Send

\* The broadcast visits its next peer, which takes the packet or refuses it.
LEMMA BroadcastNextKeeps == ASSUME IInv, BroadcastNext PROVE IInv'
<1> DEFINE q == Head(broadcasting.todo)
           p == broadcasting.pkt
<1>1. /\ Typed /\ Guarded /\ (\A r \in Packets : Lives(r))
      /\ visiting.todo = <<>> /\ broadcasting.todo # <<>>
      /\ broadcasting' = [broadcasting EXCEPT !.todo = Tail(@)]
  BY DEF IInv, BroadcastNext
<1>2. /\ broadcasting' \in [pkt: {0} \cup Packets, todo: Seq(Peers)]
      /\ broadcasting'.pkt = p /\ q \in Peers
  <2>1. broadcasting \in [pkt: {0} \cup Packets, todo: Seq(Peers)]
    BY <1>1 DEF Typed
  <2>2. broadcasting.todo \in Seq(Peers)
    BY <2>1
  <2> DEFINE t == Tail(broadcasting.todo)
  <2>3. t \in Seq(Peers) /\ q \in Peers
    BY <2>2, <1>1
  <2>4. broadcasting' = [broadcasting EXCEPT !.todo = t]
    BY <1>1
  <2> HIDE DEF t, q
  <2> QED BY <2>1, <2>3, <2>4
<1>3. p \in Packets /\ p # 0
  <2>1. p # 0
    BY <1>1 DEF Guarded, Nobody
  <2> QED BY <2>1, <1>1 DEF Typed
<1>4. owner[p] = "ENet" /\ destroyed[p] = 0 /\ p \in DOMAIN kind
  BY <1>1, <1>3 DEF Lives, Typed
<1>5. CASE state[q] = "CONNECTED" /\ Enqueue(q, p)
  <2>1. Guarded'
    <3>1. visiting' = IF kind[p].instant /\ ~kind[p].large THEN Flush ELSE Nowhere
      BY <1>5 DEF Enqueue
    <3>2. ~kind[p].instant => visiting'.todo = <<>>
      BY <3>1 DEF Nowhere
    <3>3. kind' = kind
      BY DEF BroadcastNext, packetVars
    <3> QED BY <1>2, <1>3, <3>2, <3>3 DEF Guarded
  <2>2. /\ UNCHANGED <<kind, destroyed, flaggedSent, state, packetThrottleCounter,
                       sentReliableCommands, transmitted>>
        /\ owner' = owner
    BY DEF BroadcastNext, packetVars
  <2>3. owner' \in [Packets -> {"nobody", "application", "ENet"}]
    BY <1>1, <2>2 DEF Typed
  <2> QED BY <1>2, <1>3, <1>4, <1>5, <2>1, <2>2, <2>3, EnqueueKeeps
<1>6. CASE Refuse
  <2>1. UNCHANGED <<kind, owner, lifeVars, peerVars, listVars, transmitted, visiting>>
    BY <1>6 DEF BroadcastNext, Refuse, packetVars, lifeVars, peerVars, listVars
  <2>2. Guarded'
    BY <1>1, <1>2, <1>3, <2>1 DEF Guarded
  <2>3. Typed'
    BY <1>1, <1>2, <2>1 DEF Typed, lifeVars, peerVars, listVars
  <2> QED BY <1>2, <2>1, <2>2, <2>3, QuietKeeps
<1> QED BY <1>5, <1>6 DEF BroadcastNext

\* The broadcast ends.
LEMMA BroadcastDoneKeeps == ASSUME IInv, BroadcastDone PROVE IInv'
<1> DEFINE p == broadcasting.pkt
<1>1. /\ Typed /\ ReferencesExact /\ (\A q \in Packets : Lives(q) /\ SentReachedAPeer(q))
      /\ visiting.todo = <<>> /\ p # 0
      /\ referenceCount' = [referenceCount EXCEPT ![p] = IF kind[p].instant THEN @ - 1 ELSE @]
      /\ destroyed' = [destroyed EXCEPT ![p] = IF referenceCount'[p] = 0 THEN @ + 1 ELSE @]
      /\ broadcasting' = Nobody
      /\ UNCHANGED <<kind, owner, flaggedSent, peerVars, listVars, visiting, transmitted>>
  BY DEF IInv, BroadcastDone, DestroyUnreferenced, packetVars
<1>2. p \in Packets
  BY <1>1 DEF Typed
<1>3. owner[p] = "ENet" /\ destroyed[p] = 0 /\ referenceCount[p] \in Nat
  BY <1>1, <1>2 DEF Lives, Typed
<1>4. ASSUME NEW q \in Packets
      PROVE  /\ referenceCount'[q] = Uses(q)' /\ referenceCount'[q] \in Nat
             /\ q # p => referenceCount'[q] = referenceCount[q]
  <2> DEFINE a == Cardinality(PlacesOf(q, Peers))
             g == IF q = p /\ kind[q].instant THEN 1 ELSE 0
  <2>1. PlacesOf(q, Peers)' = PlacesOf(q, Peers)
    BY <1>1 DEF PlacesOf, Commands, listVars
  <2>2. a \in Nat
    <3>1. Lists \in [Peers -> Seq(CommandSpace)] /\ IsFiniteSet(Peers)
      BY <1>1, ListsTyped, PlacesOfLists
    <3>2. PICK r \in Peers : TRUE
      BY PacketsAssumption DEF Peers
    <3>3. Cardinality(PlacesIn(Lists, Peers, q)) \in Nat
      BY <3>1, <3>2, PlacesSplit
    <3> QED BY <3>3, PlacesOfLists
  <2>3. referenceCount[q] = a + g
    BY <1>1 DEF ReferencesExact, Uses
  <2>4. Uses(q)' = a
    <3>1. Uses(q)' = a + (IF 0 = q /\ kind[q].instant THEN 1 ELSE 0)
      BY <2>1, <1>1 DEF Uses, Nobody
    <3>2. q # 0
      BY DEF Packets
    <3> HIDE DEF a
    <3> QED BY <2>2, <3>1, <3>2
  <2>5. CASE q = p
    <3>1. referenceCount'[q] = IF kind[p].instant THEN referenceCount[q] - 1 ELSE referenceCount[q]
      BY <1>1, <1>2, <2>5 DEF Typed
    <3> HIDE DEF a
    <3> QED BY <2>2, <2>3, <2>4, <2>5, <3>1
  <2>6. CASE q # p
    <3>1. referenceCount'[q] = referenceCount[q]
      BY <1>1, <2>6 DEF Typed
    <3> HIDE DEF a
    <3> QED BY <2>2, <2>3, <2>4, <2>6, <3>1
  <2> QED BY <2>5, <2>6
<1>5. ReferencesExact'
  BY <1>4 DEF ReferencesExact
<1>6. /\ destroyed'[p] = IF referenceCount'[p] = 0 THEN 1 ELSE 0
      /\ \A q \in Packets : q # p => destroyed'[q] = destroyed[q]
      /\ destroyed' \in [Packets -> Nat]
  BY <1>1, <1>2, <1>3 DEF Typed
<1>7. ASSUME NEW q \in Packets PROVE Lives(q)'
  <2>0. q # 0 /\ broadcasting'.pkt = 0
    BY <1>1 DEF Packets, Nobody
  <2>1. CASE q = p
    BY <2>0, <2>1, <1>1, <1>3, <1>6 DEF Lives
  <2>2. CASE q # p
    <3>1. referenceCount'[q] = referenceCount[q] /\ destroyed'[q] = destroyed[q] /\ owner'[q] = owner[q]
      BY <2>2, <1>1, <1>4, <1>6
    <3> QED BY <2>0, <2>2, <3>1, <1>1 DEF Lives
  <2> QED BY <2>1, <2>2
<1>8. ASSUME NEW q \in Packets PROVE SentReachedAPeer(q)'
  <2>1. destroyed[q] = 1 => destroyed'[q] = 1
    BY <1>3, <1>6
  <2> QED BY <2>1, <1>1 DEF SentReachedAPeer, Fragments
<1>9. \A q \in Peers : InOrder(q)'
  BY <1>1, OrderStays DEF IInv, listVars
<1>10. Typed'
  <2>1. referenceCount' \in [Packets -> Nat]
    BY <1>1, <1>4 DEF Typed
  <2> QED BY <1>1, <1>6, <2>1, LoopTypes DEF Typed, peerVars, listVars
<1>11. Guarded'
  BY <1>1 DEF Guarded, Nobody
<1> QED BY <1>5, <1>7, <1>8, <1>9, <1>10, <1>11 DEF IInv

-----------------------------------------------------------------------------
(* Steps that take commands out of the lists *)

\* The lists of peer q become o, w and s, and t what it was sent.
NewLists(q, o, w, s, t) ==
    /\ outgoingCommands' = [outgoingCommands EXCEPT ![q] = o]
    /\ outgoingSendReliableCommands' = [outgoingSendReliableCommands EXCEPT ![q] = w]
    /\ sentReliableCommands' = [sentReliableCommands EXCEPT ![q] = s]
    /\ transmitted' = [transmitted EXCEPT ![q] = t]

\* The commands of q that are not in its new lists were dropped or sent.
Accounted(q, o, w, s, dropped, sent) ==
    \A p \in Packets :
        Holding(p, outgoingCommands[q]) + Holding(p, outgoingSendReliableCommands[q])
            + Holding(p, sentReliableCommands[q])
        = Holding(p, o) + Holding(p, w) + Holding(p, s) + Holding(p, dropped) + Holding(p, sent)

\* A packet of which the last command went out was sent from first to last.
Complete(k, o, w, s, sent, t) ==
    \A p \in Packets :
        Holding(p, sent) > 0 /\ Holding(p, o) = 0 /\ Holding(p, w) = 0 /\ Holding(p, s) = 0 =>
            \A f \in 0 .. FragmentsOf(k, p) - 1 : <<p, f>> \in t

\* The new lists are in order.
InNewOrder(k, o, w, s, t) ==
    /\ InRuns(k, o, t)
    /\ Waits(k, w, s, t)
    /\ Whole(t)

\* The types of what else may change.
OthersTyped ==
    /\ state \in [Peers -> {"CONNECTED", "DISCONNECT_LATER", "ZOMBIE", "ENDED"}]
    /\ numbers \in [Peers -> [rel: Nat, unrel: Nat]]
    /\ packetThrottleCounter \in [Peers -> 0 .. ThrottleScale - 1]
    /\ visiting \in [todo: Seq(Peers), timeouts: BOOLEAN]

\* A step that takes commands out of the lists of one peer.
LEMMA TakenKeeps ==
    ASSUME IInv, NEW q \in Peers,
           NEW o \in Seq(CommandSpace), NEW w \in Seq(CommandSpace), NEW s \in Seq(CommandSpace),
           NEW t \in SUBSET (Packets \X (0 .. FragmentCount - 1)), transmitted[q] \subseteq t,
           NEW dropped \in Seq(CommandSpace), NEW sent \in Seq(CommandSpace),
           NewLists(q, o, w, s, t), Release(dropped, sent), Accounted(q, o, w, s, dropped, sent),
           Complete(kind, o, w, s, sent, t), InNewOrder(kind, o, w, s, t),
           UNCHANGED <<kind, owner, broadcasting>>,
           broadcasting.pkt # 0 => kind[broadcasting.pkt].instant,
           OthersTyped', Guarded'
    PROVE  IInv'
<1>1. Typed /\ \A r \in Peers : InOrder(r)
  BY DEF IInv
<1>2. /\ outgoingCommands' = [outgoingCommands EXCEPT ![q] = o]
      /\ outgoingSendReliableCommands' = [outgoingSendReliableCommands EXCEPT ![q] = w]
      /\ sentReliableCommands' = [sentReliableCommands EXCEPT ![q] = s]
      /\ transmitted' = [transmitted EXCEPT ![q] = t]
  BY DEF NewLists
<1>3. /\ outgoingCommands' \in [Peers -> Seq(CommandSpace)]
      /\ outgoingSendReliableCommands' \in [Peers -> Seq(CommandSpace)]
      /\ sentReliableCommands' \in [Peers -> Seq(CommandSpace)]
      /\ \A r \in Peers : r # q =>
            UNCHANGED <<outgoingCommands[r], outgoingSendReliableCommands[r],
                        sentReliableCommands[r]>>
      /\ outgoingCommands'[q] = o /\ outgoingSendReliableCommands'[q] = w
      /\ sentReliableCommands'[q] = s
      /\ Lists' \in [Peers -> Seq(CommandSpace)]
      /\ \A r \in Peers : r # q => Lists'[r] = Lists[r]
      /\ \A p : /\ Holding(p, Lists'[q]) = Holding(p, o) + Holding(p, w) + Holding(p, s)
                /\ Holding(p, Lists[q]) =
                      Holding(p, outgoingCommands[q]) + Holding(p, outgoingSendReliableCommands[q])
                          + Holding(p, sentReliableCommands[q])
                /\ Holding(p, o) \in Nat /\ Holding(p, w) \in Nat /\ Holding(p, s) \in Nat
  BY <1>1, <1>2, ListsChange
<1>4. /\ transmitted' \in [Peers -> SUBSET (Packets \X (0 .. FragmentCount - 1))]
      /\ transmitted'[q] = t
      /\ \A r \in Peers : r # q => transmitted'[r] = transmitted[r]
      /\ \A r \in Peers : transmitted[r] \subseteq transmitted'[r]
  <2>1. transmitted \in [Peers -> SUBSET (Packets \X (0 .. FragmentCount - 1))]
    BY <1>1 DEF Typed
  <2> QED BY <2>1, <1>2
<1>5. Released(q, dropped, sent)
  <2>1. ASSUME NEW p \in Packets
        PROVE  Holding(p, Lists[q]) = Holding(p, Lists'[q]) + Holding(p, dropped) + Holding(p, sent)
    BY <1>3 DEF Accounted
  <2> QED BY <2>1, <1>3 DEF Released
<1>6. Reached(q, sent)
  <2>1. ASSUME NEW p \in Packets, Holding(p, sent) > 0, Holding(p, Lists'[q]) = 0
        PROVE  \A f \in 0 .. FragmentsOf(kind, p) - 1 : <<p, f>> \in transmitted'[q]
    <3>1. Holding(p, o) = 0 /\ Holding(p, w) = 0 /\ Holding(p, s) = 0
      <4>1. /\ Holding(p, o) + Holding(p, w) + Holding(p, s) = 0
            /\ Holding(p, o) \in Nat /\ Holding(p, w) \in Nat /\ Holding(p, s) \in Nat
        BY <1>3, <2>1
      <4> QED BY <4>1
    <3> QED BY <3>1, <2>1, <1>4 DEF Complete
  <2> QED BY <2>1, <1>4 DEF Reached
<1>7. /\ ReferencesExact'
      /\ \A p \in Packets : Lives(p)' /\ SentReachedAPeer(p)'
      /\ referenceCount' \in [Packets -> Nat] /\ destroyed' \in [Packets -> Nat]
      /\ flaggedSent' \subseteq Packets
  BY <1>5, <1>6, ReleaseKeeps
<1>8. ASSUME NEW r \in Peers PROVE InOrder(r)'
  <2>1. CASE r = q
    <3>1. InRuns(kind, o, t) /\ Waits(kind, w, s, t) /\ Whole(t)
      BY DEF InNewOrder
    <3> QED BY <3>1, <2>1, <1>3, <1>4 DEF InOrder
  <2>2. CASE r # q
    BY <2>2, <1>1, <1>3, <1>4, OrderStays
  <2> QED BY <2>1, <2>2
<1>9. Typed'
  BY <1>1, <1>3, <1>4, <1>7 DEF Typed, OthersTyped
<1> QED BY <1>7, <1>8, <1>9 DEF IInv

\* Nothing is in an empty list, and an empty list is in order.
LEMMA EmptyLists ==
    /\ <<>> \in Seq(CommandSpace)
    /\ \A p : Holding(p, <<>>) = 0
    /\ \A k, t : InRuns(k, <<>>, t) /\ Waits(k, <<>>, <<>>, t)
<1>1. <<>> \in Seq(CommandSpace) /\ Len(<<>>) = 0
  OBVIOUS
<1>2. \A p : Holding(p, <<>>) = 0
  BY HoldingOne
<1>3. ASSUME NEW k, NEW t PROVE InRuns(k, <<>>, t)
  BY <1>1 DEF InRuns
<1>4. ASSUME NEW k, NEW t PROVE Waits(k, <<>>, <<>>, t)
  <2>1. \A p : ~Has(<<>>, p)
    BY <1>1 DEF Has
  <2> QED BY <1>1, <2>1 DEF Waits
<1> QED BY <1>1, <1>2, <1>3, <1>4

\* The queues of a peer are reset.
LEMMA ResetKeeps ==
    ASSUME IInv, NEW q \in Peers, ResetQueues(q),
           UNCHANGED <<kind, owner, broadcasting, transmitted>>,
           broadcasting.pkt # 0 => kind[broadcasting.pkt].instant,
           OthersTyped', Guarded'
    PROVE  IInv'
<1> DEFINE t == transmitted[q]
           c == Commands(q)
<1>1. Typed /\ InOrder(q)
  BY DEF IInv
<1>2. /\ t \in SUBSET (Packets \X (0 .. FragmentCount - 1))
      /\ transmitted' = [transmitted EXCEPT ![q] = t]
  BY <1>1 DEF Typed
<1>3. /\ outgoingCommands[q] \in Seq(CommandSpace)
      /\ outgoingSendReliableCommands[q] \in Seq(CommandSpace)
      /\ sentReliableCommands[q] \in Seq(CommandSpace)
  BY <1>1 DEF Typed
<1>4. c \in Seq(CommandSpace)
  BY <1>3, HoldingThree DEF Commands
<1>5. NewLists(q, <<>>, <<>>, <<>>, t) /\ Release(c, <<>>)
  BY <1>2 DEF NewLists, ResetQueues
<1>6. Accounted(q, <<>>, <<>>, <<>>, c, <<>>)
  <2>1. ASSUME NEW p \in Packets
        PROVE  /\ Holding(p, c) = Holding(p, outgoingCommands[q]) + Holding(p, outgoingSendReliableCommands[q])
                                     + Holding(p, sentReliableCommands[q])
               /\ Holding(p, c) \in Nat
    <3>1. Holding(p, c) = Holding(p, outgoingCommands[q]) + Holding(p, outgoingSendReliableCommands[q])
                             + Holding(p, sentReliableCommands[q])
      BY <1>1, ListsTyped
    <3>2. Holding(p, c) \in Nat
      <4> HIDE DEF c
      <4> QED BY <1>4, HoldingType
    <3> QED BY <3>1, <3>2
  <2> HIDE DEF c
  <2> QED BY <2>1, EmptyLists DEF Accounted
<1>7. Complete(kind, <<>>, <<>>, <<>>, <<>>, t)
  BY EmptyLists DEF Complete
<1>8. InNewOrder(kind, <<>>, <<>>, <<>>, t)
  BY <1>1, EmptyLists DEF InNewOrder, InOrder
<1>9. <<>> \in Seq(CommandSpace) /\ t \subseteq t
  BY EmptyLists
<1> HIDE DEF c
<1>10. transmitted[q] \subseteq t
  OBVIOUS
<1> HIDE DEF t
<1> QED BY <1>2, <1>4, <1>5, <1>6, <1>7, <1>8, <1>9, <1>10, TakenKeeps

\* A peer that is visited has waited too long for an acknowledgement.
LEMMA VisitTimeoutKeeps == ASSUME IInv, VisitTimeout PROVE IInv'
<1> DEFINE q == Head(visiting.todo)
<1>1. Typed /\ Guarded /\ visiting.todo # <<>>
  BY DEF IInv, VisitTimeout
<1>2. visiting \in [todo: Seq(Peers), timeouts: BOOLEAN] /\ visiting.todo \in Seq(Peers)
  <2>1. visiting \in [todo: Seq(Peers), timeouts: BOOLEAN]
    BY <1>1 DEF Typed
  <2> QED BY <2>1
<1>3. q \in Peers /\ Tail(visiting.todo) \in Seq(Peers)
  BY <1>1, <1>2
<1>4. /\ broadcasting.pkt # 0 => kind[broadcasting.pkt].instant
      /\ UNCHANGED <<kind, owner, numbers, packetThrottleCounter, broadcasting, transmitted>>
  BY <1>1 DEF Guarded, VisitTimeout, packetVars
<1> HIDE DEF q
<1>5. CASE ResetQueues(q) /\ state' = [state EXCEPT ![q] = "ENDED"] /\ visiting' = Nowhere
  <2>1. OthersTyped'
    BY <1>1, <1>4, <1>5, LoopTypes DEF Typed, OthersTyped
  <2>2. Guarded'
    BY <1>1, <1>4, <1>5 DEF Guarded, Nowhere
  <2> QED BY <1>3, <1>4, <1>5, <2>1, <2>2, ResetKeeps
<1>6. CASE /\ state' = [state EXCEPT ![q] = "ZOMBIE"]
           /\ visiting' = [visiting EXCEPT !.todo = Tail(@)]
           /\ UNCHANGED <<lifeVars, listVars>>
  <2> DEFINE rest == Tail(visiting.todo)
  <2>1. visiting' = [visiting EXCEPT !.todo = rest] /\ rest \in Seq(Peers)
    BY <1>3, <1>6
  <2>2. visiting' \in [todo: Seq(Peers), timeouts: BOOLEAN]
    <3> HIDE DEF rest
    <3> QED BY <2>1, <1>2
  <2> HIDE DEF rest
  <2>3. Typed'
    BY <1>1, <1>4, <1>6, <2>2 DEF Typed, lifeVars, listVars
  <2>4. Guarded'
    BY <1>1, <1>4 DEF Guarded
  <2> QED BY <1>4, <1>6, <2>3, <2>4, QuietKeeps
<1> QED BY <1>5, <1>6 DEF VisitTimeout, q

\* A peer ends.
LEMMA EndKeeps == ASSUME IInv, NEW q \in Peers, End(q) PROVE IInv'
<1>1. Typed /\ Guarded /\ broadcasting = Nobody
  BY DEF IInv, End, Idle
<1>2. /\ UNCHANGED <<kind, owner, numbers, packetThrottleCounter, broadcasting, transmitted>>
      /\ ResetQueues(q) /\ state' = [state EXCEPT ![q] = "ENDED"]
      /\ visiting' = visiting \/ visiting' = Flush
  BY DEF End, packetVars
<1>3. OthersTyped'
  BY <1>1, <1>2, LoopTypes DEF Typed, OthersTyped
<1>4. Guarded'
  BY <1>1, <1>2 DEF Guarded, Nobody
<1>5. broadcasting.pkt # 0 => kind[broadcasting.pkt].instant
  BY <1>1 DEF Nobody
<1> QED BY <1>2, <1>3, <1>4, <1>5, ResetKeeps

\* The last command of a packet that is acknowledged was sent, and all others.
LEMMA AcknowledgedComplete ==
    ASSUME NEW k, NEW o, NEW w \in Seq(CommandSpace), NEW s \in Seq(CommandSpace), NEW t,
           Waits(k, w, s, t)
    PROVE  /\ \A i \in 1 .. Len(s) : Complete(k, o, w, RemoveAt(s, i), <<s[i]>>, t)
           /\ \A i \in 1 .. Len(w) :
                 w[i].attempted => Complete(k, o, RemoveAt(w, i), s, <<w[i]>>, t)
<1>1. \A p \in Packets : Has(w, p) \/ Has(s, p) =>
          \A f \in 0 .. FragmentsOf(k, p) - 1 :
              <<p, f>> \in t \/ \E j \in 1 .. Len(w) : w[j].pkt = p /\ w[j].frag = f
  BY DEF Waits
<1>2. \A c, p : Holding(p, <<c>>) > 0 => c.pkt = p
  BY HoldingOne
<1>3. ASSUME NEW i \in 1 .. Len(s), NEW p \in Packets,
             Holding(p, <<s[i]>>) > 0, Holding(p, w) = 0,
             NEW f \in 0 .. FragmentsOf(k, p) - 1
      PROVE  <<p, f>> \in t
  <2>1. Has(s, p)
    BY <1>2, <1>3 DEF Has
  <2>2. \A j \in 1 .. Len(w) : w[j].pkt # p
    BY <1>3, HoldingType
  <2> QED BY <1>1, <2>1, <2>2
<1>4. ASSUME NEW i \in 1 .. Len(w), w[i].attempted, NEW p \in Packets,
             Holding(p, <<w[i]>>) > 0, Holding(p, RemoveAt(w, i)) = 0,
             NEW f \in 0 .. FragmentsOf(k, p) - 1
      PROVE  <<p, f>> \in t
  <2> DEFINE r == RemoveAt(w, i)
  <2>1. w[i].pkt = p /\ Has(w, p)
    BY <1>2, <1>4 DEF Has
  <2>2. /\ r \in Seq(CommandSpace) /\ Len(r) = Len(w) - 1
        /\ \A j \in 1 .. Len(w) : j < i => j \in 1 .. Len(w) - 1 /\ r[j] = w[j]
        /\ \A j \in 1 .. Len(w) : j > i => j - 1 \in 1 .. Len(w) - 1 /\ r[j - 1] = w[j]
    BY RemoveAtElements
  <2>3. \A j \in 1 .. Len(r) : r[j].pkt # p
    <3>1. Holding(p, r) = 0
      BY <1>4
    <3> HIDE DEF r
    <3> QED BY <3>1, <2>2, HoldingType
  <2> HIDE DEF r
  <2>4. ASSUME NEW j \in 1 .. Len(w), j # i PROVE w[j].pkt # p
    <3>1. j < i \/ j > i
      BY <2>4
    <3> QED BY <3>1, <2>2, <2>3
  <2>5. <<w[i].pkt, w[i].frag>> \in t
    BY <1>4 DEF Waits
  <2>6. <<p, f>> \in t \/ \E j \in 1 .. Len(w) : w[j].pkt = p /\ w[j].frag = f
    BY <1>1, <2>1
  <2>7. ASSUME NEW j \in 1 .. Len(w), w[j].pkt = p, w[j].frag = f PROVE <<p, f>> \in t
    <3>1. j = i
      BY <2>4, <2>7
    <3> QED BY <3>1, <2>5, <2>7
  <2> QED BY <2>6, <2>7
<1>5. ASSUME NEW i \in 1 .. Len(s) PROVE Complete(k, o, w, RemoveAt(s, i), <<s[i]>>, t)
  <2> DEFINE r == RemoveAt(s, i)
             a == <<s[i]>>
  <2>1. \A p \in Packets : Holding(p, a) > 0 /\ Holding(p, w) = 0 =>
            \A f \in 0 .. FragmentsOf(k, p) - 1 : <<p, f>> \in t
    BY <1>3
  <2> HIDE DEF r, a
  <2>2. Complete(k, o, w, r, a, t)
    BY <2>1 DEF Complete
  <2> QED BY <2>2 DEF r, a
<1>6. ASSUME NEW i \in 1 .. Len(w), w[i].attempted
      PROVE  Complete(k, o, RemoveAt(w, i), s, <<w[i]>>, t)
  <2> DEFINE r == RemoveAt(w, i)
             a == <<w[i]>>
  <2>1. \A p \in Packets : Holding(p, a) > 0 /\ Holding(p, r) = 0 =>
            \A f \in 0 .. FragmentsOf(k, p) - 1 : <<p, f>> \in t
    BY <1>4, <1>6
  <2> HIDE DEF r, a
  <2>2. Complete(k, o, r, s, a, t)
    BY <2>1 DEF Complete
  <2> QED BY <2>2 DEF r, a
<1> QED BY <1>5, <1>6

\* A peer goes on in its state, or ends when its lists are empty.
LEMMA StateTyped ==
    ASSUME NEW q \in Peers, NEW x,
           state \in [Peers -> {"CONNECTED", "DISCONNECT_LATER", "ZOMBIE", "ENDED"}]
    PROVE  StateWhenEmpty(q, x) \in {"CONNECTED", "DISCONNECT_LATER", "ZOMBIE", "ENDED"}
BY DEF StateWhenEmpty

\* A command that is acknowledged leaves its list.
LEMMA HandleAcknowledgeKeeps == ASSUME IInv, NEW q \in Peers, HandleAcknowledge(q) PROVE IInv'
<1> DEFINE o == outgoingCommands[q]
           w == outgoingSendReliableCommands[q]
           s == sentReliableCommands[q]
           t == transmitted[q]
           x == Commands(q)'
<1>1. Typed /\ InOrder(q) /\ Guarded /\ broadcasting = Nobody
  BY DEF IInv, HandleAcknowledge, Idle
<1>2. /\ Acknowledged(q) /\ outgoingCommands' = outgoingCommands
      /\ state' = [state EXCEPT ![q] = StateWhenEmpty(q, x)]
      /\ UNCHANGED <<kind, owner, numbers, packetThrottleCounter, broadcasting, visiting, transmitted>>
  BY DEF HandleAcknowledge, packetVars
<1> HIDE DEF x
<1>3. OthersTyped'
  <2>1. state' \in [Peers -> {"CONNECTED", "DISCONNECT_LATER", "ZOMBIE", "ENDED"}]
    <3>1. state \in [Peers -> {"CONNECTED", "DISCONNECT_LATER", "ZOMBIE", "ENDED"}]
      BY <1>1 DEF Typed
    <3> QED BY <3>1, <1>2, StateTyped
  <2> QED BY <2>1, <1>1, <1>2 DEF Typed, OthersTyped
<1>4. Guarded'
  BY <1>1, <1>2 DEF Guarded
<1>5. broadcasting.pkt # 0 => kind[broadcasting.pkt].instant
  BY <1>1 DEF Nobody
<1>6. /\ o \in Seq(CommandSpace) /\ w \in Seq(CommandSpace) /\ s \in Seq(CommandSpace)
      /\ t \in SUBSET (Packets \X (0 .. FragmentCount - 1)) /\ transmitted[q] \subseteq t
      /\ InRuns(kind, o, t) /\ Waits(kind, w, s, t) /\ Whole(t)
  BY <1>1 DEF Typed, InOrder
<1>7. /\ outgoingCommands' = [outgoingCommands EXCEPT ![q] = o]
      /\ outgoingSendReliableCommands = [outgoingSendReliableCommands EXCEPT ![q] = w]
      /\ sentReliableCommands = [sentReliableCommands EXCEPT ![q] = s]
      /\ transmitted' = [transmitted EXCEPT ![q] = t]
  BY <1>1, <1>2 DEF Typed
<1>8. \A p : Holding(p, o) \in Nat /\ Holding(p, w) \in Nat /\ Holding(p, s) \in Nat
  BY <1>6, HoldingType
<1>9. CASE \E i \in DOMAIN s :
             /\ Release(<<>>, <<s[i]>>)
             /\ sentReliableCommands' = [sentReliableCommands EXCEPT ![q] = RemoveAt(@, i)]
             /\ UNCHANGED outgoingSendReliableCommands
  <2>1. PICK i \in 1 .. Len(s) :
             /\ Release(<<>>, <<s[i]>>)
             /\ sentReliableCommands' = [sentReliableCommands EXCEPT ![q] = RemoveAt(s, i)]
             /\ UNCHANGED outgoingSendReliableCommands
    <3>1. PICK i \in DOMAIN s :
             /\ Release(<<>>, <<s[i]>>)
             /\ sentReliableCommands' = [sentReliableCommands EXCEPT ![q] = RemoveAt(@, i)]
             /\ UNCHANGED outgoingSendReliableCommands
      BY <1>9
    <3>2. i \in 1 .. Len(s)
      BY <1>6
    <3>3. sentReliableCommands' = [sentReliableCommands EXCEPT ![q] = RemoveAt(s, i)]
      BY <3>1
    <3> QED BY <3>1, <3>2, <3>3
  <2> DEFINE r == RemoveAt(s, i)
             a == <<s[i]>>
  <2>2. NewLists(q, o, w, r, t)
    BY <2>1, <1>7 DEF NewLists
  <2>3. /\ r \in Seq(CommandSpace) /\ a \in Seq(CommandSpace)
        /\ \A p : Holding(p, s) = Holding(p, r) + Holding(p, a)
    BY <1>6, HoldingRemoveAt
  <2>4. Complete(kind, o, w, r, a, t)
    BY <1>6, AcknowledgedComplete
  <2>5. Waits(kind, w, r, t)
    BY <1>6, WaitsAcknowledgedSent
  <2>6. Release(<<>>, a)
    BY <2>1
  <2> HIDE DEF r, a
  <2>7. Accounted(q, o, w, r, <<>>, a)
    <3>1. ASSUME NEW p \in Packets
          PROVE  Holding(p, o) + Holding(p, w) + Holding(p, s)
                     = Holding(p, o) + Holding(p, w) + Holding(p, r) + Holding(p, <<>>) + Holding(p, a)
      <4>1. Holding(p, r) \in Nat /\ Holding(p, a) \in Nat /\ Holding(p, <<>>) = 0
        BY <2>3, EmptyLists, HoldingType
      <4>2. Holding(p, s) = Holding(p, r) + Holding(p, a)
        BY <2>3
      <4> HIDE DEF o, w, s
      <4> QED BY <4>1, <4>2, <1>8
    <3> QED BY <3>1 DEF Accounted
  <2>8. InNewOrder(kind, o, w, r, t)
    BY <2>5, <1>6 DEF InNewOrder
  <2> HIDE DEF o, w, s, t
  <2> QED BY <1>2, <1>3, <1>4, <1>5, <1>6, <2>2, <2>3, <2>4, <2>6, <2>7, <2>8, EmptyLists, TakenKeeps
<1>10. CASE \E i \in DOMAIN w :
             /\ \A j \in 1 .. i : w[j].attempted
             /\ Release(<<>>, <<w[i]>>)
             /\ outgoingSendReliableCommands' =
                    [outgoingSendReliableCommands EXCEPT ![q] = RemoveAt(@, i)]
             /\ UNCHANGED sentReliableCommands
  <2>1. PICK i \in 1 .. Len(w) :
             /\ w[i].attempted
             /\ Release(<<>>, <<w[i]>>)
             /\ outgoingSendReliableCommands' =
                    [outgoingSendReliableCommands EXCEPT ![q] = RemoveAt(w, i)]
             /\ UNCHANGED sentReliableCommands
    <3>1. PICK i \in DOMAIN w :
             /\ \A j \in 1 .. i : w[j].attempted
             /\ Release(<<>>, <<w[i]>>)
             /\ outgoingSendReliableCommands' =
                    [outgoingSendReliableCommands EXCEPT ![q] = RemoveAt(@, i)]
             /\ UNCHANGED sentReliableCommands
      BY <1>10
    <3>2. i \in 1 .. Len(w) /\ i \in 1 .. i
      BY <1>6
    <3>3. outgoingSendReliableCommands' = [outgoingSendReliableCommands EXCEPT ![q] = RemoveAt(w, i)]
      BY <3>1
    <3>4. w[i].attempted
      BY <3>1, <3>2
    <3> QED BY <3>1, <3>2, <3>3, <3>4
  <2> DEFINE r == RemoveAt(w, i)
             a == <<w[i]>>
  <2>2. NewLists(q, o, r, s, t)
    BY <2>1, <1>7 DEF NewLists
  <2>3. /\ r \in Seq(CommandSpace) /\ a \in Seq(CommandSpace)
        /\ \A p : Holding(p, w) = Holding(p, r) + Holding(p, a)
    BY <1>6, HoldingRemoveAt
  <2>4. Complete(kind, o, r, s, a, t)
    BY <1>6, <2>1, AcknowledgedComplete
  <2>5. Waits(kind, r, s, t)
    BY <1>6, <2>1, WaitsAcknowledgedWaiting
  <2>6. Release(<<>>, a)
    BY <2>1
  <2> HIDE DEF r, a
  <2>7. Accounted(q, o, r, s, <<>>, a)
    <3>1. ASSUME NEW p \in Packets
          PROVE  Holding(p, o) + Holding(p, w) + Holding(p, s)
                     = Holding(p, o) + Holding(p, r) + Holding(p, s) + Holding(p, <<>>) + Holding(p, a)
      <4>1. Holding(p, r) \in Nat /\ Holding(p, a) \in Nat /\ Holding(p, <<>>) = 0
        BY <2>3, EmptyLists, HoldingType
      <4>2. Holding(p, w) = Holding(p, r) + Holding(p, a)
        BY <2>3
      <4> HIDE DEF o, w, s
      <4> QED BY <4>1, <4>2, <1>8
    <3> QED BY <3>1 DEF Accounted
  <2>8. InNewOrder(kind, o, r, s, t)
    BY <2>5, <1>6 DEF InNewOrder
  <2> HIDE DEF o, w, s, t
  <2> QED BY <1>2, <1>3, <1>4, <1>5, <1>6, <2>2, <2>3, <2>4, <2>6, <2>7, <2>8, EmptyLists, TakenKeeps
<1> QED BY <1>2, <1>9, <1>10 DEF Acknowledged

-----------------------------------------------------------------------------
(* A peer is visited *)

\* The first r commands of j, now attempted.
Attempted(j, r) == [i \in 1 .. r |-> [j[i] EXCEPT !.attempted = TRUE]]

\* Commands that are attempted belong to the packets they belonged to.
LEMMA ResentCommands ==
    ASSUME NEW j \in Seq(CommandSpace), NEW r \in 0 .. Len(j), NEW c, c = Attempted(j, r)
    PROVE  /\ c \in Seq(CommandSpace) /\ Resent(c, j, r) /\ Len(c) = r
           /\ \A i \in 1 .. r : c[i].pkt = j[i].pkt /\ c[i].frag = j[i].frag
           /\ \A p : Holding(p, c) = Holding(p, SubSeq(j, 1, r))
<1>1. r \in Nat /\ \A i \in 1 .. r : i \in 1 .. Len(j)
  OBVIOUS
<1>2. ASSUME NEW d \in CommandSpace
      PROVE  /\ [d EXCEPT !.attempted = TRUE] \in CommandSpace
             /\ [d EXCEPT !.attempted = TRUE].pkt = d.pkt
             /\ [d EXCEPT !.attempted = TRUE].frag = d.frag
  BY DEF CommandSpace
<1>3. \A i \in 1 .. r : j[i] \in CommandSpace
  BY <1>1
<1>4. c \in [1 .. r -> CommandSpace]
  BY <1>2, <1>3 DEF Attempted
<1>5. c \in Seq(CommandSpace) /\ Len(c) = r /\ DOMAIN c = 1 .. r
  BY <1>1, <1>4
<1>6. \A i \in 1 .. r : c[i] = [j[i] EXCEPT !.attempted = TRUE]
  BY DEF Attempted
<1>7. \A i \in 1 .. r : c[i].pkt = j[i].pkt /\ c[i].frag = j[i].frag
  BY <1>2, <1>3, <1>6
<1>8. ASSUME NEW p PROVE Holding(p, c) = Holding(p, SubSeq(j, 1, r))
  <2> DEFINE a == SubSeq(j, 1, r)
  <2>1. a \in Seq(CommandSpace) /\ Len(a) = r /\ \A i \in 1 .. r : a[i] = j[i]
    BY PartsElements
  <2>2. DOMAIN a = 1 .. r
    <3> HIDE DEF a
    <3> QED BY <2>1
  <2> HIDE DEF a
  <2>3. {i \in DOMAIN c : c[i].pkt = p} = {i \in DOMAIN a : a[i].pkt = p}
    BY <2>1, <2>2, <1>5, <1>7
  <2>4. Holding(p, c) = Holding(p, a)
    BY <2>3 DEF Holding
  <2> QED BY <2>4 DEF a
<1> QED BY <1>5, <1>6, <1>7, <1>8 DEF Resent

\* The first fragment of what is sent of the waiting commands was sent, or is
\* sent with it.
LEMMA WholeResent ==
    ASSUME NEW k, NEW w \in Seq(CommandSpace), NEW s \in Seq(CommandSpace), NEW t,
           Waits(k, w, s, t), Whole(t), NEW a \in Seq(CommandSpace), Among(a, s),
           NEW r \in 0 .. Len(a \o w), NEW u, t \subseteq u,
           \A i \in 1 .. r : <<(a \o w)[i].pkt, (a \o w)[i].frag>> \in u
    PROVE  \A i \in 1 .. r : <<(a \o w)[i].pkt, 0>> \in u
<1> DEFINE j == a \o w
           l == Len(a)
           m == Len(w)
<1>1. /\ Len(j) = l + m /\ l \in Nat /\ m \in Nat
      /\ \A i \in 1 .. l : j[i] = a[i]
      /\ \A i \in 1 .. m : j[l + i] = w[i]
  BY ConcatElements
<1>2. r \in 0 .. l + m
  BY <1>1
<1>3. \A i \in 1 .. r : <<j[i].pkt, j[i].frag>> \in u
  OBVIOUS
<1> HIDE DEF j
<1>4. ASSUME NEW i \in 1 .. r, i <= l PROVE <<j[i].pkt, 0>> \in u
  <2>1. i \in 1 .. l /\ j[i] = a[i]
    BY <1>1, <1>2, <1>4
  <2>2. PICK h \in 1 .. Len(s) : a[i] = s[h]
    BY <2>1 DEF Among
  <2>3. <<s[h].pkt, s[h].frag>> \in t
    BY DEF Waits
  <2>4. <<s[h].pkt, 0>> \in t
    BY <2>3 DEF Whole
  <2> QED BY <2>1, <2>2, <2>4
<1>5. ASSUME NEW i \in 1 .. r, ~ (i <= l) PROVE <<j[i].pkt, 0>> \in u
  <2>1. i - l \in 1 .. m /\ l + (i - l) = i
    BY <1>1, <1>2, <1>5
  <2>2. j[i] = w[i - l]
    BY <1>1, <2>1
  <2>3. \/ <<w[i - l].pkt, 0>> \in t
        \/ \E h \in 1 .. i - l : w[h].pkt = w[i - l].pkt /\ w[h].frag = 0
    BY <2>1 DEF Waits
  <2>4. ASSUME NEW h \in 1 .. i - l, w[h].pkt = w[i - l].pkt, w[h].frag = 0
        PROVE  <<w[i - l].pkt, 0>> \in u
    <3>1. h \in 1 .. m /\ l + h \in 1 .. r
      BY <1>1, <1>2, <2>1
    <3>2. j[l + h] = w[h]
      BY <1>1, <3>1
    <3>3. <<j[l + h].pkt, j[l + h].frag>> \in u
      BY <1>3, <3>1
    <3> QED BY <3>2, <3>3, <2>4
  <2> QED BY <2>2, <2>3, <2>4
<1> QED BY <1>4, <1>5 DEF j

\* What a peer was sent with the commands of a list.
Given(t, s) == t \cup {<<c.pkt, c.frag>> : c \in Range(s)}

\* After commands a and b, u is t and what they carry.
HandsOut(a, b, t, u) ==
    /\ u \in SUBSET (Packets \X (0 .. FragmentCount - 1)) /\ t \subseteq u
    /\ \A i \in 1 .. Len(a) : <<a[i].pkt, a[i].frag>> \in u
    /\ \A i \in 1 .. Len(b) : <<b[i].pkt, b[i].frag>> \in u
    /\ \A x \in u : \/ x \in t
                    \/ \E i \in 1 .. Len(a) : x = <<a[i].pkt, a[i].frag>>
                    \/ \E i \in 1 .. Len(b) : x = <<b[i].pkt, b[i].frag>>

\* What is handed out of two lists.
LEMMA HandedOut ==
    ASSUME NEW a \in Seq(CommandSpace), NEW b \in Seq(CommandSpace),
           NEW t \in SUBSET (Packets \X (0 .. FragmentCount - 1)),
           NEW u, u = Given(t, a \o b)
    PROVE  HandsOut(a, b, t, u)
<1> DEFINE j == a \o b
           l == Len(a)
           m == Len(b)
<1>1. /\ j \in Seq(CommandSpace) /\ Len(j) = l + m /\ l \in Nat /\ m \in Nat
      /\ \A i \in 1 .. l : j[i] = a[i]
      /\ \A i \in 1 .. m : j[l + i] = b[i]
  BY ConcatElements
<1> HIDE DEF j
<1>2. DOMAIN j = 1 .. l + m
  BY <1>1
<1>3. u = t \cup {<<j[i].pkt, j[i].frag>> : i \in 1 .. l + m}
  BY <1>2 DEF Range, Given, j
<1> HIDE DEF l, m
<1>4. \A i \in 1 .. l + m : j[i] \in CommandSpace
  BY <1>1, <1>2 DEF l, m
<1>5. \A c \in CommandSpace : <<c.pkt, c.frag>> \in Packets \X (0 .. FragmentCount - 1)
  BY DEF CommandSpace
<1>6. u \in SUBSET (Packets \X (0 .. FragmentCount - 1))
  BY <1>3, <1>4, <1>5
<1>7. ASSUME NEW i \in 1 .. l PROVE <<a[i].pkt, a[i].frag>> \in u
  <2>1. i \in 1 .. l + m
    BY <1>1
  <2> QED BY <2>1, <1>1, <1>3
<1>8. ASSUME NEW i \in 1 .. m PROVE <<b[i].pkt, b[i].frag>> \in u
  <2>1. l + i \in 1 .. l + m
    BY <1>1
  <2> QED BY <2>1, <1>1, <1>3
<1>9. ASSUME NEW x \in u
      PROVE  \/ x \in t
             \/ \E i \in 1 .. l : x = <<a[i].pkt, a[i].frag>>
             \/ \E i \in 1 .. m : x = <<b[i].pkt, b[i].frag>>
  <2> SUFFICES ASSUME NEW i \in 1 .. l + m, x = <<j[i].pkt, j[i].frag>>
               PROVE  \/ \E h \in 1 .. l : x = <<a[h].pkt, a[h].frag>>
                      \/ \E h \in 1 .. m : x = <<b[h].pkt, b[h].frag>>
    BY <1>3
  <2>1. CASE i <= l
    <3>1. i \in 1 .. l /\ j[i] = a[i]
      BY <1>1, <2>1
    <3> QED BY <3>1
  <2>2. CASE ~ (i <= l)
    <3>1. i - l \in 1 .. m /\ l + (i - l) = i
      BY <1>1, <2>2
    <3>2. j[i] = b[i - l]
      BY <1>1, <3>1
    <3> QED BY <3>1, <3>2
  <2> QED BY <2>1, <2>2
<1> QED BY <1>3, <1>6, <1>7, <1>8, <1>9 DEF HandsOut, l, m

\* What the throttle drops: of a packet in fragments, the later ones with the first.
Drops(s, D) ==
    /\ D \subseteq 1 .. Len(s)
    /\ \A i \in 1 .. Len(s) : s[i].frag > 0 =>
          (i \in D <=> i - 1 \in D /\ s[i - 1].number = s[i].number)

\* With a command of e, the first fragment of its packet was sent, and all of them
\* if none is left of o behind its first n commands.
SentInRuns(k, o, n, e, u) ==
    /\ \A i \in 1 .. Len(e) : <<e[i].pkt, 0>> \in u
    /\ \A i \in 1 .. Len(e) :
          (\A j \in n + 1 .. Len(o) : o[j].pkt # e[i].pkt)
              => \A f \in 0 .. FragmentsOf(k, e[i].pkt) - 1 : <<e[i].pkt, f>> \in u

\* u has what the commands of e carry.
Carried(e, u) == \A i \in 1 .. Len(e) : <<e[i].pkt, e[i].frag>> \in u

\* The first n unreliable commands are sent or dropped.
LEMMA VisitRuns ==
    ASSUME NEW k, NEW o \in Seq(CommandSpace), NEW t, InRuns(k, o, t), NEW n \in 0 .. Len(o),
           NEW D, Drops(SubSeq(o, 1, n), D),
           n \in 1 .. Len(o) - 1 /\ n \in D => o[n].number # o[n + 1].number,
           NEW u, t \subseteq u,
           NEW e, e = Others(SubSeq(o, 1, n), D), Carried(e, u)
    PROVE  /\ InRuns(k, SubSeq(o, n + 1, Len(o)), u)
           /\ SentInRuns(k, o, n, e, u)
<1> DEFINE first == SubSeq(o, 1, n)
<1>1. first \in Seq(CommandSpace) /\ Len(first) = n /\ \A i \in 1 .. n : first[i] = o[i]
  BY PartsElements
<1>2. n \in Nat /\ \A i \in 1 .. n : i \in 1 .. Len(o)
  OBVIOUS
<1>3. Drops(first, D) /\ e = Others(first, D)
  OBVIOUS
<1> HIDE DEF first
<1>4. D \subseteq 1 .. n /\ DOMAIN first = 1 .. n
  BY <1>1, <1>3 DEF Drops
<1>5. /\ \A i \in 1 .. n : o[i].frag > 0 /\ i > 1 =>
            (i \in D <=> i - 1 \in D /\ o[i - 1].number = o[i].number)
      /\ \A i \in 1 .. n : o[i].frag > 0 /\ i = 1 => i \notin D
  <2>1. ASSUME NEW i \in 1 .. n, o[i].frag > 0
        PROVE  i \in D <=> i - 1 \in D /\ first[i - 1].number = first[i].number
    BY <1>1, <1>3, <2>1 DEF Drops
  <2>2. ASSUME NEW i \in 1 .. n, o[i].frag > 0, i > 1
        PROVE  i \in D <=> i - 1 \in D /\ o[i - 1].number = o[i].number
    <3>1. i - 1 \in 1 .. n
      BY <2>2, <1>2
    <3> QED BY <3>1, <2>1, <2>2, <1>1
  <2>3. ASSUME NEW i \in 1 .. n, o[i].frag > 0, i = 1 PROVE i \notin D
    <3>1. i - 1 = 0 /\ 0 \notin D
      BY <2>3, <1>4
    <3> QED BY <3>1, <2>1, <2>3
  <2> QED BY <2>2, <2>3
<1>6. /\ \A h \in 1 .. Len(e) : \E i \in 1 .. n : i \notin D /\ e[h] = o[i]
      /\ \A i \in 1 .. n : i \notin D => \E h \in 1 .. Len(e) : e[h] = o[i]
  <2> DEFINE C == DOMAIN first \ D
  <2>1. e = Chosen(first, C) /\ \A i \in 1 .. n : i \in C <=> i \notin D
    BY <1>3, <1>4 DEF Others
  <2> HIDE DEF C
  <2>2. Picks(e, first, C)
    BY <1>1, <2>1, ChosenElements
  <2>3. ASSUME NEW h \in 1 .. Len(e) PROVE \E i \in 1 .. n : i \notin D /\ e[h] = o[i]
    <3>1. PICK i \in 1 .. n : i \in C /\ e[h] = first[i]
      BY <1>1, <2>1, <2>2 DEF Picks
    <3> QED BY <3>1, <1>1, <2>1
  <2>4. ASSUME NEW i \in 1 .. n, i \notin D PROVE \E h \in 1 .. Len(e) : e[h] = o[i]
    <3>1. \E h \in 1 .. Len(e) : e[h] = first[i]
      BY <1>1, <2>1, <2>2, <2>4 DEF Picks
    <3> QED BY <3>1, <1>1
  <2> QED BY <2>3, <2>4
<1>7. \A i \in 1 .. n : i \notin D => <<o[i].pkt, o[i].frag>> \in u
  BY <1>6 DEF Carried
<1>8. /\ InRuns(k, SubSeq(o, n + 1, Len(o)), u)
      /\ \A i \in 1 .. n : i \notin D => \A f \in 0 .. o[i].frag : <<o[i].pkt, f>> \in u
      /\ \A i \in 1 .. n : i \notin D /\ (\A j \in n + 1 .. Len(o) : o[j].pkt # o[i].pkt)
            => \A f \in 0 .. FragmentsOf(k, o[i].pkt) - 1 : <<o[i].pkt, f>> \in u
  BY <1>5, <1>7, RunsCut
<1>9. ASSUME NEW h \in 1 .. Len(e)
      PROVE  /\ <<e[h].pkt, 0>> \in u
             /\ (\A j \in n + 1 .. Len(o) : o[j].pkt # e[h].pkt)
                   => \A f \in 0 .. FragmentsOf(k, e[h].pkt) - 1 : <<e[h].pkt, f>> \in u
  <2>1. PICK i \in 1 .. n : i \notin D /\ e[h] = o[i]
    BY <1>6
  <2>2. o[i].frag \in Nat
    BY <1>2, CommandFields
  <2>3. 0 \in 0 .. o[i].frag
    BY <2>2
  <2> QED BY <2>1, <2>3, <1>8
<1> QED BY <1>8, <1>9 DEF SentInRuns

\* The lists after a visit, and what was handed out.
Visited(o, w, s, timedOut, n, r, D, d, e, rest, unsent, inFlight, t, u) ==
    LET waiting == Chosen(s, timedOut) \o w
        resent  == Attempted(waiting, r)
    IN  /\ d = Chosen(SubSeq(o, 1, n), D)
        /\ e = Others(SubSeq(o, 1, n), D)
        /\ rest = SubSeq(o, n + 1, Len(o))
        /\ unsent = SubSeq(waiting, r + 1, Len(waiting))
        /\ inFlight = Others(s, timedOut) \o resent
        /\ u = Given(t, e \o resent)

\* A visit keeps the lists in order and accounts for every command.
LEMMA VisitOrder ==
    ASSUME NEW k, NEW o \in Seq(CommandSpace), NEW w \in Seq(CommandSpace), NEW s \in Seq(CommandSpace),
           NEW t \in SUBSET (Packets \X (0 .. FragmentCount - 1)), InNewOrder(k, o, w, s, t),
           NEW timedOut, NEW n \in 0 .. Len(o), NEW r \in 0 .. Len(Chosen(s, timedOut) \o w),
           NEW D, Drops(SubSeq(o, 1, n), D),
           n \in 1 .. Len(o) - 1 /\ n \in D => o[n].number # o[n + 1].number,
           NEW d, NEW e, NEW rest, NEW unsent, NEW inFlight, NEW u,
           Visited(o, w, s, timedOut, n, r, D, d, e, rest, unsent, inFlight, t, u)
    PROVE  /\ d \in Seq(CommandSpace) /\ e \in Seq(CommandSpace) /\ rest \in Seq(CommandSpace)
           /\ unsent \in Seq(CommandSpace) /\ inFlight \in Seq(CommandSpace)
           /\ u \in SUBSET (Packets \X (0 .. FragmentCount - 1)) /\ t \subseteq u
           /\ \A p : Holding(p, o) + Holding(p, w) + Holding(p, s) =
                         Holding(p, rest) + Holding(p, unsent) + Holding(p, inFlight)
                             + Holding(p, d) + Holding(p, e)
           /\ Complete(k, rest, unsent, inFlight, e, u)
           /\ InNewOrder(k, rest, unsent, inFlight, u)
<1> DEFINE a == Chosen(s, timedOut)
           b == Others(s, timedOut)
           j == a \o w
           sent == SubSeq(j, 1, r)
           resent == Attempted(j, r)
           first == SubSeq(o, 1, n)
<1>1. /\ rest = SubSeq(o, n + 1, Len(o)) /\ unsent = SubSeq(j, r + 1, Len(j))
      /\ inFlight = b \o resent
      /\ u = Given(t, e \o resent)
      /\ d = Chosen(first, D) /\ e = Others(first, D)
  BY DEF Visited
<1>2. InRuns(k, o, t) /\ Waits(k, w, s, t) /\ Whole(t)
  BY DEF InNewOrder
<1>3. /\ a \in Seq(CommandSpace) /\ b \in Seq(CommandSpace)
      /\ \A p : Holding(p, s) = Holding(p, a) + Holding(p, b)
  BY HoldingDivided
<1>4. Among(a, s) /\ Among(b, s)
  <2>1. ASSUME NEW C PROVE Among(Chosen(s, C), s)
    <3>1. \A i \in 1 .. Len(Chosen(s, C)) : \E l \in 1 .. Len(s) : l \in C /\ Chosen(s, C)[i] = s[l]
      BY ChosenElements DEF Picks
    <3> DEFINE x == Chosen(s, C)
    <3>2. \A i \in 1 .. Len(x) : \E l \in 1 .. Len(s) : x[i] = s[l]
      BY <3>1
    <3> HIDE DEF x
    <3>3. Among(x, s)
      BY <3>2 DEF Among
    <3> QED BY <3>3 DEF x
  <2> QED BY <2>1 DEF Others
<1> HIDE DEF a, b
<1>5. j \in Seq(CommandSpace) /\ \A p : Holding(p, j) = Holding(p, a) + Holding(p, w)
  BY <1>3, HoldingConcat
<1>6. r \in 0 .. Len(j)
  BY DEF a
<1> HIDE DEF j
<1>7. resent = Attempted(j, r) /\ sent = SubSeq(j, 1, r)
  OBVIOUS
<1> HIDE DEF resent, sent
<1>8. /\ resent \in Seq(CommandSpace) /\ Resent(resent, j, r) /\ Len(resent) = r
      /\ \A i \in 1 .. r : resent[i].pkt = j[i].pkt /\ resent[i].frag = j[i].frag
      /\ \A p : Holding(p, resent) = Holding(p, sent)
  BY <1>5, <1>6, <1>7, ResentCommands
<1>9. /\ unsent \in Seq(CommandSpace) /\ sent \in Seq(CommandSpace)
      /\ \A p : Holding(p, j) = Holding(p, sent) + Holding(p, unsent)
  BY <1>1, <1>5, <1>6, <1>7, HoldingParts
<1>10. /\ rest \in Seq(CommandSpace) /\ first \in Seq(CommandSpace)
       /\ \A p : Holding(p, o) = Holding(p, first) + Holding(p, rest)
  BY <1>1, HoldingParts
<1>11. d = Chosen(first, D) /\ e = Others(first, D) /\ Drops(first, D)
  BY <1>1
<1>12. /\ d \in Seq(CommandSpace) /\ e \in Seq(CommandSpace)
       /\ \A p : Holding(p, first) = Holding(p, d) + Holding(p, e)
  <2> HIDE DEF first
  <2> QED BY <1>10, <1>11, HoldingDivided
<1>13. /\ inFlight \in Seq(CommandSpace)
       /\ \A p : Holding(p, inFlight) = Holding(p, b) + Holding(p, resent)
  BY <1>1, <1>3, <1>8, HoldingConcat
<1>14. \A p : Holding(p, o) + Holding(p, w) + Holding(p, s) =
                  Holding(p, rest) + Holding(p, unsent) + Holding(p, inFlight)
                      + Holding(p, d) + Holding(p, e)
  <2> HIDE DEF first
  <2> TAKE p
  <2>1. /\ Holding(p, rest) \in Nat /\ Holding(p, unsent) \in Nat /\ Holding(p, b) \in Nat
        /\ Holding(p, resent) \in Nat /\ Holding(p, d) \in Nat /\ Holding(p, e) \in Nat
        /\ Holding(p, a) \in Nat /\ Holding(p, w) \in Nat /\ Holding(p, s) \in Nat
        /\ Holding(p, o) \in Nat /\ Holding(p, inFlight) \in Nat
    BY <1>3, <1>8, <1>9, <1>10, <1>12, <1>13, HoldingType
  <2>2. /\ Holding(p, s) = Holding(p, a) + Holding(p, b)
        /\ Holding(p, a) + Holding(p, w) = Holding(p, resent) + Holding(p, unsent)
        /\ Holding(p, o) = Holding(p, d) + Holding(p, e) + Holding(p, rest)
        /\ Holding(p, inFlight) = Holding(p, b) + Holding(p, resent)
    BY <1>3, <1>5, <1>8, <1>9, <1>10, <1>12, <1>13
  <2> DEFINE hr == Holding(p, rest)
             hu == Holding(p, unsent)
             hb == Holding(p, b)
             hs == Holding(p, resent)
             hd == Holding(p, d)
             he == Holding(p, e)
             ha == Holding(p, a)
             hw == Holding(p, w)
  <2>3. /\ hr \in Nat /\ hu \in Nat /\ hb \in Nat /\ hs \in Nat /\ hd \in Nat
        /\ he \in Nat /\ ha \in Nat /\ hw \in Nat /\ ha + hw = hs + hu
        /\ Holding(p, s) = ha + hb /\ Holding(p, o) = hd + he + hr /\ Holding(p, inFlight) = hb + hs
    BY <2>1, <2>2
  <2> HIDE DEF hr, hu, hb, hs, hd, he, ha, hw
  <2>4. (hd + he + hr) + hw + (ha + hb) = hr + hu + (hb + hs) + hd + he
    BY <2>3
  <2> QED BY <2>3, <2>4 DEF hr, hu, hd, he, hw
<1>15. /\ u \in SUBSET (Packets \X (0 .. FragmentCount - 1)) /\ t \subseteq u
       /\ \A i \in 1 .. Len(e) : <<e[i].pkt, e[i].frag>> \in u
       /\ \A i \in 1 .. Len(resent) : <<resent[i].pkt, resent[i].frag>> \in u
       /\ \A x \in u : \/ x \in t
                       \/ \E i \in 1 .. Len(e) : x = <<e[i].pkt, e[i].frag>>
                       \/ \E i \in 1 .. Len(resent) : x = <<resent[i].pkt, resent[i].frag>>
  <2>1. HandsOut(e, resent, t, u)
    BY <1>1, <1>8, <1>12, HandedOut
  <2> QED BY <2>1 DEF HandsOut
<1>16. /\ InRuns(k, rest, u)
       /\ \A i \in 1 .. Len(e) : <<e[i].pkt, 0>> \in u
       /\ \A i \in 1 .. Len(e) :
             (\A h \in n + 1 .. Len(o) : o[h].pkt # e[i].pkt)
                 => \A f \in 0 .. FragmentsOf(k, e[i].pkt) - 1 : <<e[i].pkt, f>> \in u
  <2>1. Drops(SubSeq(o, 1, n), D) /\ e = Others(SubSeq(o, 1, n), D)
    BY <1>1
  <2> HIDE DEF first
  <2>2. Carried(e, u)
    BY <1>15 DEF Carried
  <2>3. InRuns(k, SubSeq(o, n + 1, Len(o)), u) /\ SentInRuns(k, o, n, e, u)
    BY <1>2, <1>15, <2>1, <2>2, VisitRuns
  <2> QED BY <1>1, <2>3 DEF SentInRuns
<1>17. \A i \in 1 .. r : <<resent[i].pkt, 0>> \in u
  <2>1. \A i \in 1 .. r : <<j[i].pkt, j[i].frag>> \in u
    BY <1>8, <1>15
  <2>2. r \in 0 .. Len(a \o w) /\ \A i \in 1 .. r : <<(a \o w)[i].pkt, (a \o w)[i].frag>> \in u
    BY <1>6, <2>1 DEF j
  <2>3. \A i \in 1 .. r : <<(a \o w)[i].pkt, 0>> \in u
    BY <1>2, <1>3, <1>4, <1>15, <2>2, WholeResent
  <2> QED BY <2>3, <1>8 DEF j
<1>18. Whole(u)
  <2> SUFFICES ASSUME NEW x \in u PROVE <<x[1], 0>> \in u
    BY DEF Whole
  <2>1. CASE x \in t
    BY <2>1, <1>2, <1>15 DEF Whole
  <2>2. ASSUME NEW i \in 1 .. Len(e), x = <<e[i].pkt, e[i].frag>> PROVE <<x[1], 0>> \in u
    BY <2>2, <1>16
  <2>3. ASSUME NEW i \in 1 .. Len(resent), x = <<resent[i].pkt, resent[i].frag>>
        PROVE  <<x[1], 0>> \in u
    BY <2>3, <1>8, <1>17
  <2> QED BY <2>1, <2>2, <2>3, <1>15
<1>19. Waits(k, unsent, inFlight, u)
  <2>1. r \in 0 .. Len(a \o w) /\ Resent(resent, a \o w, r)
    BY <1>6, <1>8 DEF j
  <2>2. \A i \in 1 .. r : <<resent[i].pkt, resent[i].frag>> \in u
    BY <1>8, <1>15
  <2>3. Waits(k, SubSeq(a \o w, r + 1, Len(a \o w)), b \o resent, u)
    BY <1>2, <1>3, <1>4, <1>8, <1>15, <2>1, <2>2, WaitsSent
  <2> QED BY <2>3, <1>1 DEF j
<1>20. Complete(k, rest, unsent, inFlight, e, u)
  <2> SUFFICES ASSUME NEW p \in Packets, Holding(p, e) > 0, Holding(p, rest) = 0,
                      NEW f \in 0 .. FragmentsOf(k, p) - 1
               PROVE  <<p, f>> \in u
    BY DEF Complete
  <2>1. PICK i \in 1 .. Len(e) : e[i].pkt = p
    <3>1. Holding(p, e) # 0
      OBVIOUS
    <3> QED BY <3>1, <1>12, HoldingType
  <2>2. \A h \in 1 .. Len(rest) : rest[h].pkt # p
    BY <1>10, HoldingType
  <2>3. ASSUME NEW h \in n + 1 .. Len(o) PROVE o[h].pkt # p
    <3>1. /\ Len(rest) = Len(o) - n
          /\ \A i2 \in 1 .. Len(o) - n : rest[i2] = o[n + i2]
      <4>1. rest = SubSeq(o, n + 1, Len(o))
        BY <1>1
      <4> HIDE DEF first
      <4> QED BY <4>1, PartsElements
    <3>2. h - n \in 1 .. Len(o) - n /\ n + (h - n) = h
      OBVIOUS
    <3> QED BY <3>1, <3>2, <2>2
  <2> QED BY <2>1, <2>3, <1>16
<1>21. InNewOrder(k, rest, unsent, inFlight, u)
  BY <1>16, <1>18, <1>19 DEF InNewOrder
<1> HIDE DEF first
<1> QED BY <1>9, <1>10, <1>12, <1>13, <1>14, <1>15, <1>20, <1>21

\* The peers that are left to be visited, or none.
LEMMA MoveOnTyped ==
    ASSUME NEW again \in Seq(Peers), MoveOn(again), visiting.todo # <<>>,
           visiting \in [todo: Seq(Peers), timeouts: BOOLEAN]
    PROVE  visiting' \in [todo: Seq(Peers), timeouts: BOOLEAN]
<1>1. visiting.todo \in Seq(Peers)
  OBVIOUS
<1> DEFINE a == Tail(visiting.todo) \o again
<1>2. a \in Seq(Peers)
  BY <1>1
<1>3. CASE visiting' = [visiting EXCEPT !.todo = Tail(@) \o again]
  <2>1. visiting' = [visiting EXCEPT !.todo = a]
    BY <1>3
  <2> HIDE DEF a
  <2> QED BY <2>1, <1>2
<1>4. CASE visiting' = Nowhere
  BY <1>4, LoopTypes
<1> QED BY <1>3, <1>4 DEF MoveOn

\* What the throttle drops of the commands that a visit looks at.
LEMMA ThrottleDrops ==
    ASSUME NEW s \in Seq(CommandSpace), NEW counter \in 0 .. ThrottleScale - 1, NEW throttle
    PROVE  /\ Throttle(s, counter, throttle).counter \in 0 .. ThrottleScale - 1
           /\ Drops(s, Throttle(s, counter, throttle).dropped)
<1> DEFINE v == Throttle(s, counter, throttle)
<1>1. /\ v.counter \in 0 .. ThrottleScale - 1
      /\ v.dropped \subseteq 1 .. Len(s)
      /\ \A i \in 1 .. Len(s) : s[i].frag > 0 =>
            (i \in v.dropped <=> i - 1 \in v.dropped /\ s[i - 1].number = s[i].number)
  BY ThrottleVerdict
<1> HIDE DEF v
<1>2. Drops(s, v.dropped)
  BY <1>1 DEF Drops
<1> QED BY <1>1, <1>2 DEF v

\* The next peer is visited.
LEMMA VisitKeeps ==
    ASSUME IInv, visiting.todo # <<>>, NEW timedOut, NEW r, NEW n, NEW throttle,
           Visit(timedOut, r, n, throttle)
    PROVE  IInv'
<1> DEFINE q        == Head(visiting.todo)
           o        == outgoingCommands[q]
           w        == outgoingSendReliableCommands[q]
           s        == sentReliableCommands[q]
           t        == transmitted[q]
           waiting  == Chosen(s, timedOut) \o w
           first    == SubSeq(o, 1, n)
           rest     == SubSeq(o, n + 1, Len(o))
           verdict  == Throttle(first, packetThrottleCounter[q], throttle)
           D        == verdict.dropped
           resent   == [i \in 1 .. r |-> [waiting[i] EXCEPT !.attempted = TRUE]]
           unsent   == SubSeq(waiting, r + 1, Len(waiting))
           inFlight == Others(s, timedOut) \o resent
           u        == t \cup {<<c.pkt, c.frag>> : c \in Range(Others(first, D) \o resent)}
           d        == Chosen(first, D)
           e        == Others(first, D)
<1>1. Typed /\ Guarded
  BY DEF IInv
<1>2. visiting \in [todo: Seq(Peers), timeouts: BOOLEAN] /\ visiting.todo \in Seq(Peers)
  <2>1. visiting \in [todo: Seq(Peers), timeouts: BOOLEAN]
    BY <1>1 DEF Typed
  <2> QED BY <2>1
<1>3. q \in Peers
  BY <1>2
<1>4. /\ r \in 0 .. Len(waiting) /\ n \in 0 .. Len(o)
      /\ ~(D # {} /\ n \in D /\ rest # <<>> /\ Head(rest).number = Last(first).number)
      /\ Release(d, e)
      /\ outgoingCommands' = [outgoingCommands EXCEPT ![q] = rest]
      /\ outgoingSendReliableCommands' = [outgoingSendReliableCommands EXCEPT ![q] = unsent]
      /\ sentReliableCommands' = [sentReliableCommands EXCEPT ![q] = inFlight]
      /\ packetThrottleCounter' = [packetThrottleCounter EXCEPT ![q] = verdict.counter]
      /\ transmitted' = [transmitted EXCEPT ![q] =
                             @ \cup {<<c.pkt, c.frag>> : c \in Range(Others(first, D) \o resent)}]
      /\ state' = [state EXCEPT ![q] = StateWhenEmpty(q, rest \o unsent \o inFlight)]
      /\ MoveOn(<<>>) \/ MoveOn(<<q>>)
      /\ UNCHANGED <<kind, owner, numbers, broadcasting>>
  BY Zenon DEF Visit, packetVars
<1>5. transmitted' = [transmitted EXCEPT ![q] = u]
  BY <1>4
<1>6. /\ o \in Seq(CommandSpace) /\ w \in Seq(CommandSpace) /\ s \in Seq(CommandSpace)
      /\ t \in SUBSET (Packets \X (0 .. FragmentCount - 1)) /\ InNewOrder(kind, o, w, s, t)
      /\ packetThrottleCounter[q] \in 0 .. ThrottleScale - 1
  <2> HIDE DEF q
  <2>1. InOrder(q)
    BY <1>3 DEF IInv
  <2> QED BY <1>1, <1>3, <2>1 DEF Typed, InOrder, InNewOrder
<1>7. Visited(o, w, s, timedOut, n, r, D, d, e, rest, unsent, inFlight, t, u)
  BY Zenon DEF Visited, Attempted, Given
<1> HIDE DEF q, o, w, s, t, resent, u
<1>8. first \in Seq(CommandSpace) /\ Len(first) = n
  BY <1>4, <1>6, PartsElements
<1>9. verdict.counter \in 0 .. ThrottleScale - 1 /\ Drops(first, D)
  <2> HIDE DEF first
  <2> QED BY <1>6, <1>8, ThrottleDrops
<1> HIDE DEF verdict, D
<1>10. ASSUME n \in 1 .. Len(o) - 1, n \in D PROVE o[n].number # o[n + 1].number
  <2>1. /\ \A i \in 1 .. n : first[i] = o[i]
        /\ rest \in Seq(CommandSpace) /\ Len(rest) = Len(o) - n
        /\ \A i \in 1 .. Len(o) - n : rest[i] = o[n + i]
    BY <1>4, <1>6, PartsElements
  <2> HIDE DEF first, rest
  <2>2. Last(first) = o[n]
    <3>1. n \in 1 .. n /\ Last(first) = first[n]
      BY <1>8, <1>10 DEF Last
    <3> QED BY <3>1, <2>1
  <2>3. rest # <<>> /\ Head(rest) = o[n + 1]
    <3>1. Len(rest) > 0 /\ 1 \in 1 .. Len(o) - n
      BY <2>1, <1>6, <1>10
    <3>2. rest # <<>> /\ Head(rest) = rest[1]
      BY <3>1, <2>1
    <3> QED BY <3>1, <3>2, <2>1
  <2> QED BY <2>2, <2>3, <1>4, <1>10
<1>11. /\ d \in Seq(CommandSpace) /\ e \in Seq(CommandSpace) /\ rest \in Seq(CommandSpace)
       /\ unsent \in Seq(CommandSpace) /\ inFlight \in Seq(CommandSpace)
       /\ u \in SUBSET (Packets \X (0 .. FragmentCount - 1)) /\ t \subseteq u
       /\ \A p : Holding(p, o) + Holding(p, w) + Holding(p, s) =
                     Holding(p, rest) + Holding(p, unsent) + Holding(p, inFlight)
                         + Holding(p, d) + Holding(p, e)
       /\ Complete(kind, rest, unsent, inFlight, e, u)
       /\ InNewOrder(kind, rest, unsent, inFlight, u)
  <2>1. r \in 0 .. Len(Chosen(s, timedOut) \o w)
    BY <1>4
  <2>2. Drops(SubSeq(o, 1, n), D) /\ n \in 0 .. Len(o)
    BY <1>4, <1>9
  <2>4. n \in 1 .. Len(o) - 1 /\ n \in D => o[n].number # o[n + 1].number
    BY <1>10
  <2> HIDE DEF first, rest, unsent, inFlight, d, e, waiting
  <2> QED BY <1>6, <1>7, <2>1, <2>2, <2>4, VisitOrder
<1> HIDE DEF first, rest, unsent, inFlight, d, e, waiting
<1>12. NewLists(q, rest, unsent, inFlight, u)
  BY <1>4, <1>5 DEF NewLists
<1>13. Accounted(q, rest, unsent, inFlight, d, e)
  BY <1>11 DEF Accounted, o, w, s
<1>14. OthersTyped'
  <2>1. state' \in [Peers -> {"CONNECTED", "DISCONNECT_LATER", "ZOMBIE", "ENDED"}]
    <3>1. state \in [Peers -> {"CONNECTED", "DISCONNECT_LATER", "ZOMBIE", "ENDED"}]
      BY <1>1 DEF Typed
    <3> DEFINE x == StateWhenEmpty(q, rest \o unsent \o inFlight)
    <3>2. x \in {"CONNECTED", "DISCONNECT_LATER", "ZOMBIE", "ENDED"}
      BY <3>1, <1>3, StateTyped
    <3>3. state' = [state EXCEPT ![q] = x]
      BY <1>4
    <3> HIDE DEF x
    <3> QED BY <3>1, <3>2, <3>3
  <2>2. packetThrottleCounter' \in [Peers -> 0 .. ThrottleScale - 1]
    BY <1>1, <1>4, <1>9 DEF Typed
  <2>3. visiting' \in [todo: Seq(Peers), timeouts: BOOLEAN]
    <3>1. <<>> \in Seq(Peers) /\ <<q>> \in Seq(Peers)
      BY <1>3
    <3> QED BY <3>1, <1>2, <1>4, MoveOnTyped
  <2> QED BY <2>1, <2>2, <2>3, <1>1, <1>4 DEF Typed, OthersTyped
<1>15. broadcasting.pkt # 0 => kind[broadcasting.pkt].instant
  BY <1>1 DEF Guarded
<1>16. Guarded'
  BY <1>1, <1>4, <1>15 DEF Guarded
<1>17. t = transmitted[q] /\ kind' = kind /\ owner' = owner /\ broadcasting' = broadcasting
  BY <1>4 DEF t
<1>18. Release(d, e) /\ transmitted[q] \subseteq u
  BY <1>4, <1>11, <1>17
<1> QED BY <1>3, <1>11, <1>12, <1>13, <1>14, <1>15, <1>16, <1>17, <1>18, TakenKeeps

-----------------------------------------------------------------------------
(* The theorems *)

\* The initial state has the invariant.
LEMMA InitIInv == Init => IInv
<1> SUFFICES ASSUME Init PROVE IInv
  OBVIOUS
<1>1. Typed
  <2>1. 0 \in 0 .. ThrottleScale - 1
    BY PacketsAssumption
  <2>2. packetThrottleCounter \in [Peers -> 0 .. ThrottleScale - 1]
    BY <2>1 DEF Init
  <2>3. <<>> \in Seq(CommandSpace)
    OBVIOUS
  <2>4. /\ outgoingCommands \in [Peers -> Seq(CommandSpace)]
        /\ outgoingSendReliableCommands \in [Peers -> Seq(CommandSpace)]
        /\ sentReliableCommands \in [Peers -> Seq(CommandSpace)]
    BY <2>3 DEF Init
  <2>5. \A p \in Packets : owner[p] = "nobody"
    BY DEF Init
  <2> QED BY <2>2, <2>4, <2>5, LoopTypes DEF Init, Typed
<1>2. ASSUME NEW q \in Peers PROVE InOrder(q)
  <2>1. /\ outgoingCommands[q] = <<>> /\ outgoingSendReliableCommands[q] = <<>>
        /\ sentReliableCommands[q] = <<>> /\ transmitted[q] = {}
    BY DEF Init
  <2> QED BY <2>1, EmptyLists DEF InOrder, Whole
<1>3. ASSUME NEW p \in Packets
      PROVE  referenceCount[p] = Uses(p) /\ Lives(p) /\ SentReachedAPeer(p)
  <2>1. PlacesOf(p, Peers) = {}
    <3>1. ASSUME NEW q \in Peers PROVE {i \in DOMAIN Commands(q) : Commands(q)[i].pkt = p} = {}
      <4>1. Commands(q) = <<>>
        BY DEF Init, Commands
      <4> QED BY <4>1
    <3> QED BY <3>1 DEF PlacesOf
  <2>2. Cardinality({}) = 0 /\ p # 0
    BY FS_EmptySet DEF Packets
  <2> QED BY <2>1, <2>2 DEF Init, Uses, Lives, SentReachedAPeer, Nobody
<1>4. Guarded
  BY DEF Init, Guarded, Nobody
<1> QED BY <1>1, <1>2, <1>3, <1>4 DEF IInv, ReferencesExact

\* Every step keeps the invariant.
LEMMA NextIInv == IInv /\ [Next]_vars => IInv'
<1> SUFFICES ASSUME IInv, [Next]_vars PROVE IInv'
  OBVIOUS
<1>1. ASSUME NEW p \in Packets, Create(p) PROVE IInv'
  BY <1>1, CreateKeeps
<1>2. ASSUME NEW p \in Packets, Dispose(p) PROVE IInv'
  BY <1>2, DisposeKeeps
<1>3. ASSUME NEW p \in Packets, NEW q \in Peers, Send(q, p) PROVE IInv'
  BY <1>3, SendKeeps
<1>4. ASSUME NEW p \in Packets, NEW recipients \in Recipients, Broadcast(p, recipients) PROVE IInv'
  BY <1>4, BroadcastKeeps
<1>5. CASE BroadcastNext
  BY <1>5, BroadcastNextKeeps
<1>6. CASE BroadcastDone
  BY <1>6, BroadcastDoneKeeps
<1>7. ASSUME NEW timeouts \in BOOLEAN, Service(timeouts) PROVE IInv'
  BY <1>7, ServiceKeeps
<1>8. CASE VisitNobody
  BY <1>8, VisitNobodyKeeps
<1>9. CASE VisitTimeout
  BY <1>9, VisitTimeoutKeeps
<1>10. ASSUME visiting.todo # <<>>, NEW timedOut, NEW reliable, NEW unreliable, NEW throttle,
              Visit(timedOut, reliable, unreliable, throttle)
       PROVE  IInv'
  BY <1>10, VisitKeeps
<1>11. ASSUME NEW q \in Peers, HandleAcknowledge(q) PROVE IInv'
  BY <1>11, HandleAcknowledgeKeeps
<1>12. ASSUME NEW q \in Peers, DisconnectLater(q) PROVE IInv'
  BY <1>12, DisconnectLaterKeeps
<1>13. ASSUME NEW q \in Peers, End(q) PROVE IInv'
  BY <1>13, EndKeeps
<1>14. ASSUME NEW q \in Peers, Connect(q) PROVE IInv'
  BY <1>14, ConnectKeeps
<1>15. CASE UNCHANGED vars
  <2>1. UNCHANGED <<kind, owner, lifeVars, listVars, peerVars, broadcasting, visiting, transmitted>>
    BY <1>15 DEF vars, packetVars
  <2>2. Typed'
    BY <2>1 DEF IInv, Typed, lifeVars, listVars, peerVars
  <2>3. Guarded'
    BY <2>1 DEF IInv, Guarded
  <2> QED BY <2>1, <2>2, <2>3, QuietKeeps
<1> QED BY <1>1, <1>2, <1>3, <1>4, <1>5, <1>6, <1>7, <1>8, <1>9, <1>10, <1>11, <1>12, <1>13,
           <1>14, <1>15 DEF Next

\* The lists' types follow from their being in order.
LEMMA IInvTypeOK == IInv => TypeOK
<1> SUFFICES ASSUME IInv PROVE TypeOK
  OBVIOUS
<1>1. Typed /\ \A q \in Peers : InOrder(q)
  BY DEF IInv
<1>2. ASSUME NEW s \in Seq(CommandSpace), NEW c \in Range(s)
      PROVE  c \in CommandSpace /\ \E i \in 1 .. Len(s) : c = s[i]
  BY DEF Range
<1>3. ASSUME NEW q \in Peers
      PROVE  /\ Range(Commands(q)) \subseteq CommandSpace
             /\ \A c \in Range(outgoingCommands[q]) : kind[c.pkt].class # "reliable"
             /\ \A c \in Range(outgoingSendReliableCommands[q]) : kind[c.pkt].class = "reliable"
             /\ \A c \in Range(sentReliableCommands[q]) :
                    kind[c.pkt].class = "reliable" /\ c.attempted
  <2>1. /\ outgoingCommands[q] \in Seq(CommandSpace)
        /\ outgoingSendReliableCommands[q] \in Seq(CommandSpace)
        /\ sentReliableCommands[q] \in Seq(CommandSpace)
    BY <1>1 DEF Typed
  <2>2. Commands(q) \in Seq(CommandSpace)
    BY <1>1, ListsTyped
  <2>3. /\ InRuns(kind, outgoingCommands[q], transmitted[q])
        /\ Waits(kind, outgoingSendReliableCommands[q], sentReliableCommands[q], transmitted[q])
    BY <1>1 DEF InOrder
  <2>4. \A c \in Range(Commands(q)) : c \in CommandSpace
    BY <1>2, <2>2
  <2>5. ASSUME NEW c \in Range(outgoingCommands[q]) PROVE kind[c.pkt].class # "reliable"
    <3>1. PICK i \in 1 .. Len(outgoingCommands[q]) : c = outgoingCommands[q][i]
      BY <1>2, <2>1
    <3>2. kind[outgoingCommands[q][i].pkt].class # "reliable"
      BY <2>3 DEF InRuns
    <3> QED BY <3>1, <3>2
  <2>6. ASSUME NEW c \in Range(outgoingSendReliableCommands[q]) PROVE kind[c.pkt].class = "reliable"
    <3>1. PICK i \in 1 .. Len(outgoingSendReliableCommands[q]) :
               c = outgoingSendReliableCommands[q][i]
      BY <1>2, <2>1
    <3>2. kind[outgoingSendReliableCommands[q][i].pkt].class = "reliable"
      BY <2>3 DEF Waits
    <3> QED BY <3>1, <3>2
  <2>7. ASSUME NEW c \in Range(sentReliableCommands[q])
        PROVE  kind[c.pkt].class = "reliable" /\ c.attempted
    <3>1. PICK i \in 1 .. Len(sentReliableCommands[q]) : c = sentReliableCommands[q][i]
      BY <1>2, <2>1
    <3>2. /\ kind[sentReliableCommands[q][i].pkt].class = "reliable"
          /\ sentReliableCommands[q][i].attempted
      BY <2>3 DEF Waits
    <3> QED BY <3>1, <3>2
  <2> QED BY <2>4, <2>5, <2>6, <2>7
<1>4. broadcasting.pkt \in {0} \cup Packets
  BY <1>1 DEF Typed
<1>5. visiting.timeouts \in BOOLEAN /\ Range(visiting.todo) \subseteq Peers
  <2>1. visiting \in [todo: Seq(Peers), timeouts: BOOLEAN]
    BY <1>1 DEF Typed
  <2>2. visiting.todo \in Seq(Peers)
    BY <2>1
  <2> QED BY <2>1, <2>2 DEF Range
<1> QED BY <1>1, <1>3, <1>4, <1>5 DEF Typed, TypeOK

\* A packet that has no reference is in no list.
LEMMA IInvNowhere ==
    ASSUME IInv, NEW p \in Packets
    PROVE  /\ referenceCount[p] = 0 => \A q \in Peers : Holding(p, Commands(q)) = 0
           /\ referenceCount[p] > 0 /\ broadcasting.pkt # p
                 => \E q \in Peers : Holding(p, Commands(q)) > 0
<1> DEFINE a == Cardinality(PlacesIn(Lists, Peers, p))
<1>1. /\ Lists \in [Peers -> Seq(CommandSpace)] /\ IsFiniteSet(Peers)
      /\ \A q \in Peers : Lists[q] = Commands(q)
  BY ListsTyped, PlacesOfLists DEF IInv
<1>2. referenceCount[p] = a + (IF broadcasting.pkt = p /\ kind[p].instant THEN 1 ELSE 0)
  BY PlacesOfLists DEF IInv, ReferencesExact, Uses
<1>3. PICK r \in Peers : TRUE
  BY PacketsAssumption DEF Peers
<1>4. a \in Nat /\ IsFiniteSet(PlacesIn(Lists, Peers, p))
  BY <1>1, <1>3, PlacesSplit
<1>5. ASSUME referenceCount[p] = 0, NEW q \in Peers PROVE Holding(p, Commands(q)) = 0
  <2>1. a = 0
    <3> HIDE DEF a
    <3> QED BY <1>2, <1>4, <1>5
  <2>2. /\ Cardinality(PlacesIn(Lists, Peers \ {q}, p)) \in Nat
        /\ a = Cardinality(PlacesIn(Lists, Peers \ {q}, p)) + Holding(p, Lists[q])
    BY <1>1, PlacesSplit
  <2>3. Holding(p, Lists[q]) \in Nat
    BY <1>1, HoldingType
  <2> HIDE DEF a
  <2> QED BY <2>1, <2>2, <2>3, <1>1
<1>6. ASSUME referenceCount[p] > 0, broadcasting.pkt # p
      PROVE  \E q \in Peers : Holding(p, Commands(q)) > 0
  <2>1. a > 0
    <3> HIDE DEF a
    <3> QED BY <1>2, <1>4, <1>6
  <2>2. PlacesIn(Lists, Peers, p) # {}
    BY <2>1, FS_EmptySet
  <2>3. PICK q \in Peers : \E i \in DOMAIN Lists[q] : Lists[q][i].pkt = p
    BY <2>2 DEF PlacesIn
  <2>4. Lists[q] \in Seq(CommandSpace)
    BY <1>1
  <2>5. Holding(p, Lists[q]) \in Nat /\ Holding(p, Lists[q]) # 0
    <3> DEFINE s == Lists[q]
    <3>1. s \in Seq(CommandSpace) /\ \E i \in DOMAIN s : s[i].pkt = p
      BY <2>3, <2>4
    <3> HIDE DEF s
    <3>2. PICK i \in DOMAIN s : s[i].pkt = p
      BY <3>1
    <3>3. i \in 1 .. Len(s)
      BY <3>1, <3>2
    <3>4. Holding(p, s) \in Nat /\ (Holding(p, s) = 0 => \A j \in 1 .. Len(s) : s[j].pkt # p)
      BY <3>1, HoldingType
    <3>5. Holding(p, s) \in Nat /\ Holding(p, s) # 0
      BY <3>2, <3>3, <3>4
    <3> QED BY <3>5 DEF s
  <2> QED BY <2>5, <1>1
<1> QED BY <1>5, <1>6

\* A packet is destroyed once, when nothing has it.
LEMMA IInvDestroyedOnce == IInv => DestroyedOnce
<1> SUFFICES ASSUME IInv, NEW p \in Packets
             PROVE  /\ destroyed[p] <= 1
                    /\ destroyed[p] = 1 => /\ \A peer \in Peers : Holding(p, Commands(peer)) = 0
                                           /\ broadcasting.pkt # p
                                           /\ owner[p] = "ENet"
                    /\ SentReachedAPeer(p)
  BY DEF DestroyedOnce
<1>1. Lives(p) /\ SentReachedAPeer(p)
  BY DEF IInv
<1>2. destroyed[p] \in {0, 1}
  BY <1>1 DEF Lives
<1>3. destroyed[p] = 1 => referenceCount[p] = 0 /\ owner[p] = "ENet" /\ broadcasting.pkt # p
  BY <1>1 DEF Lives
<1> QED BY <1>1, <1>2, <1>3, IInvNowhere

\* What ENet has is in a list, or destroyed.
LEMMA IInvNothingLeaks == IInv => NothingLeaks
<1> SUFFICES ASSUME IInv, Idle, NEW p \in Packets, owner[p] = "ENet", destroyed[p] # 1
             PROVE  \E peer \in Peers : Holding(p, Commands(peer)) > 0
  BY DEF NothingLeaks
<1>1. broadcasting.pkt = 0 /\ p # 0
  BY DEF Idle, Nobody, Packets
<1>2. Lives(p) /\ referenceCount[p] \in Nat
  BY DEF IInv, Typed
<1>3. referenceCount[p] > 0
  BY <1>1, <1>2 DEF Lives
<1> QED BY <1>1, <1>3, IInvNowhere

\* The invariant holds in every reachable state.
THEOREM InvariantHolds == Spec => []IInv
BY InitIInv, NextIInv, PTL DEF Spec

\* Every variable has its type, and a list has only the commands that belong in it.
THEOREM TypeCorrect == Spec => []TypeOK
BY InvariantHolds, IInvTypeOK, PTL

\* referenceCount is the number of commands that point at the packet, in all lists
\* of all peers, and one more while enet_host_broadcast guards it: throughout
\* drops, timeouts, acknowledgements, resets and broadcasts of any batch.
THEOREM ReferencesAreExact == Spec => []ReferencesExact
<1>1. IInv => ReferencesExact
  BY DEF IInv
<1> QED BY <1>1, InvariantHolds, PTL

\* enet_packet_destroy is called once at most for a packet, never while a list, a
\* broadcast or the application has it; one flagged as sent did reach a peer.
THEOREM PacketsDestroyedOnce == Spec => []DestroyedOnce
BY InvariantHolds, IInvDestroyedOnce, PTL

\* When ENet returns, a packet it took is in some list or was destroyed.
THEOREM NoPacketLeaks == Spec => []NothingLeaks
BY InvariantHolds, IInvNothingLeaks, PTL

\* No fragment goes to a peer that was not given the first one of its packet.
THEOREM PacketsDroppedWhole == Spec => []DroppedWhole
<1>1. IInv => DroppedWhole
  BY DEF IInv, InOrder, Whole, DroppedWhole
<1> QED BY <1>1, InvariantHolds, PTL
=============================================================================
