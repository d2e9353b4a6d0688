-------------------------- MODULE DataProofs --------------------------
(***************************************************************************)
(* Lemmas about data that the proofs of several components use: induction  *)
(* and recursion up to a natural number, what Chosen and Kept return, and  *)
(* sums over finite sets.                                                  *)
(* The induction theorems of the library take a predicate as a parameter;  *)
(* here it is a set, and the least number outside it does the work.        *)
(***************************************************************************)
EXTENDS SubSequences, Integers, SequenceTheorems, FiniteSetTheorems, TLAPS

\* A set of natural numbers has a least element.
LEMMA LeastNat ==
    ASSUME NEW T \in SUBSET Nat, T # {}
    PROVE  \E x \in T : \A y \in T : x <= y
<1> DEFINE R == OpToRel(<, Nat)
<1>1. IsWellFoundedOn(R, Nat)
  BY NatLessThanWellFounded
<1>2. ASSUME NEW x \in Nat, NEW y \in Nat, x < y
      PROVE  <<x, y>> \in R
  <2>1. <<x, y>> \in Nat \X Nat /\ <<x, y>>[1] < <<x, y>>[2]
    BY <1>2
  <2> QED BY <2>1 DEF OpToRel
<1>3. PICK x \in T : \A y \in T : ~ (<<y, x>> \in R)
  <2> HIDE DEF R
  <2> QED BY <1>1, WFMin
<1>4. ASSUME NEW y \in T PROVE x <= y
  <2>1. x \in Nat /\ y \in Nat
    OBVIOUS
  <2>2. CASE y < x
    BY <2>1, <2>2, <1>2, <1>3
  <2> QED BY <2>1, <2>2
<1> QED BY <1>4

\* Induction up to n. The set stands for the predicate, which need not be a parameter.
LEMMA Induct ==
    ASSUME NEW n \in Nat, NEW S, 0 \in S,
           \A i \in 1 .. n : i - 1 \in S => i \in S
    PROVE  0 .. n \subseteq S
<1> DEFINE T == (0 .. n) \ S
<1> SUFFICES ASSUME T # {} PROVE FALSE
  OBVIOUS
<1>1. PICK x \in T : \A y \in T : x <= y
  <2>1. T \in SUBSET Nat
    OBVIOUS
  <2> HIDE DEF T
  <2> QED BY <2>1, LeastNat
<1>2. x \in 1 .. n /\ x \notin S
  OBVIOUS
<1>3. x - 1 \in 0 .. n /\ ~ (x <= x - 1)
  BY <1>2
<1>4. x - 1 \in S
  BY <1>1, <1>3
<1> QED BY <1>2, <1>4

\* f is the function on 0 .. n that starts with b and takes the steps.
Computes(f, Q, n, b, step) ==
    /\ f \in [0 .. n -> Q]
    /\ f[0] = b
    /\ \A i \in 1 .. n : f[i] = step[i][f[i - 1]]

\* A function can be computed step by step.
LEMMA Recursion ==
    ASSUME NEW Q, NEW n \in Nat, NEW b \in Q, NEW step \in [1 .. n -> [Q -> Q]]
    PROVE  \E f : Computes(f, Q, n, b, step)
<1> DEFINE Good(m) == \E f \in [0 .. m -> Q] :
               /\ f[0] = b
               /\ \A i \in 1 .. m : f[i] = step[i][f[i - 1]]
           S == {m \in 0 .. n : Good(m)}
<1>1. Good(0)
  <2> DEFINE f == [i \in 0 .. 0 |-> b]
  <2>1. f \in [0 .. 0 -> Q]
    OBVIOUS
  <2>2. f[0] = b /\ \A i \in 1 .. 0 : f[i] = step[i][f[i - 1]]
    OBVIOUS
  <2> HIDE DEF f
  <2> QED BY <2>1, <2>2
<1>2. ASSUME NEW m \in 1 .. n, Good(m - 1)
      PROVE  Good(m)
  <2>1. PICK g \in [0 .. m - 1 -> Q] :
                /\ g[0] = b
                /\ \A i \in 1 .. m - 1 : g[i] = step[i][g[i - 1]]
    BY <1>2
  <2> DEFINE f == [i \in 0 .. m |-> IF i = m THEN step[m][g[m - 1]] ELSE g[i]]
  <2>2. g[m - 1] \in Q /\ step[m][g[m - 1]] \in Q
    OBVIOUS
  <2>3. f \in [0 .. m -> Q]
    BY <2>2
  <2>4. f[0] = b
    BY <2>1
  <2>5. ASSUME NEW i \in 1 .. m PROVE f[i] = step[i][f[i - 1]]
    <3>1. CASE i = m
      BY <3>1
    <3>2. CASE i # m
      <4>1. i \in 1 .. m - 1 /\ f[i] = g[i] /\ f[i - 1] = g[i - 1]
        BY <3>2
      <4> QED BY <4>1, <2>1
    <3> QED BY <3>1, <3>2
  <2> HIDE DEF f
  <2> QED BY <2>3, <2>4, <2>5
<1>3. Good(n)
  <2>1. 0 \in S /\ \A m \in 1 .. n : m - 1 \in S => m \in S
    <3> HIDE DEF Good
    <3> QED BY <1>1, <1>2
  <2> HIDE DEF S
  <2>2. 0 .. n \subseteq S
    BY <2>1, Induct
  <2>3. n \in S
    BY <2>2
  <2> HIDE DEF Good
  <2> QED BY <2>3 DEF S
<1> QED BY <1>3 DEF Computes

\* chosen is the function that the definition of Chosen(s, C) uses.
Chooses(chosen, S, s, C) ==
    /\ chosen \in [0 .. Len(s) -> Seq(S)]
    /\ Chosen(s, C) = chosen[Len(s)]
    /\ chosen[0] = <<>>
    /\ \A i \in 1 .. Len(s) :
          chosen[i] = IF i \in C THEN Append(chosen[i - 1], s[i]) ELSE chosen[i - 1]

\* The function in the definition of Chosen exists, with values that are sequences.
LEMMA ChosenSteps ==
    ASSUME NEW S, NEW s \in Seq(S), NEW C
    PROVE  \E chosen : Chooses(chosen, S, s, C)
<1> DEFINE n == Len(s)
           step == [i \in 1 .. n |-> [q \in Seq(S) |-> IF i \in C THEN Append(q, s[i]) ELSE q]]
           Rule(f) == f = [i \in 0 .. n |-> IF i = 0 THEN <<>>
                              ELSE IF i \in C THEN Append(f[i - 1], s[i]) ELSE f[i - 1]]
<1>1. n \in Nat /\ <<>> \in Seq(S) /\ \A i \in 1 .. n : s[i] \in S
  OBVIOUS
<1>2. step \in [1 .. n -> [Seq(S) -> Seq(S)]]
  BY <1>1
<1>3. PICK f \in [0 .. n -> Seq(S)] : f[0] = <<>> /\ \A i \in 1 .. n : f[i] = step[i][f[i - 1]]
  <2> DEFINE Q == Seq(S)
             b == <<>>
  <2>1. n \in Nat /\ b \in Q /\ step \in [1 .. n -> [Q -> Q]]
    BY <1>1, <1>2
  <2>2. \E f : Computes(f, Q, n, b, step)
    <3> HIDE DEF n, step, Q, b
    <3> QED BY <2>1, Recursion
  <2> HIDE DEF n, step
  <2> QED BY <2>2 DEF Computes
<1>4. ASSUME NEW i \in 1 .. n
      PROVE  step[i][f[i - 1]] = IF i \in C THEN Append(f[i - 1], s[i]) ELSE f[i - 1]
  <2>1. f[i - 1] \in Seq(S)
    BY <1>1
  <2> QED BY <2>1
<1>5. f = [i \in 0 .. n |-> IF i = 0 THEN <<>>
                              ELSE IF i \in C THEN Append(f[i - 1], s[i]) ELSE f[i - 1]]
  <2> HIDE DEF step, n
  <2>1. ASSUME NEW i \in 0 .. n
        PROVE  f[i] = IF i = 0 THEN <<>>
                      ELSE IF i \in C THEN Append(f[i - 1], s[i]) ELSE f[i - 1]
    <3>1. CASE i = 0
      BY <3>1, <1>3
    <3>2. CASE i # 0
      <4>1. i \in 1 .. n
        BY <3>2, <1>1
      <4> QED BY <4>1, <3>2, <1>3, <1>4
    <3> QED BY <3>1, <3>2
  <2> QED BY <2>1
<1> DEFINE chosen == CHOOSE g : Rule(g)
<1>6. Rule(chosen)
  <2>1. Rule(f)
    BY <1>5
  <2> HIDE DEF Rule
  <2> QED BY <2>1
<1>7. Chosen(s, C) = chosen[n]
  BY DEF Chosen
<1>8. chosen = f
  <2> HIDE DEF chosen, step
  <2> DEFINE E == {i \in 0 .. n : chosen[i] = f[i]}
  <2>1. 0 \in E
    BY <1>3, <1>6, <1>1
  <2>2. ASSUME NEW i \in 1 .. n, i - 1 \in E PROVE i \in E
    <3> HIDE DEF n
    <3>1. i \in 0 .. n /\ i # 0 /\ chosen[i - 1] = f[i - 1]
      BY <1>1, <2>2
    <3> QED BY <3>1, <1>5, <1>6
  <2>3. 0 .. n \subseteq E
    <3> HIDE DEF E, n
    <3> QED BY <2>1, <2>2, <1>1, Induct
  <2>4. \A i \in 0 .. n : chosen[i] = f[i]
    BY <2>3
  <2> QED BY <2>4, <1>6
<1> HIDE DEF chosen, step
<1> QED BY <1>3, <1>4, <1>7, <1>8 DEF Chooses

\* t consists of the elements of s at the first i places that are in C, which e gives.
Embeds(e, t, s, i, C) ==
    /\ e \in [1 .. Len(t) -> 1 .. i]
    /\ \A k \in 1 .. Len(t) : t[k] = s[e[k]] /\ e[k] \in C
    /\ \A k, l \in 1 .. Len(t) : k < l => e[k] < e[l]
    /\ \A j \in 1 .. i : j \in C => \E k \in 1 .. Len(t) : e[k] = j

\* What is chosen is embedded in the sequence, its order the same.
LEMMA ChosenEmbeds ==
    ASSUME NEW S, NEW s \in Seq(S), NEW C
    PROVE  /\ Chosen(s, C) \in Seq(S)
           /\ \E e : Embeds(e, Chosen(s, C), s, Len(s), C)
<1>0. PICK chosen : Chooses(chosen, S, s, C)
  BY ChosenSteps
<1>1. /\ chosen \in [0 .. Len(s) -> Seq(S)]
      /\ Chosen(s, C) = chosen[Len(s)]
      /\ chosen[0] = <<>>
      /\ \A i \in 1 .. Len(s) :
            chosen[i] = IF i \in C THEN Append(chosen[i - 1], s[i]) ELSE chosen[i - 1]
  BY <1>0 DEF Chooses
<1> DEFINE Good(i) == \E e : Embeds(e, chosen[i], s, i, C)
           E == {i \in 0 .. Len(s) : Good(i)}
<1>2. Good(0)
  <2>1. Embeds(<<>>, chosen[0], s, 0, C)
    <3>1. Len(chosen[0]) = 0
      BY <1>1
    <3>2. <<>> \in [1 .. 0 -> 1 .. 0]
      OBVIOUS
    <3> QED BY <3>1, <3>2 DEF Embeds
  <2> QED BY <2>1
<1>3. ASSUME NEW i \in 1 .. Len(s), Good(i - 1)
      PROVE  Good(i)
  <2>1. PICK e : Embeds(e, chosen[i - 1], s, i - 1, C)
    BY <1>3
  <2> DEFINE n == Len(chosen[i - 1])
  <2>2. chosen[i - 1] \in Seq(S) /\ n \in Nat /\ s[i] \in S /\ i \in Nat \ {0}
    BY <1>1
  <2>3. CASE i \notin C
    <3>1. chosen[i] = chosen[i - 1]
      BY <2>3, <1>1
    <3>2. Embeds(e, chosen[i], s, i, C)
      BY <2>1, <2>2, <2>3, <3>1 DEF Embeds
    <3> QED BY <3>2
  <2>4. CASE i \in C
    <3>1. chosen[i] = Append(chosen[i - 1], s[i])
      BY <2>4, <1>1
    <3>2. /\ Len(chosen[i]) = n + 1
          /\ chosen[i][n + 1] = s[i]
          /\ \A k \in 1 .. n : chosen[i][k] = chosen[i - 1][k]
      BY <3>1, <2>2
    <3>a. /\ e \in [1 .. n -> 1 .. i - 1]
          /\ \A k \in 1 .. n : chosen[i - 1][k] = s[e[k]] /\ e[k] \in C
          /\ \A k, l \in 1 .. n : k < l => e[k] < e[l]
          /\ \A j \in 1 .. i - 1 : j \in C => \E k \in 1 .. n : e[k] = j
      BY <2>1 DEF Embeds
    <3> HIDE DEF n
    <3> DEFINE d == [k \in 1 .. n + 1 |-> IF k = n + 1 THEN i ELSE e[k]]
    <3>3. \A k \in 1 .. n : d[k] = e[k] /\ e[k] \in 1 .. i - 1
      <4> TAKE k \in 1 .. n
      <4>1. k \in 1 .. n + 1 /\ k # n + 1
        BY <2>2
      <4>2. d[k] = e[k]
        BY <4>1
      <4>3. e[k] \in 1 .. i - 1
        BY <3>a
      <4> QED BY <4>2, <4>3
    <3>4. d[n + 1] = i
      BY <2>2
    <3>5. d \in [1 .. n + 1 -> 1 .. i]
      <4>1. ASSUME NEW k \in 1 .. n + 1
            PROVE  (IF k = n + 1 THEN i ELSE e[k]) \in 1 .. i
        <5>1. CASE k = n + 1
          BY <5>1, <2>2
        <5>2. CASE k # n + 1
          <6>1. k \in 1 .. n
            BY <5>2, <2>2
          <6> QED BY <6>1, <5>2, <3>a, <2>2
        <5> QED BY <5>1, <5>2
      <4> QED BY <4>1
    <3> HIDE DEF d
    <3>6. \A k \in 1 .. n + 1 : chosen[i][k] = s[d[k]] /\ d[k] \in C
      <4> TAKE k \in 1 .. n + 1
      <4>1. CASE k = n + 1
        BY <4>1, <3>2, <3>4, <2>4
      <4>2. CASE k # n + 1
        <5>1. k \in 1 .. n
          BY <4>2, <2>2
        <5> QED BY <5>1, <3>2, <3>3, <3>a
      <4> QED BY <4>1, <4>2
    <3>7. \A k, l \in 1 .. n + 1 : k < l => d[k] < d[l]
      <4> TAKE k, l \in 1 .. n + 1
      <4> HAVE k < l
      <4>1. k \in 1 .. n
        BY <2>2
      <4>2. CASE l = n + 1
        BY <4>1, <4>2, <3>3, <3>4, <2>2
      <4>3. CASE l # n + 1
        <5>1. l \in 1 .. n
          BY <4>3, <2>2
        <5> QED BY <4>1, <5>1, <3>3, <3>a
      <4> QED BY <4>2, <4>3
    <3>8. \A j \in 1 .. i : j \in C => \E k \in 1 .. n + 1 : d[k] = j
      <4> TAKE j \in 1 .. i
      <4> HAVE j \in C
      <4>1. CASE j = i
        BY <4>1, <3>4, <2>2
      <4>2. CASE j # i
        <5>1. j \in 1 .. i - 1
          BY <4>2, <2>2
        <5>2. PICK k \in 1 .. n : e[k] = j
          BY <5>1, <3>a
        <5> QED BY <5>2, <3>3, <2>2
      <4> QED BY <4>1, <4>2
    <3>9. Embeds(d, chosen[i], s, i, C)
      BY <3>2, <3>5, <3>6, <3>7, <3>8 DEF Embeds
    <3> QED BY <3>9
  <2> QED BY <2>3, <2>4
<1>4. Len(s) \in E
  <2> HIDE DEF Good
  <2>1. 0 \in E /\ \A i \in 1 .. Len(s) : i - 1 \in E => i \in E
    BY <1>2, <1>3
  <2> HIDE DEF E
  <2>2. 0 .. Len(s) \subseteq E
    <3>1. Len(s) \in Nat
      OBVIOUS
    <3> QED BY <3>1, <2>1, Induct
  <2> QED BY <2>2
<1> QED BY <1>1, <1>4

\* t has the elements of s that are in T and no others, and repeats none
\* unless s does.
Selects(t, s, T) ==
    /\ \A k \in 1 .. Len(t) : \E i \in 1 .. Len(s) : t[k] = s[i] /\ s[i] \in T
    /\ \A i \in 1 .. Len(s) : s[i] \in T => \E k \in 1 .. Len(t) : t[k] = s[i]
    /\ (\A i, j \in 1 .. Len(s) : s[i] = s[j] => i = j)
       => \A k, l \in 1 .. Len(t) : t[k] = t[l] => k = l

\* What is kept are the elements of the set, all of them, each as often as it was.
LEMMA KeptProperties ==
    ASSUME NEW S, NEW s \in Seq(S), NEW T
    PROVE  /\ Kept(s, T) \in Seq(S)
           /\ Selects(Kept(s, T), s, T)
<1> DEFINE t == Kept(s, T)
           n == Len(t)
           C == {i \in 1 .. Len(s) : s[i] \in T}
<1>0. t = Chosen(s, C)
  <2>1. C = {i \in DOMAIN s : s[i] \in T}
    OBVIOUS
  <2> HIDE DEF C
  <2> QED BY <2>1, Zenon DEF Kept
<1>1. t \in Seq(S) /\ n \in Nat
  <2> HIDE DEF t, C
  <2>1. t \in Seq(S)
    BY <1>0, ChosenEmbeds
  <2> QED BY <2>1
<1>2. PICK e : Embeds(e, t, s, Len(s), C)
  <2> HIDE DEF t, C
  <2> QED BY <1>0, ChosenEmbeds
<1>3. /\ e \in [1 .. n -> 1 .. Len(s)]
      /\ \A k \in 1 .. n : t[k] = s[e[k]] /\ s[e[k]] \in T
      /\ \A k, l \in 1 .. n : k < l => e[k] < e[l]
      /\ \A j \in 1 .. Len(s) : s[j] \in T => \E k \in 1 .. n : e[k] = j
  BY <1>2 DEF Embeds
<1> HIDE DEF t, n
<1>4. \A k \in 1 .. n : \E i \in 1 .. Len(s) : t[k] = s[i] /\ s[i] \in T
  BY <1>3
<1>5. \A i \in 1 .. Len(s) : s[i] \in T => \E k \in 1 .. n : t[k] = s[i]
  BY <1>3
<1>6. ASSUME \A i, j \in 1 .. Len(s) : s[i] = s[j] => i = j,
             NEW k \in 1 .. n, NEW l \in 1 .. n, t[k] = t[l]
      PROVE  k = l
  <2>1. e[k] = e[l] /\ e[k] \in Nat
    BY <1>3, <1>6
  <2>2. ~ (k < l) /\ ~ (l < k)
    BY <1>3, <2>1
  <2> QED BY <2>2, <1>1
<1> QED BY <1>1, <1>4, <1>5, <1>6 DEF n, t, Selects

-----------------------------------------------------------------------------
(* Sums over finite sets *)

\* Induction over the subsets of a finite set: each has what those with an element
\* less have.
LEMMA SubsetInduct ==
    ASSUME NEW S, IsFiniteSet(S), NEW G,
           \A T \in SUBSET S : (\A x \in T : T \ {x} \in G) => T \in G
    PROVE  SUBSET S \subseteq G
<1> DEFINE n == Cardinality(S)
           Small(m) == \A T \in SUBSET S : Cardinality(T) = m => T \in G
           N == {m \in 0 .. n : Small(m)}
<1>1. n \in Nat
  BY FS_CardinalityType
<1>2. \A T \in SUBSET S : IsFiniteSet(T) /\ Cardinality(T) \in 0 .. n
  <2> TAKE T \in SUBSET S
  <2>1. IsFiniteSet(T) /\ Cardinality(T) <= n
    BY FS_Subset
  <2>2. Cardinality(T) \in Nat
    BY <2>1, FS_CardinalityType
  <2> QED BY <1>1, <2>1, <2>2
<1>3. Small(0)
  <2> TAKE T \in SUBSET S
  <2> HAVE Cardinality(T) = 0
  <2>1. T = {}
    BY <1>2, FS_EmptySet
  <2> QED BY <2>1
<1>4. ASSUME NEW m \in 1 .. n, Small(m - 1)
      PROVE  Small(m)
  <2> TAKE T \in SUBSET S
  <2> HAVE Cardinality(T) = m
  <2>1. ASSUME NEW x \in T PROVE T \ {x} \in G
    <3>1. Cardinality(T \ {x}) = m - 1
      BY <1>2, FS_RemoveElement
    <3>2. T \ {x} \in SUBSET S
      OBVIOUS
    <3> QED BY <1>4, <3>1, <3>2
  <2> QED BY <2>1
<1>5. 0 .. n \subseteq N
  <2>1. 0 \in N
    BY <1>1, <1>3
  <2>2. \A m \in 1 .. n : m - 1 \in N => m \in N
    <3> HIDE DEF Small
    <3> QED BY <1>1, <1>4
  <2> HIDE DEF N
  <2> QED BY <1>1, <2>1, <2>2, Induct
<1>6. ASSUME NEW T \in SUBSET S PROVE T \in G
  <2>1. Cardinality(T) \in N
    BY <1>2, <1>5
  <2> QED BY <2>1
<1> QED BY <1>6

\* Induction over the subsets of a finite set, one element more at a time.
LEMMA SetInduct ==
    ASSUME NEW S, IsFiniteSet(S), NEW G, {} \in G,
           \A T \in SUBSET S : \A x \in S \ T : T \in G => T \cup {x} \in G
    PROVE  SUBSET S \subseteq G
<1>1. ASSUME NEW T \in SUBSET S, \A x \in T : T \ {x} \in G
      PROVE  T \in G
  <2>1. CASE T = {}
    BY <2>1
  <2>2. CASE T # {}
    <3>1. PICK x \in T : TRUE
      BY <2>2
    <3>2. T \ {x} \in SUBSET S /\ x \in S \ (T \ {x}) /\ T = (T \ {x}) \cup {x}
      OBVIOUS
    <3>3. T \ {x} \in G
      BY <1>1
    <3>4. (T \ {x}) \cup {x} \in G
      BY <3>2, <3>3
    <3> QED BY <3>2, <3>4
  <2> QED BY <2>1, <2>2
<1> QED BY <1>1, SubsetInduct

\* sum adds up f over the subsets of S, as the definition of SumFunctionOnSet does.
Adds(sum, f, S) ==
    sum = [T \in SUBSET S |->
              IF T = {} THEN 0
              ELSE f[CHOOSE x \in T : TRUE] + sum[T \ {CHOOSE x \in T : TRUE}]]

\* SumFunctionOnSet without the operators that it takes as parameters.
LEMMA SumDefined ==
    ASSUME NEW f, NEW S
    PROVE  SumFunctionOnSet(f, S) = (CHOOSE sum : Adds(sum, f, S))[S]
BY Zenon DEF SumFunctionOnSet, FoldFunctionOnSet, MapThenFoldSet, Adds

\* That function exists.
LEMMA SumExists ==
    ASSUME NEW D, NEW f \in [D -> Int], NEW S \in SUBSET D, IsFiniteSet(S)
    PROVE  \E sum \in [SUBSET S -> Int] : Adds(sum, f, S)
<1> DEFINE c(T) == CHOOSE x \in T : TRUE
           Q == [SUBSET S -> Int]
           n == Cardinality(S)
           b == [T \in SUBSET S |-> 0]
           next(q) == [T \in SUBSET S |-> IF T = {} THEN 0 ELSE f[c(T)] + q[T \ {c(T)}]]
           step == [i \in 1 .. n + 1 |-> [q \in Q |-> next(q)]]
<1>1. n \in Nat
  BY FS_CardinalityType
<1>2. \A T \in SUBSET S :
          /\ IsFiniteSet(T) /\ Cardinality(T) \in 0 .. n
          /\ T # {} => /\ c(T) \in T /\ T \ {c(T)} \in SUBSET S
                       /\ Cardinality(T \ {c(T)}) = Cardinality(T) - 1
                       /\ f[c(T)] \in Int
  <2> TAKE T \in SUBSET S
  <2>1. IsFiniteSet(T) /\ Cardinality(T) <= n
    BY FS_Subset
  <2>2. Cardinality(T) \in Nat
    BY <2>1, FS_CardinalityType
  <2>3. ASSUME T # {} PROVE c(T) \in T
    BY <2>3
  <2>4. ASSUME T # {} PROVE Cardinality(T \ {c(T)}) = Cardinality(T) - 1
    <3> HIDE DEF c
    <3> QED BY <2>1, <2>3, <2>4, FS_RemoveElement
  <2> HIDE DEF c
  <2> QED BY <1>1, <2>1, <2>2, <2>3, <2>4
<1>3. \A q \in Q : next(q) \in Q
  <2> TAKE q \in Q
  <2>1. ASSUME NEW T \in SUBSET S, T # {} PROVE f[c(T)] + q[T \ {c(T)}] \in Int
    <3>1. T \ {c(T)} \in SUBSET S /\ f[c(T)] \in Int
      BY <1>2, <2>1
    <3> HIDE DEF c
    <3>2. q[T \ {c(T)}] \in Int
      BY <3>1
    <3> QED BY <3>1, <3>2
  <2> HIDE DEF c
  <2> QED BY <2>1
<1>4. step \in [1 .. n + 1 -> [Q -> Q]] /\ b \in Q
  <2> HIDE DEF next
  <2>1. step \in [1 .. n + 1 -> [Q -> Q]]
    <3> HIDE DEF Q
    <3> QED BY <1>3
  <2>2. b \in Q
    OBVIOUS
  <2> QED BY <2>1, <2>2
<1>5. PICK g : Computes(g, Q, n + 1, b, step)
  <2> HIDE DEF step, Q, b
  <2> QED BY <1>1, <1>4, Recursion
<1>6. /\ g \in [0 .. n + 1 -> Q] /\ g[0] = b
      /\ \A i \in 1 .. n + 1 : g[i - 1] \in Q /\ g[i] = next(g[i - 1])
  <2>1. /\ g \in [0 .. n + 1 -> Q] /\ g[0] = b
        /\ \A i \in 1 .. n + 1 : g[i] = step[i][g[i - 1]]
    BY <1>5 DEF Computes
  <2>2. ASSUME NEW i \in 1 .. n + 1 PROVE g[i - 1] \in Q
    <3>1. i - 1 \in 0 .. n + 1
      BY <1>1
    <3> HIDE DEF Q
    <3> QED BY <2>1, <3>1
  <2>3. \A i \in 1 .. n + 1 : \A q \in Q : step[i][q] = next(q)
    <3> HIDE DEF Q, next
    <3> QED OBVIOUS
  <2> HIDE DEF Q, next, step
  <2> QED BY <2>1, <2>2, <2>3
<1> HIDE DEF c
<1>7. \A i \in 1 .. n + 1 : \A T \in SUBSET S :
          g[i][T] = IF T = {} THEN 0 ELSE f[c(T)] + g[i - 1][T \ {c(T)}]
  <2>1. \A q : \A T \in SUBSET S :
            next(q)[T] = IF T = {} THEN 0 ELSE f[c(T)] + q[T \ {c(T)}]
    OBVIOUS
  <2>2. \A i \in 1 .. n + 1 : g[i] = next(g[i - 1])
    BY <1>6
  <2> TAKE i \in 1 .. n + 1
  <2> TAKE T \in SUBSET S
  <2> HIDE DEF next
  <2>3. g[i] = next(g[i - 1])
    BY <2>2
  <2>4. next(g[i - 1])[T] = IF T = {} THEN 0 ELSE f[c(T)] + g[i - 1][T \ {c(T)}]
    BY <2>1
  <2> QED BY <2>3, <2>4, Zenon
<1> DEFINE Stable(i) == \A T \in SUBSET S : Cardinality(T) <= i => g[i][T] = g[i + 1][T]
           N == {i \in 0 .. n : Stable(i)}
<1>8. Stable(0)
  <2> TAKE T \in SUBSET S
  <2> HAVE Cardinality(T) <= 0
  <2>1. T = {}
    <3>1. IsFiniteSet(T) /\ Cardinality(T) \in 0 .. n
      BY <1>2
    <3>2. Cardinality(T) = 0
      BY <1>1, <3>1
    <3> QED BY <3>1, <3>2, FS_EmptySet
  <2>2. g[0][T] = 0
    BY <1>6
  <2>3. g[1][T] = 0
    <3>1. 1 \in 1 .. n + 1
      BY <1>1
    <3> QED BY <1>7, <2>1, <3>1
  <2> QED BY <2>2, <2>3
<1>9. ASSUME NEW i \in 1 .. n, Stable(i - 1)
      PROVE  Stable(i)
  <2> TAKE T \in SUBSET S
  <2> HAVE Cardinality(T) <= i
  <2>0. i \in 1 .. n + 1 /\ i + 1 \in 1 .. n + 1 /\ (i + 1) - 1 = i /\ (i - 1) + 1 = i /\ i \in Int
    BY <1>1
  <2>1. CASE T = {}
    BY <1>7, <2>0, <2>1
  <2>2. CASE T # {}
    <3> DEFINE R == T \ {c(T)}
    <3>1. R \in SUBSET S /\ Cardinality(R) <= i - 1
      BY <1>1, <1>2, <2>2, <2>0
    <3>2. g[i - 1][R] = g[i][R]
      BY <1>9, <2>0, <3>1
    <3>3. g[i][T] = f[c(T)] + g[i - 1][R]
      BY <1>7, <2>0, <2>2
    <3>4. g[i + 1][T] = f[c(T)] + g[i][R]
      BY <1>7, <2>0, <2>2
    <3> QED BY <3>2, <3>3, <3>4
  <2> QED BY <2>1, <2>2
<1>10. n \in N
  <2>1. 0 \in N
    BY <1>1, <1>8
  <2>2. \A i \in 1 .. n : i - 1 \in N => i \in N
    <3> HIDE DEF Stable
    <3> QED BY <1>1, <1>9
  <2> HIDE DEF N
  <2>3. 0 .. n \subseteq N
    BY <1>1, <2>1, <2>2, Induct
  <2> QED BY <1>1, <2>3
<1>11. \A T \in SUBSET S : g[n][T] = IF T = {} THEN 0 ELSE f[c(T)] + g[n][T \ {c(T)}]
  <2> TAKE T \in SUBSET S
  <2>1. g[n][T] = g[n + 1][T]
    <3>1. Stable(n)
      BY <1>10
    <3>2. Cardinality(T) \in 0 .. n
      BY <1>2
    <3>3. Cardinality(T) <= n
      BY <1>1, <3>2
    <3> QED BY <3>1, <3>3
  <2>2. n + 1 \in 1 .. n + 1 /\ (n + 1) - 1 = n
    BY <1>1
  <2> QED BY <1>7, <2>1, <2>2
<1>12. g[n] \in [SUBSET S -> Int]
  <2>1. n \in 0 .. n + 1
    BY <1>1
  <2>2. g[n] \in Q
    <3> HIDE DEF Q
    <3> QED BY <1>6, <2>1
  <2> QED BY <2>2
<1>13. Adds(g[n], f, S)
  <2>1. g[n] = [T \in SUBSET S |-> IF T = {} THEN 0 ELSE f[c(T)] + g[n][T \ {c(T)}]]
    BY <1>11, <1>12
  <2> QED BY <2>1 DEF Adds, c
<1> QED BY <1>12, <1>13

\* The functions of two sets agree on what they have in common.
LEMMA SumAgrees ==
    ASSUME NEW D, NEW f \in [D -> Int],
           NEW S \in SUBSET D, IsFiniteSet(S), NEW U \in SUBSET D, S \subseteq U,
           NEW s, Adds(s, f, S), NEW t, Adds(t, f, U)
    PROVE  s[S] = t[S]
<1> DEFINE c(T) == CHOOSE x \in T : TRUE
           Same(T) == s[T] = t[T]
           G == {T \in SUBSET S : Same(T)}
<1>1. ASSUME NEW T \in SUBSET S
      PROVE  /\ s[T] = IF T = {} THEN 0 ELSE f[c(T)] + s[T \ {c(T)}]
             /\ t[T] = IF T = {} THEN 0 ELSE f[c(T)] + t[T \ {c(T)}]
  <2>1. T \in SUBSET U
    OBVIOUS
  <2>2. s[T] = IF T = {} THEN 0 ELSE f[c(T)] + s[T \ {c(T)}]
    BY DEF Adds
  <2>3. t[T] = IF T = {} THEN 0 ELSE f[c(T)] + t[T \ {c(T)}]
    BY <2>1 DEF Adds
  <2> QED BY <2>2, <2>3
<1>2. ASSUME NEW T \in SUBSET S, \A x \in T : T \ {x} \in G
      PROVE  T \in G
  <2>1. CASE T = {}
    BY <1>1, <2>1
  <2>2. CASE T # {}
    <3>1. c(T) \in T
      BY <2>2
    <3> HIDE DEF c
    <3>2. s[T \ {c(T)}] = t[T \ {c(T)}]
      BY <1>2, <3>1
    <3>3. s[T] = t[T]
      BY <1>1, <2>2, <3>2
    <3> QED BY <3>3
  <2> QED BY <2>1, <2>2
<1>3. SUBSET S \subseteq G
  <2> HIDE DEF G
  <2> QED BY <1>2, SubsetInduct
<1>4. S \in SUBSET S
  OBVIOUS
<1>5. S \in G
  BY <1>3, <1>4, Zenon
<1> QED BY <1>5

\* A sum over a finite set is that of one element and the rest.
LEMMA SumChosen ==
    ASSUME NEW D, NEW f \in [D -> Int], NEW S \in SUBSET D, IsFiniteSet(S)
    PROVE  /\ SumFunctionOnSet(f, S) \in Int
           /\ S = {} => SumFunctionOnSet(f, S) = 0
           /\ S # {} => SumFunctionOnSet(f, S) = f[CHOOSE x \in S : TRUE]
                            + SumFunctionOnSet(f, S \ {CHOOSE x \in S : TRUE})
<1> DEFINE c == CHOOSE x \in S : TRUE
           R == S \ {c}
           sum(T) == CHOOSE s : Adds(s, f, T)
<1>1. R \in SUBSET D /\ IsFiniteSet(R)
  BY FS_Subset
<1>2. ASSUME NEW T \in SUBSET D, IsFiniteSet(T)
      PROVE  /\ Adds(sum(T), f, T)
             /\ SumFunctionOnSet(f, T) = sum(T)[T]
  <2>1. PICK s \in [SUBSET T -> Int] : Adds(s, f, T)
    BY <1>2, SumExists
  <2> QED BY <2>1, SumDefined, Zenon
<1> HIDE DEF sum
<1>3. sum(S)[S] = IF S = {} THEN 0 ELSE f[c] + sum(S)[R]
  BY <1>2 DEF Adds
<1>4. sum(S)[R] = sum(R)[R]
  <2> HIDE DEF c
  <2>1. R \subseteq S
    OBVIOUS
  <2>2. Adds(sum(S), f, S) /\ Adds(sum(R), f, R)
    BY <1>1, <1>2
  <2> HIDE DEF R
  <2> QED BY <1>1, <2>1, <2>2, SumAgrees
<1>5. sum(S)[S] \in Int
  <2>1. PICK s \in [SUBSET S -> Int] : Adds(s, f, S)
    BY SumExists
  <2>2. sum(S)[S] = s[S]
    BY <1>2, <2>1, SumAgrees
  <2> QED BY <2>1, <2>2
<1>6. SumFunctionOnSet(f, S) = sum(S)[S] /\ SumFunctionOnSet(f, R) = sum(R)[R]
  BY <1>1, <1>2
<1> QED BY <1>3, <1>4, <1>5, <1>6

\* It does not matter which element is added first.
LEMMA SumRemove ==
    ASSUME NEW D, NEW f \in [D -> Int], NEW S \in SUBSET D, IsFiniteSet(S), NEW x \in S
    PROVE  SumFunctionOnSet(f, S) = f[x] + SumFunctionOnSet(f, S \ {x})
<1> DEFINE c(T) == CHOOSE y \in T : TRUE
           Sum(T) == SumFunctionOnSet(f, T)
           Good(T) == \A y \in T : Sum(T) = f[y] + Sum(T \ {y})
           G == {T \in SUBSET S : Good(T)}
<1>1. ASSUME NEW T \in SUBSET S
      PROVE  /\ T \in SUBSET D /\ IsFiniteSet(T)
             /\ Sum(T) \in Int
             /\ T # {} => c(T) \in T /\ Sum(T) = f[c(T)] + Sum(T \ {c(T)})
  <2>1. T \in SUBSET D /\ IsFiniteSet(T)
    BY FS_Subset
  <2> QED BY <2>1, SumChosen
<1> HIDE DEF c, Sum
<1>2. ASSUME NEW T \in SUBSET S, \A y \in T : T \ {y} \in G
      PROVE  T \in G
  <2>1. ASSUME NEW y \in T PROVE Sum(T) = f[y] + Sum(T \ {y})
    <3> DEFINE z == c(T)
               R == (T \ {z}) \ {y}
    <3>1. z \in T /\ Sum(T) = f[z] + Sum(T \ {z})
      BY <1>1
    <3>2. CASE y = z
      BY <3>1, <3>2
    <3>3. CASE y # z
      <4>1. y \in T \ {z} /\ z \in T \ {y} /\ R = (T \ {y}) \ {z}
        BY <3>1, <3>3
      <4>2. Sum(T \ {z}) = f[y] + Sum(R)
        BY <1>2, <3>1, <4>1
      <4>3. Sum(T \ {y}) = f[z] + Sum((T \ {y}) \ {z})
        BY <1>2, <4>1
      <4>4. R \in SUBSET S /\ Sum(R) \in Int /\ f[y] \in Int /\ f[z] \in Int
        BY <1>1, <3>1
      <4> HIDE DEF z, R
      <4> QED BY <3>1, <4>1, <4>2, <4>3, <4>4
    <3> QED BY <3>2, <3>3
  <2> QED BY <2>1
<1>3. SUBSET S \subseteq G
  <2> HIDE DEF G
  <2> QED BY <1>2, SubsetInduct
<1>4. S \in SUBSET S
  OBVIOUS
<1>5. S \in G
  BY <1>3, <1>4, Zenon
<1> QED BY <1>5 DEF Sum

\* Adding an element to a subset of S adds its value to the sum.
Grows(f, S) ==
    \A T \in SUBSET S : \A x \in S \ T :
        /\ SumFunctionOnSet(f, T) \in Int
        /\ SumFunctionOnSet(f, T \cup {x}) = SumFunctionOnSet(f, T) + f[x]

\* Sums grow with the set.
LEMMA SumAdd ==
    ASSUME NEW D, NEW f \in [D -> Int], NEW S \in SUBSET D, IsFiniteSet(S)
    PROVE  Grows(f, S)
<1> SUFFICES ASSUME NEW T \in SUBSET S, NEW x \in S \ T
             PROVE  /\ SumFunctionOnSet(f, T) \in Int
                    /\ SumFunctionOnSet(f, T \cup {x}) = SumFunctionOnSet(f, T) + f[x]
  BY DEF Grows
<1> DEFINE U == T \cup {x}
<1>1. T \in SUBSET D /\ IsFiniteSet(T)
  BY FS_Subset
<1>2. U \in SUBSET D /\ IsFiniteSet(U) /\ x \in U /\ U \ {x} = T
  BY <1>1, FS_AddElement
<1>3. SumFunctionOnSet(f, T) \in Int
  BY <1>1, SumChosen
<1> HIDE DEF U
<1>4. SumFunctionOnSet(f, U) = f[x] + SumFunctionOnSet(f, U \ {x})
  BY <1>2, SumRemove
<1>5. f[x] \in Int
  OBVIOUS
<1>6. SumFunctionOnSet(f, U) = SumFunctionOnSet(f, T) + f[x]
  <2>1. SumFunctionOnSet(f, U) = f[x] + SumFunctionOnSet(f, T)
    BY <1>2, <1>4, Zenon
  <2> QED BY <1>3, <1>5, <2>1
<1> QED BY <1>3, <1>6 DEF U

\* Products distribute over sums.
LEMMA Distributes ==
    ASSUME NEW a \in Int, NEW b \in Int, NEW c \in Int
    PROVE  a * (b + c) = a * b + a * c /\ a * b \in Int /\ a * c \in Int
OBVIOUS

\* What holds of every term holds of the sums: linear inequalities.
LEMMA SumCompare ==
    ASSUME NEW D, NEW f \in [D -> Int], NEW g \in [D -> Int],
           NEW S \in SUBSET D, IsFiniteSet(S),
           NEW a \in Int, NEW b \in Int, NEW k \in Int,
           \A x \in S : a * f[x] + k <= b * g[x]
    PROVE  a * SumFunctionOnSet(f, S) + k * Cardinality(S) <= b * SumFunctionOnSet(g, S)
<1> DEFINE F(T) == SumFunctionOnSet(f, T)
           H(T) == SumFunctionOnSet(g, T)
           n(T) == Cardinality(T)
           Good(T) == a * F(T) + k * n(T) <= b * H(T)
           G == {T \in SUBSET S : Good(T)}
<1>1. {} \in G
  <2>1. {} \in SUBSET D /\ IsFiniteSet({}) /\ n({}) = 0
    BY FS_EmptySet
  <2>2. F({}) = 0 /\ H({}) = 0
    BY <2>1, SumChosen
  <2> HIDE DEF F, H, n
  <2>3. Good({})
    BY <2>1, <2>2
  <2> QED BY <2>3
<1>2. \A T \in SUBSET S : \A x \in S \ T : F(T) \in Int /\ F(T \cup {x}) = F(T) + f[x]
  <2>1. Grows(f, S)
    BY SumAdd
  <2> QED BY <2>1, Zenon DEF Grows
<1>3. \A T \in SUBSET S : \A x \in S \ T : H(T) \in Int /\ H(T \cup {x}) = H(T) + g[x]
  <2>1. Grows(g, S)
    BY SumAdd
  <2> QED BY <2>1, Zenon DEF Grows
<1>4. ASSUME NEW T \in SUBSET S, NEW x \in S \ T
      PROVE  n(T) \in Int /\ n(T \cup {x}) = n(T) + 1
  <2>1. IsFiniteSet(T)
    BY FS_Subset
  <2> QED BY <2>1, FS_AddElement, FS_CardinalityType
<1> HIDE DEF F, H, n
<1>5. ASSUME NEW T \in SUBSET S, NEW x \in S \ T, T \in G
      PROVE  T \cup {x} \in G
  <2>1. /\ F(T) \in Int /\ F(T \cup {x}) = F(T) + f[x]
        /\ H(T) \in Int /\ H(T \cup {x}) = H(T) + g[x]
        /\ n(T) \in Int /\ n(T \cup {x}) = n(T) + 1
    BY <1>2, <1>3, <1>4
  <2>2. f[x] \in Int /\ g[x] \in Int /\ a * f[x] + k <= b * g[x]
    OBVIOUS
  <2>3. a * F(T) + k * n(T) <= b * H(T)
    BY <1>5
  <2>4. a * F(T \cup {x}) = a * F(T) + a * f[x] /\ a * F(T) \in Int /\ a * f[x] \in Int
    BY <2>1, <2>2, Distributes
  <2>5. b * H(T \cup {x}) = b * H(T) + b * g[x] /\ b * H(T) \in Int /\ b * g[x] \in Int
    BY <2>1, <2>2, Distributes
  <2>6. k * n(T \cup {x}) = k * n(T) + k /\ k * n(T) \in Int
    <3>1. 1 \in Int /\ n(T) \in Int
      BY <2>1
    <3>2. k * (n(T) + 1) = k * n(T) + k * 1 /\ k * n(T) \in Int
      BY <3>1, Distributes
    <3>3. k * (n(T) + 1) = k * n(T \cup {x}) /\ k * 1 = k
      BY <2>1
    <3> QED BY <3>2, <3>3
  <2>7. Good(T \cup {x})
    BY <2>2, <2>3, <2>4, <2>5, <2>6
  <2> QED BY <2>7
<1>6. SUBSET S \subseteq G
  <2> HIDE DEF G
  <2> QED BY <1>1, <1>5, SetInduct
<1>7. S \in SUBSET S
  OBVIOUS
<1>8. S \in G
  BY <1>6, <1>7, Zenon
<1> QED BY <1>8 DEF F, H, n

\* The sum over two sets without common elements.
LEMMA SumUnion ==
    ASSUME NEW D, NEW f \in [D -> Int], NEW S \in SUBSET D, IsFiniteSet(S),
           NEW R \in SUBSET D, IsFiniteSet(R), R \cap S = {}
    PROVE  SumFunctionOnSet(f, R \cup S) = SumFunctionOnSet(f, R) + SumFunctionOnSet(f, S)
<1> DEFINE F(T) == SumFunctionOnSet(f, T)
           Good(T) == F(R \cup T) = F(R) + F(T)
           G == {T \in SUBSET S : Good(T)}
<1>1. F(R) \in Int
  BY SumChosen
<1>2. {} \in G
  <2>1. {} \in SUBSET D /\ IsFiniteSet({}) /\ R \cup {} = R
    BY FS_EmptySet
  <2>2. F({}) = 0
    BY <2>1, SumChosen
  <2> HIDE DEF F
  <2>3. Good({})
    BY <1>1, <2>1, <2>2
  <2> QED BY <2>3
<1>3. \A T \in SUBSET S : \A x \in S \ T : F(T) \in Int /\ F(T \cup {x}) = F(T) + f[x]
  <2>1. Grows(f, S)
    BY SumAdd
  <2> QED BY <2>1, Zenon DEF Grows
<1>4. \A T \in SUBSET (R \cup S) : \A x \in (R \cup S) \ T : F(T \cup {x}) = F(T) + f[x]
  <2> DEFINE U == R \cup S
  <2>1. U \in SUBSET D /\ IsFiniteSet(U)
    BY FS_Union
  <2> HIDE DEF U
  <2>2. \A T \in SUBSET U : \A x \in U \ T : F(T \cup {x}) = F(T) + f[x]
    <3>1. Grows(f, U)
      BY <2>1, SumAdd
    <3> QED BY <3>1, Zenon DEF Grows
  <2> QED BY <2>2 DEF U
<1> HIDE DEF F
<1>5. ASSUME NEW T \in SUBSET S, NEW x \in S \ T, T \in G
      PROVE  T \cup {x} \in G
  <2>1. /\ R \cup T \in SUBSET (R \cup S) /\ x \in (R \cup S) \ (R \cup T)
        /\ R \cup (T \cup {x}) = (R \cup T) \cup {x}
    OBVIOUS
  <2>2. F(T) \in Int /\ F(T \cup {x}) = F(T) + f[x]
    BY <1>3
  <2>3. F((R \cup T) \cup {x}) = F(R \cup T) + f[x]
    BY <1>4, <2>1
  <2>4. F(R \cup T) = F(R) + F(T) /\ f[x] \in Int
    BY <1>5
  <2>5. F(R \cup (T \cup {x})) = F(R \cup T) + f[x]
    BY <2>1, <2>3, Zenon
  <2>6. Good(T \cup {x})
    BY <1>1, <2>2, <2>4, <2>5
  <2> QED BY <2>6
<1>6. SUBSET S \subseteq G
  <2> HIDE DEF G
  <2> QED BY <1>2, <1>5, SetInduct
<1>7. S \in SUBSET S
  OBVIOUS
<1>8. S \in G
  BY <1>6, <1>7, Zenon
<1> QED BY <1>8 DEF F

\* A sum of natural numbers is one, and depends only on the terms that are added.
LEMMA SumNat ==
    ASSUME NEW D, NEW f \in [D -> Nat], NEW S \in SUBSET D, IsFiniteSet(S)
    PROVE  SumFunctionOnSet(f, S) \in Nat
<1> DEFINE F == SumFunctionOnSet(f, S)
           n == Cardinality(S)
<1>1. f \in [D -> Int] /\ 0 \in Int /\ 1 \in Int /\ \A x \in S : 0 * f[x] + 0 <= 1 * f[x]
  OBVIOUS
<1>2. 0 * F + 0 * n <= 1 * F
  BY <1>1, SumCompare
<1>3. F \in Int
  BY <1>1, SumChosen
<1>4. n \in Int
  BY FS_CardinalityType
<1> HIDE DEF F, n
<1>5. F \in Nat
  BY <1>2, <1>3, <1>4
<1> QED BY <1>5 DEF F

\* A sum of terms that are not greater is not greater.
LEMMA SumLeq ==
    ASSUME NEW D, NEW f \in [D -> Int], NEW g \in [D -> Int],
           NEW S \in SUBSET D, IsFiniteSet(S), \A x \in S : f[x] <= g[x]
    PROVE  SumFunctionOnSet(f, S) <= SumFunctionOnSet(g, S)
<1> DEFINE F == SumFunctionOnSet(f, S)
           H == SumFunctionOnSet(g, S)
           n == Cardinality(S)
<1>1. 0 \in Int /\ 1 \in Int /\ \A x \in S : 1 * f[x] + 0 <= 1 * g[x]
  OBVIOUS
<1>2. 1 * F + 0 * n <= 1 * H
  BY <1>1, SumCompare
<1>3. F \in Int /\ H \in Int
  BY SumChosen
<1>4. n \in Int
  BY FS_CardinalityType
<1> HIDE DEF F, H, n
<1>5. F <= H
  BY <1>2, <1>3, <1>4
<1> QED BY <1>5 DEF F, H

\* Functions that agree on a set have the same sum over it.
LEMMA SumSame ==
    ASSUME NEW D, NEW f \in [D -> Int], NEW g \in [D -> Int],
           NEW S \in SUBSET D, IsFiniteSet(S), \A x \in S : f[x] = g[x]
    PROVE  SumFunctionOnSet(f, S) = SumFunctionOnSet(g, S)
<1>1. \A x \in S : f[x] <= g[x] /\ g[x] <= f[x]
  OBVIOUS
<1>2. SumFunctionOnSet(f, S) <= SumFunctionOnSet(g, S)
  BY <1>1, SumLeq
<1>3. SumFunctionOnSet(g, S) <= SumFunctionOnSet(f, S)
  BY <1>1, SumLeq
<1>4. SumFunctionOnSet(f, S) \in Int /\ SumFunctionOnSet(g, S) \in Int
  BY SumChosen
<1> QED BY <1>2, <1>3, <1>4
=============================================================================
