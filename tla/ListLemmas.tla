----------------------------- MODULE ListLemmas -----------------------------
(***************************************************************************)
(* What the proofs about lists and tables rest on: induction over numbers, *)
(* stated of a set of numbers because no prover takes a predicate as a     *)
(* parameter, and the least and the greatest of a set of indices.          *)
(***************************************************************************)
EXTENDS Integers, SequencesExt, FiniteSetsExt, WellFoundedInduction, SequenceTheorems,
        FiniteSetTheorems, TLAPS

LessThan == {pair \in Nat \X Nat : pair[1] < pair[2]}

LEMMA LessThanIsWellFounded == IsWellFoundedOn(LessThan, Nat)
<1>1. OpToRel(<, Nat) = LessThan
  BY Zenon DEF OpToRel, LessThan
<1>. QED  BY <1>1, NatLessThanWellFounded

\* A set of numbers that is not empty has a least member.
LEMMA LeastNumber ==
    ASSUME NEW S \in SUBSET Nat, S # {}
    PROVE  \E x \in S : \A y \in S : x <= y
<1>1. PICK x \in S : \A y \in S : <<y, x>> \notin LessThan
  BY LessThanIsWellFounded, WFMin
<1>2. ASSUME NEW y \in S PROVE x <= y
  <2>1. <<y, x>> \notin LessThan
    BY <1>1
  <2>. QED  BY <2>1 DEF LessThan
<1>. QED  BY <1>2

\* Induction from 0 upwards: what holds of 0 and of the successor of every number it
\* holds of, holds of every number.
LEMMA Upwards ==
    ASSUME NEW S \in SUBSET Nat, 0 \in S, \A n \in S : n + 1 \in S
    PROVE  S = Nat
<1>. SUFFICES ASSUME S # Nat PROVE FALSE
  OBVIOUS
<1>1. PICK x \in Nat \ S : \A y \in Nat \ S : x <= y
  BY LeastNumber
<1>2. x # 0 /\ x - 1 \in S
  BY <1>1
<1>3. x = (x - 1) + 1
  OBVIOUS
<1>. QED  BY <1>1, <1>2, <1>3

\* A set of numbers below a bound has a greatest member.
LEMMA GreatestNumber ==
    ASSUME NEW bound \in Nat, NEW S \in SUBSET (0 .. bound), S # {}
    PROVE  \E x \in S : \A y \in S : x >= y
<1>. DEFINE T == {bound - y : y \in S}
<1>1. T \in SUBSET Nat /\ T # {}
  <2>1. \A y \in S : bound - y \in Nat
    OBVIOUS
  <2>. QED  BY <2>1
<1>. HIDE DEF T
<1>2. PICK t \in T : \A u \in T : t <= u
  BY <1>1, LeastNumber
<1>3. PICK x \in S : t = bound - x
  BY <1>2 DEF T
<1>4. ASSUME NEW y \in S PROVE x >= y
  <2>1. bound - y \in T
    BY DEF T
  <2>. QED  BY <1>2, <1>3, <2>1
<1>. QED  BY <1>4

LEMMA MinOfIndices ==
    ASSUME NEW S \in SUBSET Nat, S # {}
    PROVE  Min(S) \in S /\ \A y \in S : Min(S) <= y
BY LeastNumber DEF Min

LEMMA MaxOfIndices ==
    ASSUME NEW bound \in Nat, NEW S \in SUBSET (0 .. bound), S # {}
    PROVE  Max(S) \in S /\ \A y \in S : Max(S) >= y
BY GreatestNumber DEF Max

\* The lesser and the greater of two numbers.
LEMMA MinOfTwo ==
    ASSUME NEW a \in Int, NEW b \in Int
    PROVE  Min({a, b}) = IF a <= b THEN a ELSE b
BY DEF Min

LEMMA MaxOfTwo ==
    ASSUME NEW a \in Int, NEW b \in Int
    PROVE  Max({a, b}) = IF a >= b THEN a ELSE b
BY DEF Max

-----------------------------------------------------------------------------
(* Lists of the members of a set.                                          *)

\* A list without repetitions that is as long as the set has members has all of them.
LEMMA ListsAllMembers ==
    ASSUME NEW S, IsFiniteSet(S), NEW s \in [1 .. Cardinality(S) -> S],
           \A j, k \in 1 .. Cardinality(S) : j < k => s[j] # s[k]
    PROVE  /\ Cardinality(S) \in Nat /\ s \in Seq(S)
           /\ Len(s) = Cardinality(S) /\ DOMAIN s = 1 .. Cardinality(S)
           /\ \A x \in S : \E k \in DOMAIN s : s[k] = x
<1>. DEFINE n == Cardinality(S)
<1>1. n \in Nat
  BY FS_CardinalityType
<1>2. IsFiniteSet(1 .. n) /\ Cardinality(1 .. n) = n
  BY <1>1, FS_Interval
<1>3. s \in [1 .. n -> S] /\ \A j, k \in 1 .. n : j < k => s[j] # s[k]
  OBVIOUS
<1>. HIDE DEF n
<1>4. s \in Injection(1 .. n, S)
  BY <1>1, <1>3 DEF Injection, IsInjective
<1>5. s \in Surjection(1 .. n, S)
  BY <1>2, <1>4, FS_Injection DEF n
<1>6. \A x \in S : \E k \in 1 .. n : s[k] = x
  BY <1>5 DEF Surjection
<1>7. s \in Seq(S) /\ Len(s) = n /\ DOMAIN s = 1 .. n
  BY <1>1, <1>3
<1>. QED  BY <1>1, <1>6, <1>7 DEF n

\* A finite set can be listed in the order of any relation that is total on it.
LEMMA CanBeSorted ==
    ASSUME NEW S, IsFiniteSet(S), NEW R \in SUBSET (S \X S),
           \A x \in S : <<x, x>> \notin R,
           \A x, y, z \in S : <<x, y>> \in R /\ <<y, z>> \in R => <<x, z>> \in R,
           \A x, y \in S : x = y \/ <<x, y>> \in R \/ <<y, x>> \in R
    PROVE  \E s \in [1 .. Cardinality(S) -> S] :
               \A j, k \in 1 .. Cardinality(S) : j < k => <<s[j], s[k]>> \in R
<1>. DEFINE n == Cardinality(S)
            UpTo(x) == {y \in S : y = x \/ <<y, x>> \in R}
            rank == [x \in S |-> Cardinality(UpTo(x))]
<1>1. n \in Nat /\ IsFiniteSet(1 .. n) /\ Cardinality(1 .. n) = n
  BY FS_CardinalityType, FS_Interval
<1>2. \A x \in S : UpTo(x) \in SUBSET S /\ x \in UpTo(x)
  OBVIOUS
<1>3. ASSUME NEW x \in S, NEW y \in S, <<x, y>> \in R
      PROVE  UpTo(x) \in SUBSET UpTo(y) /\ UpTo(x) # UpTo(y)
  <2>1. UpTo(x) \in SUBSET UpTo(y)
    BY <1>3
  <2>2. y \notin UpTo(x)
    BY <1>3
  <2>. QED  BY <2>1, <2>2
<1>. HIDE DEF UpTo
<1>4. ASSUME NEW x \in S PROVE IsFiniteSet(UpTo(x)) /\ Cardinality(UpTo(x)) \in 1 .. n
  <2>1. IsFiniteSet(UpTo(x)) /\ Cardinality(UpTo(x)) <= n
    BY <1>2, FS_Subset
  <2>2. Cardinality(UpTo(x)) \in Nat /\ Cardinality(UpTo(x)) # 0
    BY <1>2, <2>1, FS_CardinalityType, FS_EmptySet
  <2>. QED  BY <1>1, <2>1, <2>2
<1>5. ASSUME NEW x \in S, NEW y \in S, <<x, y>> \in R PROVE rank[x] < rank[y]
  <2>1. Cardinality(UpTo(x)) <= Cardinality(UpTo(y)) /\ Cardinality(UpTo(x)) # Cardinality(UpTo(y))
    BY <1>3, <1>4, <1>5, FS_Subset
  <2>2. rank[x] = Cardinality(UpTo(x)) /\ rank[y] = Cardinality(UpTo(y))
    OBVIOUS
  <2>3. rank[x] \in 1 .. n /\ rank[y] \in 1 .. n
    BY <1>4, <2>2
  <2>. QED  BY <1>1, <2>1, <2>2, <2>3
<1>6. rank \in [S -> 1 .. n]
  BY <1>4
<1>. HIDE DEF rank, n
<1>7. rank \in Surjection(S, 1 .. n)
  <2>1. rank \in Injection(S, 1 .. n)
    <3>1. ASSUME NEW x \in S, NEW y \in S, rank[x] = rank[y] PROVE x = y
      <4>1. rank[x] \in Nat /\ rank[y] \in Nat
        BY <1>1, <1>6
      <4>2. <<x, y>> \notin R /\ <<y, x>> \notin R
        BY <1>5, <3>1, <4>1
      <4>. QED  BY <4>2
    <3>. QED  BY <1>6, <3>1 DEF Injection, IsInjective
  <2>. QED  BY <1>1, <2>1, FS_Injection DEF n
<1>. DEFINE s == [k \in 1 .. n |-> CHOOSE x \in S : rank[x] = k]
<1>8. \A k \in 1 .. n : s[k] \in S /\ rank[s[k]] = k
  BY <1>7 DEF Surjection
<1>9. s \in [1 .. n -> S]
  BY <1>8
<1>. HIDE DEF s
<1>10. ASSUME NEW j \in 1 .. n, NEW k \in 1 .. n, j < k PROVE <<s[j], s[k]>> \in R
  <2>1. s[j] # s[k]
    BY <1>1, <1>8, <1>10
  <2>2. <<s[k], s[j]>> \notin R
    BY <1>1, <1>5, <1>8, <1>10
  <2>. QED  BY <1>8, <2>1, <2>2
<1>. QED  BY <1>9, <1>10 DEF n

-----------------------------------------------------------------------------
(* A list of lists, flattened.                                             *)

LEMMA FlattenGoesOn ==
    ASSUME NEW seqs, Len(seqs) \in Nat, Len(seqs) # 0
    PROVE  \E g : /\ g = [i \in 1 .. Len(seqs) |-> IF i = 1 THEN seqs[i] ELSE g[i - 1] \o seqs[i]]
                  /\ FlattenSeq(seqs) = g[Len(seqs)]
<1>. DEFINE length == Len(seqs)
            From(i, before) == IF i = 1 THEN seqs[i] ELSE before \o seqs[i]
            GoesOn(g, n) == \A i \in 1 .. n : g[i] = From(i, g[i - 1])
            S == {n \in Nat : \E g : GoesOn(g, n)}
<1>1. 0 \in S
  OBVIOUS
<1>2. ASSUME NEW n \in S PROVE n + 1 \in S
  <2>1. PICK g : GoesOn(g, n)
    BY <1>2
  <2>. DEFINE h == [i \in 0 .. n + 1 |-> IF i = n + 1 THEN From(i, g[n]) ELSE g[i]]
  <2>2. h[n + 1] = From(n + 1, h[(n + 1) - 1])
    <3>1. n \in Nat /\ n + 1 \in 0 .. n + 1 /\ n \in 0 .. n + 1 /\ n # n + 1 /\ (n + 1) - 1 = n
      OBVIOUS
    <3>2. h[n + 1] = From(n + 1, g[n]) /\ h[n] = g[n]
      <4>. HIDE DEF From
      <4>. QED  BY <3>1
    <3>. QED  BY <3>1, <3>2
  <2>3. ASSUME NEW i \in 1 .. n PROVE h[i] = From(i, h[i - 1])
    <3>1. i \in 0 .. n + 1 /\ i - 1 \in 0 .. n + 1 /\ i # n + 1 /\ i - 1 # n + 1 /\ n \in Nat
      OBVIOUS
    <3>2. h[i] = g[i] /\ h[i - 1] = g[i - 1]
      <4>. HIDE DEF From
      <4>. QED  BY <3>1
    <3>3. g[i] = From(i, g[i - 1])
      BY <2>1
    <3>. QED  BY <3>2, <3>3
  <2>4. \A i \in 1 .. n + 1 : i = n + 1 \/ i \in 1 .. n
    OBVIOUS
  <2>5. GoesOn(h, n + 1)
    <3>. HIDE DEF h, From
    <3>. QED  BY <2>2, <2>3, <2>4
  <2>6. \E k : GoesOn(k, n + 1)
    <3>. HIDE DEF h, GoesOn
    <3>. QED  BY <2>5
  <2>. HIDE DEF GoesOn
  <2>. QED  BY <2>6
<1>3. S = Nat
  <2>. HIDE DEF S
  <2>1. S \in SUBSET Nat
    BY DEF S
  <2>. QED  BY <1>1, <1>2, <2>1, Upwards
<1>4. PICK g : GoesOn(g, length)
  <2>1. length \in S
    BY <1>3
  <2>. QED  BY <2>1
<1>. DEFINE f == [i \in 1 .. length |-> g[i]]
<1>5. ASSUME NEW i \in 1 .. length PROVE f[i] = From(i, f[i - 1])
  <2>1. f[i] = From(i, g[i - 1])
    BY <1>4
  <2>2. CASE i = 1
    BY <2>1, <2>2
  <2>3. CASE i # 1
    <3>1. i - 1 \in 1 .. length
      BY <2>3
    <3>. QED  BY <2>1, <3>1
  <2>. QED  BY <2>2, <2>3
<1>6. f = [i \in 1 .. length |-> From(i, f[i - 1])]
  <2>. HIDE DEF From
  <2>. QED  BY <1>5
<1>7. \E h : h = [i \in 1 .. length |-> From(i, h[i - 1])]
  <2>. HIDE DEF f
  <2>. QED  BY <1>6
<1>. DEFINE flat == CHOOSE h : h = [i \in 1 .. length |-> From(i, h[i - 1])]
<1>8. flat = [i \in 1 .. length |-> From(i, flat[i - 1])]
  BY <1>7, Zenon
<1>9. FlattenSeq(seqs) = flat[length]
  BY DEF FlattenSeq
<1>. QED  BY <1>8, <1>9

\* The places of the first n lists in a flattened one, where before says how much is in
\* front of each list.
Placed(seqs, n, before, flat) ==
    /\ \A k \in 1 .. n :
          /\ before[k] \in Nat
          /\ \A j \in 1 .. Len(seqs[k]) :
                before[k] + j \in 1 .. Len(flat) /\ flat[before[k] + j] = seqs[k][j]
    /\ \A p \in 1 .. Len(flat) : \E k \in 1 .. n : \E j \in 1 .. Len(seqs[k]) : p = before[k] + j
    /\ \A k \in 1 .. n : Len(seqs[k]) \in Nat /\ before[k] + Len(seqs[k]) <= Len(flat)
    /\ \A k, l \in 1 .. n : k < l => before[k] + Len(seqs[k]) <= before[l]

LEMMA PlacedGrows ==
    ASSUME NEW T, NEW seqs, NEW n \in Nat, NEW before, NEW a \in Seq(T), NEW b \in Seq(T),
           Placed(seqs, n, before, a), seqs[n + 1] = b, before[n + 1] = Len(a)
    PROVE  Placed(seqs, n + 1, before, a \o b)
<1>. DEFINE c == a \o b
<1>1. /\ c \in Seq(T) /\ Len(c) = Len(a) + Len(b) /\ Len(a) \in Nat /\ Len(b) \in Nat
      /\ \A p \in 1 .. Len(a) : c[p] = a[p]
      /\ \A j \in 1 .. Len(b) : c[Len(a) + j] = b[j]
  OBVIOUS
<1>. HIDE DEF c
<1>2. ASSUME NEW k \in 1 .. n + 1
      PROVE  /\ before[k] \in Nat
             /\ \A j \in 1 .. Len(seqs[k]) :
                   before[k] + j \in 1 .. Len(c) /\ c[before[k] + j] = seqs[k][j]
  <2>1. CASE k = n + 1
    <3>1. before[k] = Len(a) /\ seqs[k] = b
      BY <2>1
    <3>2. ASSUME NEW j \in 1 .. Len(seqs[k])
          PROVE  before[k] + j \in 1 .. Len(c) /\ c[before[k] + j] = seqs[k][j]
      <4>1. j \in 1 .. Len(b) /\ Len(a) + j \in 1 .. Len(c) /\ c[Len(a) + j] = b[j]
        BY <1>1, <3>1
      <4>. QED  BY <3>1, <4>1
    <3>3. before[k] \in Nat
      BY <1>1, <3>1
    <3>. QED  BY <3>2, <3>3, Zenon
  <2>2. CASE k # n + 1
    <3>1. k \in 1 .. n
      BY <2>2
    <3>2. /\ before[k] \in Nat
          /\ \A j \in 1 .. Len(seqs[k]) :
                before[k] + j \in 1 .. Len(a) /\ a[before[k] + j] = seqs[k][j]
      BY <3>1 DEF Placed
    <3>3. ASSUME NEW j \in 1 .. Len(seqs[k])
          PROVE  before[k] + j \in 1 .. Len(c) /\ c[before[k] + j] = seqs[k][j]
      <4>1. before[k] + j \in 1 .. Len(a) /\ a[before[k] + j] = seqs[k][j]
        BY <3>2
      <4>. QED  BY <1>1, <4>1
    <3>. QED  BY <3>2, <3>3, Zenon
  <2>. QED  BY <2>1, <2>2
<1>3. ASSUME NEW p \in 1 .. Len(c)
      PROVE  \E k \in 1 .. n + 1 : \E j \in 1 .. Len(seqs[k]) : p = before[k] + j
  <2>1. CASE p <= Len(a)
    <3>1. PICK k \in 1 .. n : \E j \in 1 .. Len(seqs[k]) : p = before[k] + j
      BY <1>1, <2>1 DEF Placed
    <3>. QED  BY <3>1
  <2>2. CASE p > Len(a)
    <3>1. p - Len(a) \in 1 .. Len(b) /\ p = before[n + 1] + (p - Len(a))
      BY <1>1, <2>2
    <3>2. n + 1 \in 1 .. n + 1 /\ p - Len(a) \in 1 .. Len(seqs[n + 1])
      BY <3>1
    <3>. QED  BY <3>1, <3>2
  <2>. QED  BY <1>1, <2>1, <2>2
<1>4. ASSUME NEW k \in 1 .. n + 1
      PROVE  Len(seqs[k]) \in Nat /\ before[k] + Len(seqs[k]) <= Len(c)
  <2>1. CASE k = n + 1
    BY <1>1, <2>1
  <2>2. CASE k # n + 1
    <3>1. k \in 1 .. n
      BY <2>2
    <3>2. Len(seqs[k]) \in Nat /\ before[k] + Len(seqs[k]) <= Len(a) /\ before[k] \in Nat
      BY <3>1 DEF Placed
    <3>. QED  BY <1>1, <3>2
  <2>. QED  BY <2>1, <2>2
<1>5. ASSUME NEW k \in 1 .. n + 1, NEW l \in 1 .. n + 1, k < l
      PROVE  before[k] + Len(seqs[k]) <= before[l]
  <2>1. k \in 1 .. n
    BY <1>5
  <2>2. CASE l = n + 1
    BY <2>1, <2>2 DEF Placed
  <2>3. CASE l # n + 1
    <3>1. l \in 1 .. n
      BY <2>3
    <3>. QED  BY <1>5, <2>1, <3>1 DEF Placed
  <2>. QED  BY <2>2, <2>3
<1>. QED  BY <1>2, <1>3, <1>4, <1>5 DEF Placed, c

\* Every place of the flattened list is a place of one of the lists, in their order.
LEMMA Flattened ==
    ASSUME NEW T, NEW seqs \in Seq(Seq(T))
    PROVE  /\ FlattenSeq(seqs) \in Seq(T)
           /\ \E before : Placed(seqs, Len(seqs), before, FlattenSeq(seqs))
<1>. DEFINE length == Len(seqs)
<1>1. length \in Nat /\ DOMAIN seqs = 1 .. length /\ \A k \in 1 .. length : seqs[k] \in Seq(T)
  OBVIOUS
<1>2. CASE length = 0
  <2>1. FlattenSeq(seqs) = seqs
    BY <1>2 DEF FlattenSeq
  <2>2. seqs = <<>> /\ Len(seqs) = 0 /\ <<>> \in Seq(T) /\ Len(<<>>) = 0
    BY <1>1, <1>2
  <2>3. \A before : Placed(seqs, 0, before, <<>>)
    BY <2>2 DEF Placed
  <2>. QED  BY <2>1, <2>2, <2>3
<1>3. CASE length # 0
  <2>1. PICK g : /\ g = [i \in 1 .. length |-> IF i = 1 THEN seqs[i] ELSE g[i - 1] \o seqs[i]]
                 /\ FlattenSeq(seqs) = g[length]
    BY <1>1, <1>3, FlattenGoesOn
  <2>. DEFINE before == [k \in 1 .. length |-> IF k = 1 THEN 0 ELSE Len(g[k - 1])]
              Good(n) == g[n] \in Seq(T) /\ Placed(seqs, n, before, g[n])
              S == {n \in Nat : n + 1 \in 1 .. length => Good(n + 1)}
  <2>. HIDE DEF length
  <2>2. \A i \in 1 .. length : g[i] = IF i = 1 THEN seqs[i] ELSE g[i - 1] \o seqs[i]
    BY <2>1, Zenon
  <2>3. 0 \in S
    <3>1. 1 \in 1 .. length
      BY <1>1, <1>3
    <3>2. g[1] = seqs[1] /\ before[1] = 0 /\ seqs[1] \in Seq(T)
      BY <1>1, <2>2, <3>1
    <3>. HIDE DEF before
    <3>3. Placed(seqs, 1, before, g[1])
      BY <3>2 DEF Placed
    <3>. QED  BY <3>2, <3>3
  <2>4. ASSUME NEW n \in Nat, n \in 1 .. length, n + 1 \in 1 .. length, Good(n) PROVE Good(n + 1)
    <3>1. g[n + 1] = g[n] \o seqs[n + 1] /\ seqs[n + 1] \in Seq(T) /\ before[n + 1] = Len(g[n])
      <4>1. n + 1 # 1 /\ (n + 1) - 1 = n
        BY <2>4
      <4>2. seqs[n + 1] \in Seq(T)
        BY <1>1, <2>4
      <4>. QED  BY <2>2, <2>4, <4>1, <4>2
    <3>. HIDE DEF before
    <3>2. g[n] \in Seq(T) /\ Placed(seqs, n, before, g[n])
      BY <2>4
    <3>3. Placed(seqs, n + 1, before, g[n] \o seqs[n + 1])
      BY <3>1, <3>2, PlacedGrows
    <3>4. g[n] \o seqs[n + 1] \in Seq(T)
      BY <3>1, <3>2
    <3>. QED  BY <3>1, <3>3, <3>4
  <2>. HIDE DEF Good
  <2>5. ASSUME NEW m \in S PROVE m + 1 \in S
    <3>1. m \in Nat /\ m + 1 \in Nat
      OBVIOUS
    <3>2. ASSUME (m + 1) + 1 \in 1 .. length PROVE Good((m + 1) + 1)
      <4>1. m + 1 \in 1 .. length
        BY <1>1, <3>1, <3>2
      <4>. QED  BY <2>4, <3>1, <3>2, <4>1
    <3>. QED  BY <3>1, <3>2
  <2>6. S = Nat
    <3>1. S \in SUBSET Nat
      OBVIOUS
    <3>. HIDE DEF S
    <3>. QED  BY <2>3, <2>5, <3>1, Upwards
  <2>7. Good(length)
    <3>1. length - 1 \in Nat /\ (length - 1) + 1 = length /\ length \in 1 .. length
      BY <1>1, <1>3
    <3>2. length - 1 \in S
      BY <2>6, <3>1
    <3>. QED  BY <3>1, <3>2
  <2>. QED  BY <2>1, <2>7 DEF Good, length
<1>. QED  BY <1>2, <1>3

-----------------------------------------------------------------------------
(* Lists and functions defined by recursion.                               *)

Steps(f, first, step, n) == f[0] = first /\ \A k \in 1 .. n : f[k] = step[<<f[k - 1], k>>]

\* A step from each number to the next can be taken n times.
LEMMA Repeated ==
    ASSUME NEW D, NEW first \in D, NEW n \in Nat, NEW step \in [D \X (1 .. n) -> D]
    PROVE  \E f \in [0 .. n -> D] : Steps(f, first, step, n)
<1>. USE DEF Steps
<1>. DEFINE S == {m \in Nat : m <= n => \E f \in [0 .. m -> D] : Steps(f, first, step, m)}
<1>1. 0 \in S
  <2>. DEFINE f == [k \in 0 .. 0 |-> first]
  <2>1. f \in [0 .. 0 -> D] /\ Steps(f, first, step, 0)
    OBVIOUS
  <2>. QED  BY <2>1
<1>2. ASSUME NEW m \in S PROVE m + 1 \in S
  <2>1. m \in Nat /\ m + 1 \in Nat
    OBVIOUS
  <2>2. ASSUME m + 1 <= n PROVE \E f \in [0 .. m + 1 -> D] : Steps(f, first, step, m + 1)
    <3>1. PICK f \in [0 .. m -> D] : Steps(f, first, step, m)
      BY <2>1, <2>2
    <3>. DEFINE g == [k \in 0 .. m + 1 |-> IF k = m + 1 THEN step[<<f[m], m + 1>>] ELSE f[k]]
    <3>2. step[<<f[m], m + 1>>] \in D
      <4>1. f[m] \in D /\ m + 1 \in 1 .. n
        BY <2>1, <2>2
      <4>. QED  BY <4>1
    <3>3. ASSUME NEW k \in 0 .. m + 1 PROVE g[k] \in D
      <4>1. k = m + 1 \/ k \in 0 .. m
        BY <2>1
      <4>. QED  BY <3>2, <4>1
    <3>4. g[0] = first
      BY <2>1, <3>1
    <3>5. ASSUME NEW k \in 1 .. m + 1 PROVE g[k] = step[<<g[k - 1], k>>]
      <4>1. k - 1 \in 0 .. m /\ k - 1 \in 0 .. m + 1 /\ k \in 0 .. m + 1 /\ k - 1 # m + 1
        BY <2>1
      <4>2. g[k - 1] = f[k - 1]
        BY <4>1
      <4>3. CASE k = m + 1
        BY <2>1, <4>1, <4>2, <4>3
      <4>4. CASE k # m + 1
        <5>1. k \in 1 .. m /\ g[k] = f[k]
          BY <2>1, <4>1, <4>4
        <5>. QED  BY <3>1, <4>2, <5>1
      <4>. QED  BY <4>3, <4>4
    <3>. HIDE DEF g
    <3>6. g \in [0 .. m + 1 -> D]
      BY <3>3 DEF g
    <3>. QED  BY <3>4, <3>5, <3>6
  <2>. QED  BY <2>1, <2>2
<1>3. S = Nat
  <2>1. S \in SUBSET Nat
    OBVIOUS
  <2>. HIDE DEF S
  <2>. QED  BY <1>1, <1>2, <2>1, Upwards
<1>4. n \in S
  BY <1>3
<1>. QED  BY <1>4
=============================================================================
