-------------------------- MODULE IoatChannelProofs --------------------------
(***************************************************************************)
(* Proofs about the ioat channel, for any number of clients, descriptors   *)
(* and transactions.                                                       *)
(***************************************************************************)
EXTENDS IoatChannel, SequenceTheorems, FiniteSetTheorems,
        NaturalsInduction, TLAPS

\* A nonempty set of numbers has a smallest one.
LEMMA SmallestNat ==
  ASSUME NEW S, S \subseteq Nat, S # {}
  PROVE  \E x \in S : \A y \in S : x <= y
<1>1. IsWellFoundedOn(OpToRel(<, Nat), Nat)
  BY NatLessThanWellFounded
<1>2. PICK x \in S : \A y \in S : ~ (<<y, x>> \in OpToRel(<, Nat))
  BY <1>1, WFMin
<1>3. \A y \in S : ~ (y < x)
  BY <1>2 DEF OpToRel
<1>4. QED
  BY <1>3

\* ... and, when it is bounded, a largest one, which is what Max is.
LEMMA LargestNat ==
  ASSUME NEW n \in Nat, NEW S, S \subseteq 0..n, S # {}
  PROVE  Max(S) \in S /\ \A y \in S : y <= Max(S)
<1>1. PICK z \in {n - x : x \in S} : \A y \in {n - x : x \in S} : z <= y
  <2>1. {n - x : x \in S} \subseteq Nat /\ {n - x : x \in S} # {}
    <3>1. PICK x \in S : TRUE
      OBVIOUS
    <3>2. n - x \in {n - y : y \in S}
      BY <3>1
    <3>3. \A y \in S : n - y \in Nat
      OBVIOUS
    <3>4. QED
      BY <3>2, <3>3
  <2>2. QED
    BY <2>1, SmallestNat
<1>2. PICK x \in S : z = n - x
  BY <1>1
<1>3. \A y \in S : x >= y
  BY <1>1, <1>2
<1>4. QED
  BY <1>3 DEF Max

\* The sum that __cleanup subtracts from the active count is a number.
LEMMA SumIsInt ==
  ASSUME NEW S \in SUBSET Desc, \A d \in Desc : desc[d].tx_cnt \in Int
  PROVE  TxCount(S) \in Int
<1> DEFINE Pick(s) == CHOOSE x \in s : TRUE
           Rec(g, s) == IF s = {} THEN 0 ELSE desc[Pick(s)].tx_cnt + g[s \ {Pick(s)}]
           Low(k) == {s \in SUBSET S : Cardinality(s) <= k}
           Bad == {k \in Nat : ~ \E g \in [Low(k) -> Int] : \A s \in Low(k) : g[s] = Rec(g, s)}
<1>0. IsFiniteSet(S) /\ Cardinality(S) \in Nat
  <2>1. IsFiniteSet(Desc)
    BY FS_Interval, DescAssumption DEF Desc
  <2>2. QED
    BY <2>1, FS_Subset, FS_CardinalityType
<1>1. \A s \in SUBSET S : IsFiniteSet(s) /\ Cardinality(s) \in Nat /\ Cardinality(s) <= Cardinality(S)
  BY <1>0, FS_Subset, FS_CardinalityType
<1>2. \A s \in SUBSET S : s # {} =>
        /\ Pick(s) \in s /\ s \ {Pick(s)} \in SUBSET S
        /\ Cardinality(s \ {Pick(s)}) = Cardinality(s) - 1 /\ desc[Pick(s)].tx_cnt \in Int
  BY <1>1, FS_RemoveElement
<1>3. Bad = {}
  <2> SUFFICES ASSUME Bad # {} PROVE FALSE
    OBVIOUS
  <2>1. PICK k \in Bad : \A m \in Bad : k <= m
    <3>1. Bad \subseteq Nat
      OBVIOUS
    <3>2. QED
      BY <3>1, SmallestNat
  <2>2. k # 0
    <3> SUFFICES ASSUME k = 0 PROVE FALSE
      OBVIOUS
    <3>1. \A s \in Low(0) : s = {}
      BY <1>1, FS_EmptySet
    <3>2. [s \in Low(0) |-> 0] \in [Low(0) -> Int]
      OBVIOUS
    <3>3. \A s \in Low(0) : [t \in Low(0) |-> 0][s] = Rec([t \in Low(0) |-> 0], s)
      BY <3>1
    <3>4. QED
      BY <2>1, <3>2, <3>3
  <2>3. k - 1 \in Nat /\ k - 1 \notin Bad
    <3>1. k \in Nat
      BY <2>1
    <3> HIDE DEF Bad
    <3>2. QED
      BY <2>1, <2>2, <3>1
  <2>4. PICK g \in [Low(k - 1) -> Int] : \A s \in Low(k - 1) : g[s] = Rec(g, s)
    BY <2>3
  <2> DEFINE h == [s \in Low(k) |-> IF Cardinality(s) <= k - 1 THEN g[s] ELSE Rec(g, s)]
  <2>5. \A s \in Low(k) : s # {} => s \ {Pick(s)} \in Low(k - 1)
    BY <1>1, <1>2, <2>1
  <2>6. \A s \in Low(k) : Rec(g, s) \in Int
    <3> HIDE DEF Pick, Low
    <3> QED
      BY <1>2, <2>4, <2>5 DEF Low
  <2>7. \A s \in Low(k) : Cardinality(s) <= k - 1 => s \in Low(k - 1)
    OBVIOUS
  <2>8. h \in [Low(k) -> Int]
    <3> HIDE DEF Rec, Low
    <3> QED
      BY <2>4, <2>6, <2>7
  <2>9. \A s \in Low(k) : s # {} => s \ {Pick(s)} \in Low(k) /\ h[s \ {Pick(s)}] = g[s \ {Pick(s)}]
    <3> SUFFICES ASSUME NEW s \in Low(k), s # {}
                 PROVE  s \ {Pick(s)} \in Low(k) /\ h[s \ {Pick(s)}] = g[s \ {Pick(s)}]
      OBVIOUS
    <3>1. Cardinality(s \ {Pick(s)}) <= k - 1 /\ s \ {Pick(s)} \in SUBSET S
      BY <2>5
    <3>2. s \ {Pick(s)} \in Low(k)
      BY <3>1, <1>1, <2>1
    <3> HIDE DEF Pick, Low
    <3> QED
      BY <3>1, <3>2
  <2>10. \A s \in Low(k) : h[s] = Rec(h, s)
    <3> SUFFICES ASSUME NEW s \in Low(k) PROVE h[s] = Rec(h, s)
      OBVIOUS
    <3>1. Rec(h, s) = Rec(g, s)
      <4> HIDE DEF h, Pick, Low
      <4> QED
        BY <2>9
    <3>2. Cardinality(s) <= k - 1 => g[s] = Rec(g, s)
      BY <2>4, <2>7
    <3> HIDE DEF Rec, Low
    <3> QED
      BY <3>1, <3>2
  <2>11. QED
    <3> HIDE DEF h, Rec, Low
    <3> QED
      BY <2>1, <2>8, <2>10
<1>4. \E g : g = [s \in SUBSET S |-> Rec(g, s)]
  <2>1. Cardinality(S) \notin Bad /\ Low(Cardinality(S)) = SUBSET S
    BY <1>0, <1>1, <1>3
  <2>2. PICK g \in [SUBSET S -> Int] : \A s \in SUBSET S : g[s] = Rec(g, s)
    BY <1>0, <2>1
  <2> HIDE DEF Rec
  <2>3. g = [s \in SUBSET S |-> Rec(g, s)]
    BY <2>2
  <2>4. QED
    BY <2>3
<1> DEFINE iter == CHOOSE g : g = [s \in SUBSET S |-> Rec(g, s)]
<1>5. iter = [s \in SUBSET S |-> Rec(iter, s)]
  <2> HIDE DEF Rec
  <2> QED
    BY <1>4
<1> DEFINE Wrong == {k \in Nat : \E s \in SUBSET S : Cardinality(s) = k /\ iter[s] \notin Int}
<1>6. Wrong = {}
  <2> SUFFICES ASSUME Wrong # {} PROVE FALSE
    OBVIOUS
  <2>1. PICK k \in Wrong : \A m \in Wrong : k <= m
    <3>1. Wrong \subseteq Nat
      OBVIOUS
    <3>2. QED
      BY <3>1, SmallestNat
  <2>2. PICK s \in SUBSET S : Cardinality(s) = k /\ iter[s] \notin Int
    BY <2>1
  <2> HIDE DEF iter
  <2>3. iter[s] = Rec(iter, s)
    <3> HIDE DEF Rec
    <3> QED
      BY <1>5
  <2>4. s # {}
    BY <2>2, <2>3
  <2>5. iter[s \ {Pick(s)}] \in Int
    <3>1. Cardinality(s \ {Pick(s)}) = k - 1 /\ k - 1 \in Nat /\ s \ {Pick(s)} \in SUBSET S
      BY <1>1, <1>2, <2>2, <2>4
    <3> HIDE DEF Pick
    <3>2. k - 1 \notin Wrong
      BY <2>1, <3>1
    <3> QED
      BY <3>1, <3>2
  <2>6. QED
    BY <1>2, <2>2, <2>3, <2>4, <2>5
<1>7. iter[S] \in Int
  BY <1>0, <1>6
<1>8. TxCount(S) = iter[S]
  BY DEF TxCount, MapThenSumSet, MapThenFoldSet
<1>9. QED
  BY <1>7, <1>8

\* No descriptor is twice on a list.
Distinct(s) == \A i, j \in DOMAIN s : s[i] = s[j] => i = j

\* What the concatenation of two lists holds.
LEMMA Join ==
  ASSUME NEW S, NEW s \in Seq(S), NEW t \in Seq(S)
  PROVE  /\ s \o t \in Seq(S) /\ Len(s \o t) = Len(s) + Len(t) /\ DOMAIN (s \o t) = 1..(Len(s) + Len(t))
         /\ \A i \in 1..Len(s) : (s \o t)[i] = s[i]
         /\ \A i \in 1..Len(t) : (s \o t)[Len(s) + i] = t[i]
         /\ \A i \in DOMAIN (s \o t) : i \in 1..Len(s) \/ (i - Len(s) \in 1..Len(t) /\ (s \o t)[i] = t[i - Len(s)])
         /\ Elems(s \o t) = Elems(s) \union Elems(t)
         /\ Distinct(s) /\ Distinct(t) /\ Elems(s) \intersect Elems(t) = {} => Distinct(s \o t)
<1>1. /\ s \o t \in Seq(S) /\ Len(s \o t) = Len(s) + Len(t) /\ DOMAIN (s \o t) = 1..(Len(s) + Len(t))
      /\ Len(s) \in Nat /\ Len(t) \in Nat /\ DOMAIN s = 1..Len(s) /\ DOMAIN t = 1..Len(t)
  BY ConcatProperties, LenProperties
<1>2. /\ \A i \in 1..Len(s) : (s \o t)[i] = s[i]
      /\ \A i \in 1..Len(t) : (s \o t)[Len(s) + i] = t[i]
      /\ \A i \in DOMAIN (s \o t) : i \in 1..Len(s) \/ (i - Len(s) \in 1..Len(t) /\ (s \o t)[i] = t[i - Len(s)])
  BY <1>1, ConcatProperties
<1> DEFINE st == s \o t
<1>2a. \A i \in DOMAIN st : (i \in DOMAIN s /\ st[i] = s[i]) \/ (i - Len(s) \in DOMAIN t /\ st[i] = t[i - Len(s)])
  <2> SUFFICES ASSUME NEW i \in DOMAIN st
               PROVE  (i \in DOMAIN s /\ st[i] = s[i]) \/ (i - Len(s) \in DOMAIN t /\ st[i] = t[i - Len(s)])
    OBVIOUS
  <2>1. \/ i \in 1..Len(s) /\ st[i] = s[i]
        \/ i - Len(s) \in 1..Len(t) /\ st[i] = t[i - Len(s)]
    BY <1>2
  <2> HIDE DEF st
  <2>2. QED
    BY <2>1, <1>1
<1>3. Elems(st) = Elems(s) \union Elems(t)
  <2>1. \A i \in 1..Len(s) : i \in DOMAIN st
    BY <1>1
  <2>2. \A i \in 1..Len(t) : Len(s) + i \in DOMAIN st
    BY <1>1
  <2>3. Elems(s) \subseteq Elems(st)
    BY <1>1, <1>2, <2>1 DEF Elems
  <2>4. Elems(t) \subseteq Elems(st)
    <3> HIDE DEF st
    <3>1. \A i \in DOMAIN t : t[i] = st[Len(s) + i] /\ Len(s) + i \in DOMAIN st
      BY <1>1, <1>2, <2>2 DEF st
    <3>2. QED
      BY <3>1 DEF Elems
  <2>5. Elems(st) \subseteq Elems(s) \union Elems(t)
    <3> HIDE DEF st
    <3>1. \A i \in DOMAIN st : (i \in DOMAIN s /\ st[i] = s[i]) \/ (i - Len(s) \in DOMAIN t /\ st[i] = t[i - Len(s)])
      BY <1>2a
    <3>2. QED
      BY <3>1 DEF Elems
  <2>6. QED
    BY <2>3, <2>4, <2>5
<1>4. Distinct(s) /\ Distinct(t) /\ Elems(s) \intersect Elems(t) = {} => Distinct(st)
  <2> SUFFICES ASSUME Distinct(s), Distinct(t), Elems(s) \intersect Elems(t) = {},
                      NEW i \in DOMAIN st, NEW j \in DOMAIN st, st[i] = st[j]
               PROVE  i = j
    BY DEF Distinct
  <2> HIDE DEF st
  <2>1. \A k \in DOMAIN st : (k \in DOMAIN s /\ st[k] = s[k]) \/ (k - Len(s) \in DOMAIN t /\ st[k] = t[k - Len(s)])
    BY <1>2a
  <2>2. \A k \in DOMAIN s : s[k] \in Elems(s)
    BY DEF Elems
  <2>3. \A k \in DOMAIN t : t[k] \in Elems(t)
    BY DEF Elems
  <2>4. i \in Int /\ j \in Int
    BY <1>1 DEF st
  <2>5. \A k, l : ~(k \in DOMAIN s /\ l \in DOMAIN t /\ s[k] = t[l])
    BY <2>2, <2>3
  <2>6. QED
    BY <2>1, <2>4, <2>5, <1>1 DEF Distinct
<1>5. QED
  BY <1>1, <1>2, <1>3, <1>4

\* The first n elements of a list, and the others.
Front(s, n) == SubSeq(s, 1, n)
Back(s, n)  == SubSeq(s, n + 1, Len(s))

\* What the two halves of a list hold.
LEMMA Cut ==
  ASSUME NEW S, NEW s \in Seq(S), NEW n \in 0..Len(s)
  PROVE  /\ Front(s, n) \in Seq(S) /\ Len(Front(s, n)) = n /\ DOMAIN Front(s, n) = 1..n
         /\ Back(s, n) \in Seq(S) /\ Len(Back(s, n)) = Len(s) - n /\ DOMAIN Back(s, n) = 1..(Len(s) - n)
         /\ \A i \in 1..n : Front(s, n)[i] = s[i]
         /\ \A i \in 1..(Len(s) - n) : Back(s, n)[i] = s[n + i]
         /\ Elems(s) = Elems(Front(s, n)) \union Elems(Back(s, n))
         /\ Distinct(s) => /\ Distinct(Front(s, n)) /\ Distinct(Back(s, n))
                           /\ Elems(Front(s, n)) \intersect Elems(Back(s, n)) = {}
<1> DEFINE a == Front(s, n)
           b == Back(s, n)
<1>0. Len(s) \in Nat /\ DOMAIN s = 1..Len(s) /\ \A i \in 1..Len(s) : s[i] \in S
  BY LenProperties, ElementOfSeq
<1>1. a \in Seq(S) /\ Len(a) = n /\ \A i \in 1..n : a[i] = s[i]
  <2>1. 1 \in Int /\ n \in Int /\ \A i \in 1..n : s[i] \in S
    BY <1>0
  <2>2. /\ a \in Seq(S) /\ Len(a) = IF 1 <= n THEN n - 1 + 1 ELSE 0
        /\ \A i \in 1..(n - 1 + 1) : a[i] = s[1 + i - 1]
    BY <2>1, SubSeqProperties DEF Front, Back
  <2> HIDE DEF a
  <2>3. \A i \in 1..n : 1 + i - 1 = i
    OBVIOUS
  <2>4. QED
    BY <2>2, <2>3
<1>2. b \in Seq(S) /\ Len(b) = Len(s) - n /\ \A i \in 1..(Len(s) - n) : b[i] = s[n + i]
  <2>1. n + 1 \in Int /\ Len(s) \in Int /\ \A i \in (n + 1)..Len(s) : s[i] \in S
    BY <1>0
  <2>2. /\ b \in Seq(S) /\ Len(b) = IF n + 1 <= Len(s) THEN Len(s) - (n + 1) + 1 ELSE 0
        /\ \A i \in 1..(Len(s) - (n + 1) + 1) : b[i] = s[n + 1 + i - 1]
    BY <2>1, SubSeqProperties DEF Front, Back
  <2> HIDE DEF b
  <2>3. \A i \in 1..(Len(s) - n) : n + 1 + i - 1 = n + i /\ i \in 1..(Len(s) - (n + 1) + 1)
    BY <1>0
  <2>4. CASE n = Len(s)
    <3>1. ~(n + 1 <= Len(s)) /\ Len(s) - n = 0
      BY <2>4, <1>0
    <3>2. b \in Seq(S) /\ Len(b) = Len(s) - n
      BY <2>2, <3>1
    <3>3. QED
      BY <3>1, <3>2
  <2>5. CASE n < Len(s)
    <3>1. n + 1 <= Len(s) /\ Len(s) - (n + 1) + 1 = Len(s) - n
      BY <2>5, <1>0
    <3>2. b \in Seq(S) /\ Len(b) = Len(s) - n
      BY <2>2, <3>1
    <3>3. QED
      BY <2>2, <2>3, <3>2
  <2>6. n = Len(s) \/ n < Len(s)
    <3>1. \A m \in Nat : \A k \in 0..m : k = m \/ k < m
      BY ONLY TRUE
    <3>2. QED
      BY <1>0, <3>1
  <2>7. QED
    BY <2>4, <2>5, <2>6
<1>3. DOMAIN a = 1..n /\ DOMAIN b = 1..(Len(s) - n)
  <2> HIDE DEF a, b
  <2> QED
    BY <1>1, <1>2, LenProperties
<1> HIDE DEF a, b
<1>4. Elems(s) = Elems(a) \union Elems(b)
  <2>1. \A i \in DOMAIN a : i \in DOMAIN s /\ a[i] = s[i]
    BY <1>0, <1>1, <1>3
  <2>2. \A i \in DOMAIN b : n + i \in DOMAIN s /\ b[i] = s[n + i]
    BY <1>0, <1>2, <1>3
  <2>3. \A i \in DOMAIN s : (i \in DOMAIN a /\ s[i] = a[i]) \/ (i - n \in DOMAIN b /\ s[i] = b[i - n])
    BY <1>0, <1>1, <1>2, <1>3
  <2>4. QED
    BY <2>1, <2>2, <2>3 DEF Elems
<1>5. Distinct(s) => Distinct(a) /\ Distinct(b) /\ Elems(a) \intersect Elems(b) = {}
  <2> SUFFICES ASSUME Distinct(s) PROVE Distinct(a) /\ Distinct(b) /\ Elems(a) \intersect Elems(b) = {}
    OBVIOUS
  <2>1. Distinct(a)
    BY <1>0, <1>1, <1>3 DEF Distinct
  <2>2. Distinct(b)
    <3> SUFFICES ASSUME NEW i \in DOMAIN b, NEW j \in DOMAIN b, b[i] = b[j] PROVE i = j
      BY DEF Distinct
    <3>1. n + i = n + j
      BY <1>0, <1>2, <1>3 DEF Distinct
    <3>2. QED
      BY <3>1, <1>0, <1>3
  <2>3. \A i \in DOMAIN a, j \in DOMAIN b : a[i] # b[j]
    <3> SUFFICES ASSUME NEW i \in DOMAIN a, NEW j \in DOMAIN b, a[i] = b[j] PROVE FALSE
      OBVIOUS
    <3>1. i = n + j
      BY <1>0, <1>1, <1>2, <1>3, SMTT(30) DEF Distinct
    <3>2. QED
      BY <3>1, <1>0, <1>3
  <2>4. QED
    BY <2>1, <2>2, <2>3 DEF Elems
<1>6. QED
  BY <1>1, <1>2, <1>3, <1>4, <1>5 DEF a, b

\* Every rank below the size of a set of addresses is the rank of one of them.
LEMMA Ranks ==
  ASSUME NEW room \in SUBSET Desc
  PROVE  /\ IsFiniteSet(room) /\ Cardinality(room) \in Nat
         /\ \A i \in 1..Cardinality(room) : \E d \in room : Cardinality({e \in room : e < d}) = i - 1
<1> DEFINE N == Cardinality(room)
           Less(d) == {e \in room : e < d}
           rank == [d \in room |-> Cardinality(Less(d))]
<1>1. IsFiniteSet(room) /\ N \in Nat /\ room \subseteq Int
  <2>1. IsFiniteSet(Desc) /\ Desc \subseteq Int
    BY FS_Interval, DescAssumption DEF Desc
  <2>2. QED
    BY <2>1, FS_Subset, FS_CardinalityType
<1>2. \A d \in room : IsFiniteSet(Less(d)) /\ Cardinality(Less(d)) \in Nat /\ Cardinality(Less(d)) < N
  <2> SUFFICES ASSUME NEW d \in room
               PROVE  IsFiniteSet(Less(d)) /\ Cardinality(Less(d)) \in Nat /\ Cardinality(Less(d)) < N
    OBVIOUS
  <2>1. Less(d) \in SUBSET room /\ Less(d) # room
    BY <1>1
  <2>2. IsFiniteSet(Less(d)) /\ Cardinality(Less(d)) <= N /\ N # Cardinality(Less(d))
    BY <1>1, <2>1, FS_Subset
  <2>3. Cardinality(Less(d)) \in Nat
    BY <2>2, FS_CardinalityType
  <2> HIDE DEF Less
  <2>4. QED
    BY <2>2, <2>3, <1>1
<1>3. \A d, f \in room : d < f => Cardinality(Less(d)) # Cardinality(Less(f))
  <2> SUFFICES ASSUME NEW d \in room, NEW f \in room, d < f,
                      Cardinality(Less(d)) = Cardinality(Less(f))
               PROVE  FALSE
    OBVIOUS
  <2>1. Less(d) \in SUBSET Less(f)
    <3>1. \A e \in room : e < d => e < f
      BY <1>1
    <3>2. QED
      BY <3>1
  <2>2. d \in Less(f) /\ d \notin Less(d)
    BY <1>1
  <2>3. IsFiniteSet(Less(f))
    BY <1>2
  <2> HIDE DEF Less
  <2>4. QED
    BY <2>1, <2>2, <2>3, FS_Subset
<1>4. IsFiniteSet(0..(N - 1)) /\ Cardinality(0..(N - 1)) = N
  <2> HIDE DEF N
  <2>1. 0 \in Int /\ N - 1 \in Int
    BY <1>1
  <2>2. /\ IsFiniteSet(0..(N - 1))
        /\ Cardinality(0..(N - 1)) = IF 0 > N - 1 THEN 0 ELSE N - 1 - 0 + 1
    BY <2>1, FS_Interval
  <2>3. QED
    BY <2>2, <1>1
<1>5. rank \in Injection(room, 0..(N - 1))
  <2>1. rank \in [room -> 0..(N - 1)]
    <3> HIDE DEF N, Less
    <3> QED
      BY <1>1, <1>2
  <2>2. \A d, f \in room : rank[d] = rank[f] => d = f
    <3> HIDE DEF Less
    <3>1. \A d, f \in room : d # f => d < f \/ f < d
      BY <1>1
    <3>2. QED
      BY <1>3, <3>1
  <2> HIDE DEF rank, N
  <2>3. QED
    BY <2>1, <2>2 DEF Injection, IsInjective
<1>6. rank \in Surjection(room, 0..(N - 1))
  <2> HIDE DEF rank
  <2>1. Cardinality(room) = Cardinality(0..(N - 1))
    BY <1>4
  <2>2. QED
    BY <2>1, <1>4, <1>5, FS_Injection
<1>7. \A i \in 1..N : \E d \in room : rank[d] = i - 1
  <2> HIDE DEF rank, N
  <2>1. \A i \in 1..N : i - 1 \in 0..(N - 1)
    BY <1>1
  <2>2. QED
    BY <1>6, <2>1 DEF Surjection
<1>8. QED
  BY <1>1, <1>7

\* The descriptors that ioat_dma_alloc_descriptor returns are new and distinct.
LEMMA Fresh ==
  ASSUME NEW k \in 0..Room
  PROVE  /\ NewDescs(k) \in Seq(Desc) /\ Len(NewDescs(k)) = k
         /\ Distinct(NewDescs(k)) /\ Elems(NewDescs(k)) \intersect Allocated = {}
<1> DEFINE room == Desc \ Allocated
           Rank(d) == Cardinality({e \in room : e < d})
           Nth(i) == CHOOSE d \in room : Rank(d) = i - 1
           new == [i \in 1..k |-> Nth(i)]
<1>1. room \in SUBSET Desc
  OBVIOUS
<1>2. Cardinality(room) \in Nat /\ \A i \in 1..Cardinality(room) : \E d \in room : Rank(d) = i - 1
  BY <1>1, Ranks
<1>3. Room = Cardinality(room)
  BY DEF Room
<1>4. \A i \in 1..k : Nth(i) \in room /\ Rank(Nth(i)) = i - 1
  <2>1. \A i \in 1..k : i \in 1..Cardinality(room)
    BY <1>2, <1>3
  <2> HIDE DEF Rank, room
  <2>2. QED
    BY <1>2, <2>1
<1>5. NewDescs(k) = new
  BY DEF NewDescs
<1> HIDE DEF Nth, Rank
<1>6. new \in [1..k -> Desc] /\ k \in Nat
  BY <1>2, <1>3, <1>4
<1>7. new \in Seq(Desc) /\ Len(new) = k /\ DOMAIN new = 1..k
  BY <1>6
<1>8. Distinct(new)
  <2> SUFFICES ASSUME NEW i \in 1..k, NEW j \in 1..k, Nth(i) = Nth(j) PROVE i = j
    BY <1>7 DEF Distinct
  <2>1. i - 1 = j - 1
    BY <1>4
  <2>2. QED
    BY <2>1
<1>9. Elems(new) \intersect Allocated = {}
  BY <1>4, <1>7 DEF Elems
<1>10. QED
  BY <1>5, <1>7, <1>8, <1>9

-----------------------------------------------------------------------------

\* The channel is set up.
Up == desccount # 0

\* Address a is not behind address b on a list; 0 is before everything.
BeforeIn(u, a, b) == a = 0 \/ \E i, j \in DOMAIN u : i <= j /\ u[i] = a /\ u[j] = b
Before(a, b) == BeforeIn(used_desc, a, b)


\* Address b follows a on a list.
NextTo(u, a, b) == \E i \in DOMAIN u : i + 1 \in DOMAIN u /\ u[i] = a /\ u[i + 1] = b

\* What a channel that is taken down leaves behind.
DownInv ==
  desccount = 0 =>
    /\ used_desc = <<>> /\ free_desc = <<>> /\ tpc = "idle" /\ cleanup_lock = "none"
    /\ \A c \in Clients : pc[c] = "idle"
    /\ hw_state = "reset" /\ hw_last = 0 /\ last_completion = 0

\* The chain of a client is what prep_memcpy linked, from there to tx_submit.
ChainInv ==
  \A c \in Clients :
    /\ pc[c] # "prepared" => chain[c] = <<>>
    /\ pc[c] = "prepared" =>
         /\ Len(chain[c]) \in 1..MaxParts
         /\ \A i \in DOMAIN chain[c] :
              /\ desc[chain[c][i]].next = IF i = Len(chain[c]) THEN 0 ELSE chain[c][i + 1]
              /\ i = Len(chain[c]) => desc[chain[c][i]].compl_write

\* There is a cookie for every transaction that is prepared.
BoundInv == Cardinality({c \in Clients : pc[c] = "prepared"}) + cookie <= MaxCookie

\* Who holds which lock, and what it knows then.
LockInv ==
  /\ tpc # "update" => status = 0
  /\ tpc # "idle" => cleanup_lock = "none"
  /\ cleanup_lock = "none" <=> phys_complete = 0

\* The order of the addresses on the used list: software's mark, what a cleanup
\* has read, the completion area, what the engine finished last, what it works on,
\* and what it has fetched.
MarkInv ==
  Up =>
    /\ Before(last_completion, completion) /\ Before(completion, completion)
    /\ cleanup_lock # "none" => Before(last_completion, phys_complete) /\ Before(phys_complete, completion)
    /\ status # 0 => Before(last_completion, status) /\ Before(status, hw_last)
    /\ hw_last # 0 => Before(completion, hw_last) /\ Before(hw_last, hw_cur)
    /\ hw_state = "reset" => hw_cur = 0 /\ hw_next = 0 /\ hw_last = 0
    /\ hw_state # "reset" => hw_cur # 0 /\ Before(hw_cur, hw_cur) /\ Before(completion, hw_cur)
    /\ hw_next # 0 => NextTo(used_desc, hw_cur, hw_next)

ListInv == TypeOK /\ OnOneList /\ LinksFollowList /\ DownInv /\ ChainInv /\ BoundInv /\ LockInv /\ MarkInv

\* Only descriptors of the used list carry a cookie.
BareInv == Up => \A d \in Desc : d \notin Elems(used_desc) => desc[d].cookie = 0

\* The client of the newest transaction waits for it until it is completed.
WaitInv == completed_cookie = cookie \/ \E c \in Clients : wait[c] = cookie

\* No transaction is left behind when the channel is taken down, unless that is the end.
LeftInv ==
  /\ allocs = 0 => ~Up /\ cookie = 0 /\ completed_cookie = 0 /\ state = {}
  /\ \A c \in Clients : wait[c] # 0 => pc[c] # "idle"
  /\ MaxAllocs > 1 /\ ~Up => completed_cookie = cookie

CookieInv == BareInv /\ LeftInv /\ CookiesInOrder

\* While the PENDING bit is set the watchdog is armed, and it is set while a transaction
\* is open.
ArmedInv ==
  Up => /\ "PENDING" \in state => timer \/ tpc # "idle"
        /\ (\E i \in DOMAIN used_desc : desc[used_desc[i]].cookie # 0) => "PENDING" \in state

\* An engine that neither stops nor is stopped, and a timer that waits for it.
Healthy == Prompt /\ ~MayHalt /\ ~MaySuspend

\* Then a chain that ends early for the engine will be read again, and the end of the
\* chain is reported ...
ReportInv ==
  Up =>
    /\ hw_state \in {"run", "idle"}
    /\ hw_next = 0 /\ hw_cur # Last(used_desc) => hw_append \/ pending > 0
    /\ desc[Last(used_desc)].compl_write
    /\ hw_next = 0 => desc[hw_cur].compl_write
    /\ hw_state = "idle" => hw_next = 0 /\ completion = hw_cur
    /\ last_completion = Last(used_desc) => "PENDING" \notin state
    /\ "PENDING" \in state => desc[Last(used_desc)].cookie # 0

\* ... so that the timer never finds the engine stuck ...
CalmInv ==
  /\ ~suspended /\ tpc = "idle" /\ "RESET" \notin state /\ pending >= 0 /\ ~fault
  /\ ~Up => "PENDING" \notin state
  /\ pending > 0 => \E c \in Clients : pc[c] \notin {"idle", "waiting"}
  /\ ReportInv

\* ... and the engine goes on from the descriptor that it finished last, ...
GoesOn ==
  Up => /\ completion # 0 => hw_last # 0
        /\ hw_last = 0 => hw_state = "run" /\ hw_cur = used_desc[1] /\ desc[used_desc[1]].part = <<0, 0>>
        /\ hw_state = "run" /\ hw_last # 0 => NextTo(used_desc, hw_last, hw_cur)
        /\ hw_state = "idle" => hw_last = hw_cur

\* ... so that what it has passed is copied; ...
Passed == Up => \A a \in Desc : Before(a, hw_last) => desc[a].part \in executed

\* ... and what is not copied of an open transaction is on the list, not behind the
\* descriptor with its cookie.  Every copy of the list, the first one apart, belongs to a
\* transaction whose cookie is still to come.
OpenInv ==
  /\ Len(parts) = cookie
  /\ Up =>
     /\ \A k \in (completed_cookie + 1)..cookie : \A n \in 1..parts[k] :
          \/ <<k, n>> \in executed
          \/ \E a, b \in Desc : Before(a, b) /\ desc[a].part = <<k, n>> /\ desc[b].cookie = k
     /\ \A i \in DOMAIN used_desc : i > 1 =>
          \E b \in Desc : Before(used_desc[i], b) /\ desc[b].cookie = desc[used_desc[i]].part[1]

CopyInv == GoesOn /\ Passed /\ OpenInv /\ CompletedMeansCopied

\* The fields of a descriptor.
DescType == [next : 0..MaxDesc, compl_write : BOOLEAN, tx_cnt : 0..MaxParts,
             cookie : 0..MaxCookie, part : Part]

\* What a walk of __cleanup computes has its type, whatever address it looks for.
LEMMA CleanType ==
  ASSUME TypeOK, NEW phys \in 0..MaxDesc
  PROVE  /\ Reached(phys) \in 0..Len(used_desc)
         /\ Released(phys) \in 0..Len(used_desc)
         /\ Completes(phys) \subseteq Desc
         /\ Completed(phys) \in 0..MaxCookie
         /\ StillActive(phys) \in Int
         /\ StateAfter(phys) \subseteq state
         /\ Found(phys) => Reached(phys) \in 1..Len(used_desc) /\ used_desc[Reached(phys)] = phys
<1>1. /\ used_desc \in Seq(Desc) /\ desc \in [Desc -> DescType] /\ active \in Int
      /\ completed_cookie \in 0..MaxCookie
  BY DEF TypeOK, DescType
<1>2. Len(used_desc) \in Nat /\ DOMAIN used_desc = 1..Len(used_desc) /\ \A i \in 1..Len(used_desc) : used_desc[i] \in Desc
  BY <1>1, LenProperties, ElementOfSeq
<1>3. Found(phys) => Reached(phys) \in 1..Len(used_desc) /\ used_desc[Reached(phys)] = phys
  BY <1>2 DEF Found, Reached, Elems
<1>4. ~Found(phys) => Reached(phys) = Len(used_desc)
  BY DEF Reached
<1>5. Reached(phys) \in 0..Len(used_desc) /\ Released(phys) \in 0..Len(used_desc)
  BY <1>2, <1>3, <1>4 DEF Released
<1>6. \A i \in 1..Reached(phys) : i \in 1..Len(used_desc)
  BY <1>2, <1>5
<1>7. Completes(phys) \subseteq Desc
  BY <1>2, <1>6 DEF Completes
<1>8. \A d \in Desc : desc[d].cookie \in 0..MaxCookie /\ desc[d].tx_cnt \in Int
  BY <1>1, BoundsAssumption DEF DescType
<1>9. Completed(phys) \in 0..MaxCookie
  <2> DEFINE S == {desc[d].cookie : d \in Completes(phys)}
  <2>1. CASE Completes(phys) = {}
    BY <1>1, <2>1 DEF Completed
  <2>2. CASE Completes(phys) # {}
    <3>1. S \subseteq 0..MaxCookie /\ S # {}
      BY <1>7, <1>8, <2>2
    <3>2. Max(S) \in S
      <4> HIDE DEF S
      <4> QED
        BY <3>1, LargestNat, BoundsAssumption
    <3>3. Completed(phys) = Max(S)
      BY <2>2 DEF Completed
    <3>4. QED
      BY <3>1, <3>2, <3>3
  <2>3. QED
    BY <2>1, <2>2
<1>10. StillActive(phys) \in Int
  <2>1. TxCount(Completes(phys)) \in Int
    BY <1>7, <1>8, SumIsInt
  <2>2. QED
    BY <1>1, <2>1 DEF StillActive
<1>11. StateAfter(phys) \subseteq state
  BY DEF StateAfter
<1>12. QED
  BY <1>3, <1>5, <1>7, <1>9, <1>10, <1>11

\* prep_memcpy takes what it needs from the front of the free list and from memory,
\* and links it into the chain ds.
Prepares(c, n, ds) ==
  /\ ds \in Seq(Desc) /\ DOMAIN ds = 1..n
  /\ chain' = [chain EXCEPT ![c] = ds] /\ Len(ds) = n /\ Distinct(ds)
  /\ free_desc' \in Seq(Desc) /\ Distinct(free_desc')
  /\ Elems(free_desc') \subseteq Elems(free_desc)
  /\ Elems(ds) \intersect (Elems(free_desc') \union Elems(used_desc)) = {}
  /\ \A b \in Clients : Elems(ds) \intersect Elems(chain[b]) = {}
  /\ desc' \in [Desc -> DescType]
  /\ \A d \in Desc : d \notin Elems(ds) => desc'[d] = desc[d]
  /\ \A i \in 1..n : /\ desc'[ds[i]].next = IF i < n THEN ds[i + 1] ELSE 0
                     /\ desc'[ds[i]].compl_write = (i = n)
                     /\ desc'[ds[i]].cookie = desc[ds[i]].cookie
                     /\ desc'[ds[i]].part = desc[ds[i]].part

\* This is what prep_memcpy does.
LEMMA PrepFacts ==
  ASSUME TypeOK, OnOneList, NEW c \in Clients, NEW n \in 1..MaxParts, prep_memcpy(c, n)
  PROVE  \E ds : Prepares(c, n, ds)
<1> DEFINE new == IF n > Len(free_desc) THEN n - Len(free_desc) ELSE 0
           m   == n - new
           front == Front(free_desc, m)
           rest  == Back(free_desc, m)
           ds  == front \o NewDescs(new)
           At(d) == CHOOSE i \in 1..n : ds[i] = d
<1>1. /\ free_desc \in Seq(Desc) /\ used_desc \in Seq(Desc) /\ chain \in [Clients -> Seq(Desc)]
      /\ desc \in [Desc -> DescType]
  BY DEF TypeOK, DescType
<1>2. Len(free_desc) \in Nat /\ n \in Nat
  BY <1>1, LenProperties, BoundsAssumption
<1>3. new \in Nat /\ m \in 0..Len(free_desc) /\ m + new = n
  BY <1>2
<1>4. /\ new <= Room /\ free_desc' = rest /\ chain' = [chain EXCEPT ![c] = ds]
      /\ desc' = [d \in Desc |->
                    IF d \notin Elems(ds) THEN desc[d]
                    ELSE [desc[d] EXCEPT !.next = IF At(d) < n THEN ds[At(d) + 1] ELSE 0,
                                         !.compl_write = (At(d) = n),
                                         !.tx_cnt = IF At(d) = n THEN n ELSE @]]
  BY DEF prep_memcpy, FreeAfter, Front, Back
<1>5. new \in 0..Room
  <2>1. Desc \ Allocated \in SUBSET Desc
    OBVIOUS
  <2>2. Room \in Nat
    BY <2>1, Ranks DEF Room
  <2>3. new \in Nat /\ new <= Room
    BY <1>3, <1>4
  <2> HIDE DEF new
  <2>4. QED
    BY ONLY <2>2, <2>3
<1> HIDE DEF new, m
<1>6. /\ NewDescs(new) \in Seq(Desc) /\ Len(NewDescs(new)) = new
      /\ Distinct(NewDescs(new)) /\ Elems(NewDescs(new)) \intersect Allocated = {}
  BY <1>5, Fresh
<1>7. Distinct(free_desc) /\ Elems(free_desc) \intersect Elems(used_desc) = {}
      /\ \A b \in Clients : Elems(chain[b]) \intersect Elems(free_desc) = {}
  BY DEF OnOneList, Distinct
<1>8. /\ front \in Seq(Desc) /\ Len(front) = m /\ rest \in Seq(Desc)
      /\ Distinct(front) /\ Distinct(rest) /\ Elems(front) \intersect Elems(rest) = {}
      /\ Elems(free_desc) = Elems(front) \union Elems(rest)
  BY <1>1, <1>3, <1>7, Cut
<1> HIDE DEF front, rest
<1>9. /\ Elems(free_desc) \subseteq Allocated /\ Elems(used_desc) \subseteq Allocated
      /\ \A b \in Clients : Elems(chain[b]) \subseteq Allocated
  BY DEF Allocated
<1>10. /\ ds \in Seq(Desc) /\ Len(ds) = n /\ DOMAIN ds = 1..n /\ Elems(ds) = Elems(front) \union Elems(NewDescs(new))
  <2>1. Elems(front) \intersect Elems(NewDescs(new)) = {}
    BY <1>6, <1>8, <1>9
  <2>2. /\ ds \in Seq(Desc) /\ Len(ds) = Len(front) + Len(NewDescs(new))
        /\ DOMAIN ds = 1..(Len(front) + Len(NewDescs(new)))
        /\ Elems(ds) = Elems(front) \union Elems(NewDescs(new))
    <3>1. front \in Seq(Desc) /\ NewDescs(new) \in Seq(Desc)
      BY <1>6, <1>8
    <3>2. QED
      BY ONLY <3>1, Join
  <2>3. Len(front) + Len(NewDescs(new)) = n
    BY <1>3, <1>6, <1>8
  <2> HIDE DEF ds
  <2>4. QED
    BY <2>2, <2>3
<1>11. Distinct(ds)
  <2>1. Elems(front) \intersect Elems(NewDescs(new)) = {}
    BY <1>6, <1>8, <1>9
  <2>2. QED
    BY <2>1, <1>6, <1>8, Join
<1> HIDE DEF ds
<1>12. \A i \in 1..n : ds[i] \in Desc /\ ds[i] \in Elems(ds) /\ At(ds[i]) = i
  <2> SUFFICES ASSUME NEW i \in 1..n PROVE ds[i] \in Desc /\ ds[i] \in Elems(ds) /\ At(ds[i]) = i
    OBVIOUS
  <2>1. ds[i] \in Desc /\ ds[i] \in Elems(ds)
    BY <1>10, ElementOfSeq DEF Elems
  <2>2. \A j \in 1..n : ds[j] = ds[i] <=> j = i
    BY <1>10, <1>11 DEF Distinct
  <2>3. QED
    BY <2>1, <2>2
<1>13. \A d \in Elems(ds) : \E i \in 1..n : d = ds[i]
  BY <1>10 DEF Elems
<1>14. \A d \in Elems(ds) : d \in Desc /\ At(d) \in 1..n /\ (At(d) < n => ds[At(d) + 1] \in Desc)
  <2> SUFFICES ASSUME NEW i \in 1..n, i < n PROVE ds[i + 1] \in Desc
    BY <1>12, <1>13
  <2>1. i + 1 \in 1..n
    BY <1>2
  <2>2. QED
    BY <2>1, <1>12
<1> HIDE DEF At
<1>15. desc' \in [Desc -> DescType]
  <2> SUFFICES ASSUME NEW d \in Desc PROVE desc'[d] \in DescType
    BY <1>4
  <2>1. CASE d \notin Elems(ds)
    BY <2>1, <1>1, <1>4
  <2>2. CASE d \in Elems(ds)
    <3>1. (IF At(d) < n THEN ds[At(d) + 1] ELSE 0) \in 0..MaxDesc
      BY <2>2, <1>14, DescAssumption DEF Desc
    <3>2. (At(d) = n) \in BOOLEAN /\ n \in 0..MaxParts
      BY BoundsAssumption
    <3>3. desc'[d] = [desc[d] EXCEPT !.next = IF At(d) < n THEN ds[At(d) + 1] ELSE 0,
                                     !.compl_write = (At(d) = n),
                                     !.tx_cnt = IF At(d) = n THEN n ELSE @]
      BY <2>2, <1>4
    <3>4. desc[d] \in DescType
      BY <1>1
    <3>5. QED
      BY <3>1, <3>2, <3>3, <3>4 DEF DescType
  <2>3. QED
    BY <2>1, <2>2
<1>16. \A i \in 1..n : /\ desc'[ds[i]].next = IF i < n THEN ds[i + 1] ELSE 0
                       /\ desc'[ds[i]].compl_write = (i = n)
                       /\ desc'[ds[i]].cookie = desc[ds[i]].cookie
                       /\ desc'[ds[i]].part = desc[ds[i]].part
  <2> SUFFICES ASSUME NEW i \in 1..n
               PROVE  /\ desc'[ds[i]].next = IF i < n THEN ds[i + 1] ELSE 0
                      /\ desc'[ds[i]].compl_write = (i = n)
                      /\ desc'[ds[i]].cookie = desc[ds[i]].cookie
                      /\ desc'[ds[i]].part = desc[ds[i]].part
    OBVIOUS
  <2>1. desc'[ds[i]] = [desc[ds[i]] EXCEPT !.next = IF i < n THEN ds[i + 1] ELSE 0,
                                           !.compl_write = (i = n),
                                           !.tx_cnt = IF i = n THEN n ELSE @]
    BY <1>4, <1>12
  <2>2. desc[ds[i]] \in DescType
    BY <1>1, <1>12
  <2>3. QED
    BY <2>1, <2>2 DEF DescType
<1>17. /\ Elems(ds) \intersect (Elems(rest) \union Elems(used_desc)) = {}
       /\ \A b \in Clients : Elems(ds) \intersect Elems(chain[b]) = {}
  BY <1>6, <1>7, <1>8, <1>9, <1>10
<1>18. \A d \in Desc : d \notin Elems(ds) => desc'[d] = desc[d]
  BY <1>4
<1>19. Prepares(c, n, ds)
  BY <1>4, <1>8, <1>10, <1>11, <1>15, <1>16, <1>17, <1>18 DEF Prepares
<1>20. QED
  BY <1>19

\* A prep_memcpy that runs out leaves more on the free list.
LEMMA FailFacts ==
  ASSUME TypeOK, OnOneList, NEW c \in Clients, NEW n \in 1..MaxParts, prep_memcpy_fails(c, n)
  PROVE  /\ free_desc' \in Seq(Desc) /\ Distinct(free_desc')
         /\ Elems(free_desc') \intersect Elems(used_desc) = {}
         /\ \A b \in Clients : Elems(chain[b]) \intersect Elems(free_desc') = {}
<1>1. free_desc \in Seq(Desc) /\ Len(free_desc) \in Nat
  BY LenProperties DEF TypeOK
<1>2. PICK k \in 0..(n - Len(free_desc) - 1) : k <= Room /\ free_desc' = free_desc \o NewDescs(k)
  BY DEF prep_memcpy_fails
<1>3. k \in 0..Room
  <2>1. Desc \ Allocated \in SUBSET Desc
    OBVIOUS
  <2>2. Room \in Nat
    BY <2>1, Ranks DEF Room
  <2>3. QED
    BY <1>2, <2>2
<1>4. /\ NewDescs(k) \in Seq(Desc) /\ Distinct(NewDescs(k))
      /\ Elems(NewDescs(k)) \intersect Allocated = {}
  BY <1>3, Fresh
<1>5. Distinct(free_desc) /\ Elems(free_desc) \intersect Elems(used_desc) = {}
      /\ \A b \in Clients : Elems(chain[b]) \intersect Elems(free_desc) = {}
  BY DEF OnOneList, Distinct
<1>6. /\ Elems(free_desc) \subseteq Allocated /\ Elems(used_desc) \subseteq Allocated
      /\ \A b \in Clients : Elems(chain[b]) \subseteq Allocated
  BY DEF Allocated
<1>7. Elems(free_desc) \intersect Elems(NewDescs(k)) = {}
  BY <1>4, <1>6
<1>8. /\ free_desc' \in Seq(Desc) /\ Distinct(free_desc')
      /\ Elems(free_desc') = Elems(free_desc) \union Elems(NewDescs(k))
  BY <1>1, <1>2, <1>4, <1>5, <1>7, Join
<1>9. QED
  BY <1>4, <1>5, <1>6, <1>8

\* The cookie a cleanup leaves is that of the last transaction on its way.
LEMMA CompletedFacts ==
  ASSUME TypeOK, NEW phys \in 0..MaxDesc
  PROVE  \/ /\ \A i \in 1..Reached(phys) : desc[used_desc[i]].cookie = 0
            /\ Completed(phys) = completed_cookie
         \/ /\ \E i \in 1..Reached(phys) : desc[used_desc[i]].cookie # 0 /\ Completed(phys) = desc[used_desc[i]].cookie
            /\ \A i \in 1..Reached(phys) : desc[used_desc[i]].cookie <= Completed(phys)
<1> DEFINE ck(i) == desc[used_desc[i]].cookie
           r == Reached(phys)
           S == {desc[d].cookie : d \in Completes(phys)}
<1>1. \A i \in 1..r : i \in 1..Len(used_desc) /\ used_desc[i] \in Desc /\ ck(i) \in 0..MaxCookie
  <2>1. used_desc \in Seq(Desc) /\ desc \in [Desc -> DescType] /\ Len(used_desc) \in Nat
    BY LenProperties DEF TypeOK, DescType
  <2>2. r \in 0..Len(used_desc)
    BY CleanType
  <2> HIDE DEF r
  <2>3. \A i \in 1..r : i \in 1..Len(used_desc)
    BY <2>1, <2>2
  <2>4. \A i \in 1..r : used_desc[i] \in Desc
    BY <2>1, <2>3, ElementOfSeq
  <2>5. QED
    BY <2>1, <2>3, <2>4 DEF DescType
<1> HIDE DEF r
<1>2. S = {ck(i) : i \in {i \in 1..r : ck(i) # 0}}
  BY DEF Completes, r
<1>3. CASE \A i \in 1..r : ck(i) = 0
  <2>1. Completes(phys) = {}
    BY <1>3 DEF Completes, r
  <2>2. QED
    BY <1>3, <2>1 DEF Completed, r
<1>4. CASE \E i \in 1..r : ck(i) # 0
  <2>1. Completes(phys) # {} /\ S # {} /\ S \subseteq 0..MaxCookie
    BY <1>1, <1>2, <1>4
  <2> HIDE DEF S
  <2>2. Max(S) \in S /\ \A y \in S : y <= Max(S)
    BY <2>1, LargestNat, BoundsAssumption
  <2>3. Completed(phys) = Max(S)
    BY <2>1 DEF Completed, S
  <2>4. PICK k \in 1..r : ck(k) # 0 /\ Completed(phys) = ck(k)
    BY <1>2, <2>2, <2>3
  <2>5. \A i \in 1..r : ck(i) # 0 => ck(i) <= Completed(phys)
    BY <1>2, <2>2, <2>3
  <2>6. Completed(phys) \in 0..MaxCookie
    BY <2>1, <2>2, <2>3
  <2>7. \A i \in 1..r : ck(i) <= Completed(phys)
    <3> HIDE DEF ck
    <3>1. \A i \in 1..r : ck(i) = 0 => ck(i) <= Completed(phys)
      BY <2>6, BoundsAssumption
    <3>2. QED
      BY <2>5, <3>1
  <2>8. QED
    BY <2>4, <2>7 DEF r
<1>5. QED
  BY <1>3, <1>4

\* A cleanup that finds phys at position r of the used list cuts the list in front of
\* it, and takes the cookies up to there.
Cleans(phys, r) ==
  /\ r \in 1..Len(used_desc) /\ Len(used_desc) \in Nat /\ DOMAIN used_desc = 1..Len(used_desc)
  /\ r = Reached(phys) /\ used_desc[r] = phys /\ last_completion' = phys
  /\ used_desc' \in Seq(Desc) /\ Len(used_desc') = Len(used_desc) - r + 1
  /\ DOMAIN used_desc' = 1..(Len(used_desc) - r + 1)
  /\ \A i \in DOMAIN used_desc' : r - 1 + i \in DOMAIN used_desc /\ used_desc'[i] = used_desc[r - 1 + i]
  /\ Distinct(used_desc') /\ Elems(used_desc') \subseteq Elems(used_desc)
  /\ free_desc' \in Seq(Desc) /\ Distinct(free_desc')
  /\ Elems(free_desc') \subseteq Elems(free_desc) \union Elems(used_desc)
  /\ Elems(free_desc') \intersect Elems(used_desc') = {}
  /\ desc' \in [Desc -> DescType]
  /\ \A d \in Desc : /\ desc'[d].next = desc[d].next /\ desc'[d].compl_write = desc[d].compl_write
                     /\ desc'[d].part = desc[d].part
                     /\ d \notin Elems(used_desc) => desc'[d].cookie = desc[d].cookie
  /\ \A i \in DOMAIN used_desc :
       desc'[used_desc[i]].cookie = IF i <= r THEN 0 ELSE desc[used_desc[i]].cookie
  /\ state' = state \ ({"ACK"} \union (IF r = Len(used_desc) THEN {"PENDING"} ELSE {}))

\* This is what __cleanup does.
LEMMA CleanFacts ==
  ASSUME TypeOK, OnOneList, NEW phys \in 0..MaxDesc, Found(phys), __cleanup(phys)
  PROVE  \E r : Cleans(phys, r)
<1> DEFINE r == Reached(phys)
           q == r - 1
           gone == Front(used_desc, q)
           rest == Back(used_desc, q)
<1>1. /\ used_desc \in Seq(Desc) /\ free_desc \in Seq(Desc) /\ desc \in [Desc -> DescType]
      /\ Len(used_desc) \in Nat /\ DOMAIN used_desc = 1..Len(used_desc)
      /\ \A i \in DOMAIN used_desc : used_desc[i] \in Desc
  BY LenProperties, ElementOfSeq DEF TypeOK, DescType
<1>2. r \in 1..Len(used_desc) /\ used_desc[r] = phys
  BY CleanType
<1>3. Released(phys) = q
  BY DEF Released
<1>4. q \in 0..Len(used_desc)
  <2> HIDE DEF r
  <2> QED
    BY <1>1, <1>2
<1> HIDE DEF r, q
<1>5. free_desc' = free_desc \o gone /\ used_desc' = rest
  BY <1>3 DEF __cleanup, Front, Back
<1>6. Distinct(used_desc) /\ Distinct(free_desc) /\ Elems(free_desc) \intersect Elems(used_desc) = {}
  BY DEF OnOneList, Distinct
<1>7a. /\ gone \in Seq(Desc) /\ Distinct(gone) /\ Elems(gone) \intersect Elems(rest) = {}
       /\ rest \in Seq(Desc) /\ Distinct(rest) /\ Elems(used_desc) = Elems(gone) \union Elems(rest)
       /\ Len(rest) = Len(used_desc) - q /\ DOMAIN rest = 1..(Len(used_desc) - q)
       /\ \A i \in 1..(Len(used_desc) - q) : rest[i] = used_desc[q + i]
  <2>1. used_desc \in Seq(Desc) /\ q \in 0..Len(used_desc) /\ Distinct(used_desc)
    BY <1>1, <1>4, <1>6
  <2>2. QED
    BY ONLY <2>1, Cut
<1> HIDE DEF gone, rest
<1>7. /\ gone \in Seq(Desc) /\ Distinct(gone) /\ Elems(gone) \intersect Elems(rest) = {}
      /\ rest \in Seq(Desc) /\ Distinct(rest) /\ Elems(used_desc) = Elems(gone) \union Elems(rest)
      /\ Len(rest) = Len(used_desc) - (r - 1) /\ DOMAIN rest = 1..(Len(used_desc) - (r - 1))
      /\ \A i \in 1..(Len(used_desc) - (r - 1)) : rest[i] = used_desc[r - 1 + i]
  BY <1>7a DEF q
<1>8. Elems(free_desc) \intersect Elems(gone) = {}
  BY <1>6, <1>7
<1>9. /\ free_desc' \in Seq(Desc) /\ Distinct(free_desc')
      /\ Elems(free_desc') = Elems(free_desc) \union Elems(gone)
  BY ONLY <1>1, <1>5, <1>6, <1>7, <1>8, Join
<1>10. /\ Elems(free_desc') \subseteq Elems(free_desc) \union Elems(used_desc)
       /\ Elems(free_desc') \intersect Elems(used_desc') = {}
       /\ Elems(used_desc') \subseteq Elems(used_desc)
  BY <1>5, <1>6, <1>7, <1>9
<1>11. Len(used_desc) - (r - 1) = Len(used_desc) - r + 1
  BY <1>1, <1>2
<1>12. \A i \in DOMAIN used_desc' : r - 1 + i \in DOMAIN used_desc /\ used_desc'[i] = used_desc[r - 1 + i]
  <2>1. \A i \in 1..(Len(used_desc) - (r - 1)) : r - 1 + i \in 1..Len(used_desc)
    BY <1>1, <1>2
  <2>2. QED
    BY <1>1, <1>5, <1>7, <2>1
<1>13. Completes(phys) = {used_desc[i] : i \in {i \in 1..r : desc[used_desc[i]].cookie # 0}}
  BY DEF Completes, r
<1>14. desc' = [d \in Desc |-> IF d \in Completes(phys) THEN [desc[d] EXCEPT !.cookie = 0] ELSE desc[d]]
  BY DEF __cleanup
<1>15. \A d \in Desc : /\ desc'[d] \in DescType
                       /\ desc'[d].next = desc[d].next /\ desc'[d].compl_write = desc[d].compl_write
                       /\ desc'[d].part = desc[d].part
                       /\ desc'[d].cookie = IF d \in Completes(phys) THEN 0 ELSE desc[d].cookie
  <2> SUFFICES ASSUME NEW d \in Desc
               PROVE  /\ desc'[d] \in DescType
                      /\ desc'[d].next = desc[d].next /\ desc'[d].compl_write = desc[d].compl_write
                      /\ desc'[d].part = desc[d].part
                      /\ desc'[d].cookie = IF d \in Completes(phys) THEN 0 ELSE desc[d].cookie
    OBVIOUS
  <2>1. desc[d] \in DescType
    BY <1>1
  <2>2. desc'[d] = IF d \in Completes(phys) THEN [desc[d] EXCEPT !.cookie = 0] ELSE desc[d]
    BY <1>14
  <2>3. QED
    BY <2>1, <2>2, BoundsAssumption DEF DescType
<1>16. \A i \in 1..r : i \in DOMAIN used_desc
  BY <1>1, <1>2
<1>17. \A d \in Desc : d \notin Elems(used_desc) => d \notin Completes(phys)
  BY <1>13, <1>16 DEF Elems
<1>18. \A i \in DOMAIN used_desc : desc'[used_desc[i]].cookie = IF i <= r THEN 0 ELSE desc[used_desc[i]].cookie
  <2> SUFFICES ASSUME NEW i \in DOMAIN used_desc
               PROVE  desc'[used_desc[i]].cookie = IF i <= r THEN 0 ELSE desc[used_desc[i]].cookie
    OBVIOUS
  <2>1. CASE i <= r
    <3>1. i \in 1..r
      BY <1>1, <1>2, <2>1
    <3>2. used_desc[i] \in Completes(phys) \/ desc[used_desc[i]].cookie = 0
      BY <3>1, <1>13
    <3>3. QED
      BY <2>1, <3>2, <1>1, <1>15
  <2>2. CASE ~(i <= r)
    <3>1. i \notin 1..r
      BY <1>1, <1>2, <2>2
    <3>2. used_desc[i] \notin Completes(phys)
      BY <3>1, <1>6, <1>13, <1>16 DEF Distinct
    <3>3. QED
      BY <2>2, <3>2, <1>1, <1>15
  <2>3. QED
    BY <2>1, <2>2
<1>19. state' = state \ ({"ACK"} \union (IF r = Len(used_desc) THEN {"PENDING"} ELSE {}))
  BY DEF __cleanup, StateAfter, Drained, r
<1>20. last_completion' = phys
  BY DEF __cleanup
<1>21. desc' \in [Desc -> DescType]
  BY <1>14, <1>15
<1>22. /\ used_desc' \in Seq(Desc) /\ Len(used_desc') = Len(used_desc) - r + 1 /\ Distinct(used_desc')
       /\ DOMAIN used_desc' = 1..(Len(used_desc) - r + 1)
  BY <1>5, <1>7, <1>11
<1>23. r = Reached(phys)
  BY DEF r
<1>24. Cleans(phys, r)
  BY <1>1, <1>2, <1>9, <1>10, <1>12, <1>15, <1>17, <1>18, <1>19, <1>20, <1>21, <1>22, <1>23 DEF Cleans
<1>25. QED
  BY <1>24

\* The set of clients between prep_memcpy and tx_submit is finite, and while it is not
\* empty there is a cookie left.
LEMMA CookieLeft ==
  ASSUME TypeOK, BoundInv, NEW c \in Clients, pc[c] = "prepared"
  PROVE  cookie + 1 \in 1..MaxCookie
<1> DEFINE P == {b \in Clients : pc[b] = "prepared"}
<1>1. IsFiniteSet(P) /\ P # {}
  BY ClientsAssumption, FS_Subset
<1>2. Cardinality(P) \in Nat /\ Cardinality(P) # 0
  <2> HIDE DEF P
  <2> QED
    BY <1>1, FS_CardinalityType, FS_EmptySet
<1>3. Cardinality(P) + cookie <= MaxCookie /\ cookie \in 0..MaxCookie
  BY DEF BoundInv, TypeOK
<1> HIDE DEF P
<1>4. QED
  BY <1>2, <1>3, BoundsAssumption

\* tx_submit appends the chain ds of client c, of n descriptors, to the m that are in
\* use, links the last one to it and gives the new cookie to its end.
Appends(c, ds, n, m) ==
  /\ ds \in Seq(Desc) /\ n \in 1..MaxParts /\ m \in Nat \ {0}
  /\ ds = chain[c] /\ n = Len(ds) /\ m = Len(used_desc) /\ DOMAIN ds = 1..n /\ DOMAIN used_desc = 1..m
  /\ desccount # 0 /\ cookie + 1 \in 1..MaxCookie /\ cookie' = cookie + 1
  /\ Last(used_desc) = used_desc[m] /\ used_desc[m] \in Desc
  /\ used_desc' \in Seq(Desc) /\ Len(used_desc') = m + n /\ DOMAIN used_desc' = 1..(m + n)
  /\ \A i \in 1..m : used_desc'[i] = used_desc[i]
  /\ \A i \in 1..n : used_desc'[m + i] = ds[i] /\ ds[i] \in Desc /\ ds[i] \in Elems(ds)
  /\ \A i \in 1..(m + n) : i \in 1..m \/ i - m \in 1..n
  /\ Distinct(used_desc') /\ Elems(used_desc') = Elems(used_desc) \union Elems(ds)
  /\ Elems(used_desc) \intersect Elems(ds) = {} /\ Elems(free_desc) \intersect Elems(ds) = {}
  /\ \A b \in Clients \ {c} : Elems(chain[b]) \intersect Elems(ds) = {}
  /\ desc' \in [Desc -> DescType]
  /\ \A d \in Desc : d \notin Elems(ds) =>
       /\ desc'[d].next = IF d = used_desc[m] THEN ds[1] ELSE desc[d].next
       /\ desc'[d].compl_write = desc[d].compl_write
       /\ desc'[d].cookie = desc[d].cookie /\ desc'[d].part = desc[d].part
  /\ \A i \in 1..n : /\ desc'[ds[i]].next = desc[ds[i]].next
                     /\ desc'[ds[i]].compl_write = desc[ds[i]].compl_write
                     /\ desc'[ds[i]].part = <<cookie + 1, i>>
                     /\ desc'[ds[i]].cookie = IF i = n THEN cookie + 1 ELSE desc[ds[i]].cookie

\* This is what tx_submit does.
LEMMA SubmitFacts ==
  ASSUME TypeOK, OnOneList, LinksFollowList, DownInv, ChainInv, BoundInv,
         NEW c \in Clients, tx_submit(c)
  PROVE  \E ds, n, m : Appends(c, ds, n, m)
<1> DEFINE ds == chain[c]
           n == Len(ds)
           m == Len(used_desc)
           At(d) == CHOOSE i \in 1..n : ds[i] = d
<1>1. /\ used_desc \in Seq(Desc) /\ ds \in Seq(Desc) /\ desc \in [Desc -> DescType] /\ cookie \in 0..MaxCookie
  BY DEF TypeOK, DescType
<1>2. pc[c] = "prepared" /\ n \in 1..MaxParts
  BY DEF tx_submit, ChainInv
<1>3. cookie + 1 \in 1..MaxCookie /\ cookie' = cookie + 1
  BY <1>2, CookieLeft DEF tx_submit
<1>4. desccount # 0 /\ used_desc # <<>>
  <2>1. desccount # 0
    BY <1>2 DEF DownInv
  <2>2. QED
    BY <2>1 DEF LinksFollowList
<1>5. m \in Nat \ {0} /\ DOMAIN used_desc = 1..m /\ DOMAIN ds = 1..n
  BY <1>1, <1>4, LenProperties, EmptySeq
<1>6. used_desc[m] \in Desc /\ Last(used_desc) = used_desc[m] /\ used_desc[m] \in Elems(used_desc)
  <2>1. m \in 1..m
    BY <1>5
  <2>2. QED
    BY <2>1, <1>1, <1>5, ElementOfSeq DEF Last, Elems
<1>7. /\ Distinct(used_desc) /\ Distinct(ds)
      /\ Elems(used_desc) \intersect Elems(ds) = {} /\ Elems(free_desc) \intersect Elems(ds) = {}
      /\ \A b \in Clients \ {c} : Elems(chain[b]) \intersect Elems(ds) = {}
  <2> USE DEF OnOneList
  <2>1. Distinct(used_desc)
    BY DEF Distinct
  <2>2. Distinct(chain[c])
    BY DEF Distinct
  <2>3. QED
    BY <2>1, <2>2
<1>8. /\ used_desc' = used_desc \o ds
      /\ desc' = [d \in Desc |->
                    IF d = Last(used_desc) THEN [desc[d] EXCEPT !.next = ds[1]]
                    ELSE IF d \notin Elems(ds) THEN desc[d]
                    ELSE [desc[d] EXCEPT !.part = <<cookie + 1, At(d)>>,
                                         !.cookie = IF At(d) = n THEN cookie + 1 ELSE @]]
  BY DEF tx_submit
<1> HIDE DEF ds, n
<1>9. /\ used_desc' \in Seq(Desc) /\ Len(used_desc') = m + n /\ DOMAIN used_desc' = 1..(m + n)
      /\ \A i \in 1..m : used_desc'[i] = used_desc[i]
      /\ \A i \in 1..n : used_desc'[m + i] = ds[i]
      /\ \A i \in DOMAIN used_desc' : i \in 1..m \/ i - m \in 1..n
      /\ Distinct(used_desc') /\ Elems(used_desc') = Elems(used_desc) \union Elems(ds)
  <2>1. used_desc \in Seq(Desc) /\ ds \in Seq(Desc)
    BY <1>1
  <2>2. /\ used_desc \o ds \in Seq(Desc) /\ Len(used_desc \o ds) = m + n /\ DOMAIN (used_desc \o ds) = 1..(m + n)
        /\ \A i \in 1..m : (used_desc \o ds)[i] = used_desc[i]
        /\ \A i \in 1..n : (used_desc \o ds)[m + i] = ds[i]
        /\ \A i \in DOMAIN (used_desc \o ds) : i \in 1..m \/ (i - m \in 1..n /\ (used_desc \o ds)[i] = ds[i - m])
        /\ Elems(used_desc \o ds) = Elems(used_desc) \union Elems(ds)
        /\ Distinct(used_desc) /\ Distinct(ds) /\ Elems(used_desc) \intersect Elems(ds) = {} => Distinct(used_desc \o ds)
    BY ONLY <2>1, Join DEF n, m
  <2> DEFINE both == used_desc \o ds
  <2>3. used_desc' = both
    BY <1>8
  <2> HIDE DEF both
  <2>4. QED
    BY <2>2, <2>3, <1>7 DEF both
<1> HIDE DEF m
<1>10. \A i \in 1..n : ds[i] \in Desc /\ ds[i] \in Elems(ds) /\ At(ds[i]) = i /\ ds[i] # Last(used_desc)
  <2> SUFFICES ASSUME NEW i \in 1..n
               PROVE  ds[i] \in Desc /\ ds[i] \in Elems(ds) /\ At(ds[i]) = i /\ ds[i] # Last(used_desc)
    OBVIOUS
  <2>1. ds[i] \in Desc /\ ds[i] \in Elems(ds)
    BY <1>1, <1>5, ElementOfSeq DEF Elems, n
  <2>2. \A j \in 1..n : ds[j] = ds[i] <=> j = i
    BY <1>5, <1>7 DEF Distinct
  <2>3. ds[i] # Last(used_desc)
    BY <2>1, <1>6, <1>7
  <2>4. QED
    BY <2>1, <2>2, <2>3
<1>11. \A d \in Elems(ds) : \E i \in 1..n : d = ds[i]
  BY <1>5 DEF Elems
<1> HIDE DEF At
<1>12. \A i \in 1..n : /\ desc'[ds[i]] \in DescType
                       /\ desc'[ds[i]].next = desc[ds[i]].next
                       /\ desc'[ds[i]].compl_write = desc[ds[i]].compl_write
                       /\ desc'[ds[i]].part = <<cookie + 1, i>>
                       /\ desc'[ds[i]].cookie = IF i = n THEN cookie + 1 ELSE desc[ds[i]].cookie
  <2> SUFFICES ASSUME NEW i \in 1..n
               PROVE  /\ desc'[ds[i]] \in DescType
                      /\ desc'[ds[i]].next = desc[ds[i]].next
                      /\ desc'[ds[i]].compl_write = desc[ds[i]].compl_write
                      /\ desc'[ds[i]].part = <<cookie + 1, i>>
                      /\ desc'[ds[i]].cookie = IF i = n THEN cookie + 1 ELSE desc[ds[i]].cookie
    OBVIOUS
  <2>1. desc'[ds[i]] = [desc[ds[i]] EXCEPT !.part = <<cookie + 1, i>>,
                                           !.cookie = IF i = n THEN cookie + 1 ELSE @]
    BY <1>8, <1>10
  <2>2. desc[ds[i]] \in DescType
    BY <1>1, <1>10
  <2>3. <<cookie + 1, i>> \in Part
    <3>1. i \in 1..MaxParts
      BY <1>2, BoundsAssumption
    <3>2. QED
      BY <3>1, <1>3 DEF Part
  <2>4. cookie + 1 \in 0..MaxCookie
    BY <1>3
  <2>5. QED
    BY <2>1, <2>2, <2>3, <2>4 DEF DescType
<1>13. \A d \in Desc : d \notin Elems(ds) =>
         /\ desc'[d] \in DescType
         /\ desc'[d].next = IF d = used_desc[m] THEN ds[1] ELSE desc[d].next
         /\ desc'[d].compl_write = desc[d].compl_write
         /\ desc'[d].cookie = desc[d].cookie /\ desc'[d].part = desc[d].part
  <2> SUFFICES ASSUME NEW d \in Desc, d \notin Elems(ds)
               PROVE  /\ desc'[d] \in DescType
                      /\ desc'[d].next = IF d = used_desc[m] THEN ds[1] ELSE desc[d].next
                      /\ desc'[d].compl_write = desc[d].compl_write
                      /\ desc'[d].cookie = desc[d].cookie /\ desc'[d].part = desc[d].part
    OBVIOUS
  <2>1. desc[d] \in DescType
    BY <1>1
  <2>2. desc'[d] = IF d = used_desc[m] THEN [desc[d] EXCEPT !.next = ds[1]] ELSE desc[d]
    BY <1>6, <1>8
  <2>3. ds[1] \in 0..MaxDesc
    <3>1. 1 \in 1..n
      BY <1>2, BoundsAssumption
    <3>2. QED
      BY <3>1, <1>10, DescAssumption DEF Desc
  <2>4. QED
    BY <2>1, <2>2, <2>3 DEF DescType
<1>14. desc' \in [Desc -> DescType]
  <2>1. \A d \in Desc : desc'[d] \in DescType
    BY <1>11, <1>12, <1>13
  <2>2. QED
    BY <2>1, <1>8
<1>15. ds = chain[c] /\ n = Len(ds) /\ m = Len(used_desc)
  BY DEF ds, n, m
<1>16. \A i \in 1..(m + n) : i \in 1..m \/ i - m \in 1..n
  BY <1>9
<1>17. ds \in Seq(Desc) /\ n \in 1..MaxParts /\ m \in Nat \ {0}
  BY <1>1, <1>2, <1>5
<1>18. Appends(c, ds, n, m)
  <2>1. \A i \in 1..n : used_desc'[m + i] = ds[i] /\ ds[i] \in Desc /\ ds[i] \in Elems(ds)
    BY ONLY <1>9, <1>10
  <2>2. \A d \in Desc : d \notin Elems(ds) =>
          /\ desc'[d].next = IF d = used_desc[m] THEN ds[1] ELSE desc[d].next
          /\ desc'[d].compl_write = desc[d].compl_write
          /\ desc'[d].cookie = desc[d].cookie /\ desc'[d].part = desc[d].part
    BY ONLY <1>13
  <2>3. \A i \in 1..n : /\ desc'[ds[i]].next = desc[ds[i]].next
                         /\ desc'[ds[i]].compl_write = desc[ds[i]].compl_write
                         /\ desc'[ds[i]].part = <<cookie + 1, i>>
                         /\ desc'[ds[i]].cookie = IF i = n THEN cookie + 1 ELSE desc[ds[i]].cookie
    BY ONLY <1>12
  <2>4. QED
    BY ONLY <1>3, <1>4, <1>5, <1>6, <1>7, <1>9, <1>14, <1>15, <1>16, <1>17, <2>1, <2>2, <2>3, Zenon DEF Appends
<1>19. QED
  BY <1>18

-----------------------------------------------------------------------------
(* What holds of the lists, whatever the engine and the timer do.          *)

\* What a cleanup by a poller, the tasklet or the timer leaves alone, and where the
\* address it was given is.
CleanFrame(phys) ==
  /\ UNCHANGED <<pending, desccount, cookie, completion, tpc, status, clients, hw, history>>
  /\ completed_cookie' = Completed(phys) /\ active' = StillActive(phys)
  /\ phys \in 1..MaxDesc /\ desccount # 0 /\ tpc = "idle"
  /\ Before(last_completion, phys) /\ Before(phys, completion)
  /\ cleanup_lock' = "none" /\ phys_complete' = 0
  /\ timer' \in {timer, TRUE} /\ tasklet' \in {tasklet, FALSE}

\* The used list is a list of addresses, none of them 0.
LEMMA UsedType ==
  ASSUME TypeOK
  PROVE  /\ used_desc \in Seq(Desc) /\ Len(used_desc) \in Nat /\ DOMAIN used_desc = 1..Len(used_desc)
         /\ \A i \in DOMAIN used_desc : used_desc[i] \in Desc /\ used_desc[i] # 0
<1>1. used_desc \in Seq(Desc)
  BY DEF TypeOK
<1>2. Len(used_desc) \in Nat /\ DOMAIN used_desc = 1..Len(used_desc) /\ \A i \in DOMAIN used_desc : used_desc[i] \in Desc
  BY <1>1, ElementOfSeq, LenProperties
<1>3. \A d \in Desc : d # 0
  BY DescAssumption DEF Desc
<1>4. QED
  BY <1>1, <1>2, <1>3

\* Every cleanup finds the address it was given on the used list.
LEMMA CleanCases ==
  ASSUME ListInv, (\E p \in Cleaners : cleanup(p)) \/ timer_cleanup
  PROVE  \E phys, r : Cleans(phys, r) /\ CleanFrame(phys)
<1> DEFINE phys == IF cleanup_lock # "none" THEN phys_complete ELSE completion
<1>1. /\ TypeOK /\ OnOneList /\ DownInv /\ LockInv /\ MarkInv
  BY DEF ListInv
<1>2. phys_complete \in 0..MaxDesc /\ completion \in 0..MaxDesc /\ last_completion \in 0..MaxDesc
  BY <1>1 DEF TypeOK
<1>3. /\ __cleanup(phys) /\ desccount # 0 /\ tpc = "idle" /\ cleanup_lock' = "none" /\ phys_complete' = 0
      /\ UNCHANGED <<pending, desccount, cookie, completion, tpc, status, clients, hw, history>>
      /\ timer' \in {timer, TRUE} /\ tasklet' \in {tasklet, FALSE}
      /\ cleanup_lock = "none" => completion # last_completion
  <2>1. ASSUME NEW p \in Cleaners, cleanup(p)
        PROVE  /\ __cleanup(phys) /\ desccount # 0 /\ tpc = "idle" /\ cleanup_lock' = "none" /\ phys_complete' = 0
               /\ UNCHANGED <<pending, desccount, cookie, completion, tpc, status, clients, hw, history>>
               /\ timer' \in {timer, TRUE} /\ tasklet' \in {tasklet, FALSE}
               /\ cleanup_lock = "none" => completion # last_completion
    <3>1. cleanup_lock = p /\ p # "none" /\ __cleanup(phys_complete)
      BY <2>1, ClientsAssumption DEF cleanup, Cleaners
    <3>2. phys = phys_complete
      BY <3>1
    <3> HIDE DEF phys
    <3>3. desccount # 0 /\ tpc = "idle"
      BY <1>1, <3>1 DEF DownInv, LockInv
    <3>4. tasklet' \in {tasklet, FALSE}
      <4>1. p = "tasklet" => tasklet' = FALSE
        BY <2>1 DEF cleanup, Unlock
      <4>2. p # "tasklet" => tasklet' = (tasklet /\ TRUE)
        BY <2>1 DEF cleanup, Unlock
      <4>3. tasklet \in BOOLEAN
        BY <1>1 DEF TypeOK
      <4>4. QED
        BY <4>1, <4>2, <4>3
    <3>5. QED
      BY <2>1, <3>1, <3>2, <3>3, <3>4 DEF cleanup, Unlock
  <2>2. ASSUME timer_cleanup
        PROVE  /\ __cleanup(phys) /\ desccount # 0 /\ tpc = "idle" /\ cleanup_lock' = "none" /\ phys_complete' = 0
               /\ UNCHANGED <<pending, desccount, cookie, completion, tpc, status, clients, hw, history>>
               /\ timer' \in {timer, TRUE} /\ tasklet' \in {tasklet, FALSE}
               /\ cleanup_lock = "none" => completion # last_completion
    BY <2>2, <1>1 DEF timer_cleanup, Overdue, Expires, cleaning, LockInv
  <2>3. QED
    BY <2>1, <2>2
<1>4. phys \in 1..MaxDesc /\ Before(last_completion, phys) /\ Before(phys, completion)
  <2>1. Before(last_completion, completion) /\ Before(completion, completion)
    BY <1>1, <1>3 DEF MarkInv, Up
  <2>2. CASE cleanup_lock # "none"
    BY <1>1, <1>2, <1>3, <2>2 DEF MarkInv, Up, LockInv
  <2>3. CASE cleanup_lock = "none"
    <3>1. \A i \in DOMAIN used_desc : used_desc[i] # 0
      BY <1>1, UsedType
    <3>2. completion # 0
      BY <1>3, <2>1, <2>3, <3>1 DEF Before, BeforeIn
    <3>3. QED
      BY <1>2, <2>1, <2>3, <3>2
  <2>4. QED
    BY <2>2, <2>3
<1> HIDE DEF phys
<1>5. Found(phys)
  <2>1. phys # 0
    BY <1>4
  <2>2. QED
    BY <1>4, <2>1 DEF Before, BeforeIn, Found, Elems
<1>6. phys \in 0..MaxDesc
  BY <1>4
<1>7. PICK r : Cleans(phys, r)
  BY <1>1, <1>3, <1>5, <1>6, CleanFacts
<1>8. CleanFrame(phys)
  BY <1>3, <1>4 DEF CleanFrame, __cleanup
<1>9. QED
  BY <1>7, <1>8

\* Every step keeps the variables in their types.
LEMMA TypeStep == ListInv /\ [Next]_vars => TypeOK'
<1> SUFFICES ASSUME ListInv, [Next]_vars PROVE TypeOK'
  OBVIOUS
<1> USE DescAssumption, BoundsAssumption, ClientsAssumption
<1>0. TypeOK /\ OnOneList /\ LinksFollowList /\ DownInv /\ ChainInv /\ BoundInv /\ LockInv /\ MarkInv
  BY DEF ListInv
<1>t. 1 \in Desc /\ 0 \in 0..MaxDesc /\ Desc \subseteq 0..MaxDesc
  BY DEF Desc
<1>d. \A d \in Desc : desc[d].next \in 0..MaxDesc
  BY <1>0 DEF TypeOK
<1>1. CASE alloc_chan_resources
  <2>1. free_desc' \in Seq(Desc) /\ used_desc' \in Seq(Desc)
    <3>1. [i \in 1..(InitialDescs - 1) |-> i + 1] \in Seq(Desc)
      <4>1. InitialDescs - 1 \in Nat /\ \A i \in 1..(InitialDescs - 1) : i + 1 \in Desc
        BY DEF Desc
      <4>2. QED
        BY <4>1
    <3>2. <<1>> \in Seq(Desc)
      BY <1>t
    <3>3. QED
      BY <1>1, <3>1, <3>2 DEF alloc_chan_resources
  <2>2. desc' \in [Desc -> DescType]
    <3>1. \A b \in BOOLEAN : [Blank EXCEPT !.compl_write = b] \in DescType
      BY <1>t DEF Blank, DescType, Part
    <3>2. \A d \in Desc : (d = 1) \in BOOLEAN
      OBVIOUS
    <3>3. desc' = [d \in Desc |-> [Blank EXCEPT !.compl_write = (d = 1)]]
      BY <1>1 DEF alloc_chan_resources
    <3>4. QED
      BY <3>1, <3>2, <3>3
  <2>3. /\ desccount' \in {0, InitialDescs} /\ allocs' \in 0..MaxAllocs /\ completion' = 0
        /\ hw_state' = "run" /\ hw_cur' = 1 /\ hw_next' = 0 /\ hw_append' = FALSE /\ UNCHANGED <<hw_last, suspended>>
        /\ UNCHANGED <<pending, active, cookies, last_completion, watchdog, cleaning, tasklet, clients, parts, executed, fault>>
    <3>1. allocs \in 0..MaxAllocs
      BY <1>0 DEF TypeOK
    <3>2. allocs' \in 0..MaxAllocs
      BY <1>1, <3>1 DEF alloc_chan_resources
    <3>3. QED
      BY <1>1, <3>2 DEF alloc_chan_resources, Desccount, Start
  <2>4. 1 \in 0..MaxDesc
    OBVIOUS
  <2>5. QED
    BY <1>0, <1>t, <2>1, <2>2, <2>3, <2>4 DEF TypeOK, DescType, cookies, watchdog, cleaning, clients
<1>2. CASE free_chan_resources
  <2>1. completion \in 0..MaxDesc
    BY <1>0 DEF TypeOK
  <2>2. /\ Completed(completion) \in 0..MaxCookie /\ StillActive(completion) \in Int
        /\ StateAfter(completion) \subseteq state
    BY <1>0, <2>1, CleanType
  <2>3. completed_cookie' \in 0..MaxCookie /\ active' \in Int /\ state' \subseteq state /\ timer' \in BOOLEAN
    BY <1>2, <1>0, <2>2 DEF free_chan_resources, TypeOK
  <2>4. <<>> \in Seq(Desc)
    OBVIOUS
  <2>5. /\ free_desc' = <<>> /\ used_desc' = <<>> /\ last_completion' = 0 /\ pending' = 0 /\ desccount' = 0
        /\ hw_state' = "reset" /\ hw_cur' = 0 /\ hw_next' = 0 /\ hw_last' = 0 /\ hw_append' = FALSE /\ suspended' = FALSE
        /\ UNCHANGED <<desc, cookie, completion, tpc, status, cleaning, tasklet, clients, history>>
    BY <1>2 DEF free_chan_resources, Reset
  <2>6. state' \subseteq {"PENDING", "ACK", "RESET"} /\ pending' \in Int
    BY <1>0, <2>3, <2>5 DEF TypeOK
  <2>7. free_desc' \in Seq(Desc) /\ used_desc' \in Seq(Desc)
    BY <2>4, <2>5
  <2>8. QED
    BY <1>0, <1>t, <2>3, <2>5, <2>6, <2>7 DEF TypeOK, cleaning, clients, history
<1>3. ASSUME NEW c \in Clients, NEW n \in 1..MaxParts, prep_memcpy(c, n) PROVE TypeOK'
  <2>1. PICK ds : Prepares(c, n, ds)
    BY <1>0, <1>3, PrepFacts
  <2>2. free_desc' \in Seq(Desc) /\ desc' \in [Desc -> DescType] /\ chain' \in [Clients -> Seq(Desc)]
    BY <1>0, <2>1 DEF Prepares, TypeOK
  <2>3. pc' \in [Clients -> {"idle", "prepared", "submitted", "retry", "issue_wait", "issue_retry", "waiting"}]
    BY <1>0, <1>3 DEF prep_memcpy, TypeOK
  <2>4. QED
    BY <1>3, <1>0, <2>2, <2>3 DEF prep_memcpy, TypeOK, DescType, counters, cookies, marks, watchdog, cleaning, hw, history
<1>4. ASSUME NEW c \in Clients, NEW n \in 1..MaxParts, prep_memcpy_fails(c, n) PROVE TypeOK'
  <2>1. free_desc' \in Seq(Desc)
    BY <1>0, <1>4, FailFacts
  <2>2. pc' \in [Clients -> {"idle", "prepared", "submitted", "retry", "issue_wait", "issue_retry", "waiting"}]
    BY <1>0, <1>4 DEF prep_memcpy_fails, TypeOK
  <2>3. QED
    BY <1>4, <1>0, <2>1, <2>2 DEF prep_memcpy_fails, TypeOK, counters, cookies, marks, watchdog, cleaning, hw, history
<1>5. ASSUME NEW c \in Clients, tx_submit(c) PROVE TypeOK'
  <2>1. PICK ds, n, m : Appends(c, ds, n, m)
    BY <1>0, <1>5, SubmitFacts
  <2>2. /\ used_desc' \in Seq(Desc) /\ desc' \in [Desc -> DescType] /\ cookie' \in 0..MaxCookie
        /\ n \in 1..MaxParts /\ n = Len(chain[c]) /\ cookie + 1 \in 0..MaxCookie /\ cookie' = cookie + 1
    BY <2>1 DEF Appends
  <2>3. pc' \in [Clients -> {"idle", "prepared", "submitted", "retry", "issue_wait", "issue_retry", "waiting"}]
    BY <1>0, <1>5 DEF tx_submit, TypeOK
  <2>4. wait' \in [Clients -> 0..MaxCookie]
    BY <1>0, <1>5, <2>2 DEF tx_submit, TypeOK
  <2>5. chain' \in [Clients -> Seq(Desc)]
    <3>1. <<>> \in Seq(Desc)
      OBVIOUS
    <3>2. QED
      BY <1>0, <1>5, <3>1 DEF tx_submit, TypeOK
  <2>6. parts' \in Seq(1..MaxParts)
    <3>1. parts' = Append(parts, n) /\ parts \in Seq(1..MaxParts)
      BY <1>0, <1>5, <2>2 DEF tx_submit, TypeOK
    <3>2. QED
      BY <2>2, <3>1
  <2>7. pending' \in Int /\ active' \in Int
    <3>1. /\ pending' = 0 \/ pending' = pending + n
          /\ active' = active + n
      BY <1>5, <2>2 DEF tx_submit
    <3>2. pending \in Int /\ active \in Int
      BY <1>0 DEF TypeOK
    <3>3. n \in Int
      BY <2>2
    <3>4. QED
      BY <3>1, <3>2, <3>3
  <2>8. timer' \in BOOLEAN /\ state' \subseteq {"PENDING", "ACK", "RESET"}
    BY <1>0, <1>5 DEF tx_submit, TypeOK
  <2>9. /\ hw_append' \in BOOLEAN /\ UNCHANGED <<hw_state, hw_cur, hw_next, hw_last, suspended>>
    BY <1>0, <1>5 DEF tx_submit, TypeOK, AppendCommand, hw
  <2>10. UNCHANGED <<free_desc, desccount, completed_cookie, marks, tpc, status, cleaning, tasklet, executed, allocs, fault>>
    BY <1>5 DEF tx_submit
  <2>11. QED
    BY <1>0, <2>2, <2>3, <2>4, <2>5, <2>6, <2>7, <2>8, <2>9, <2>10 DEF TypeOK, DescType, marks, cleaning
<1>6. ASSUME NEW c \in Clients, issue_pending(c) \/ __issue_pending(c) \/ wait_done(c) \/ wait_timeout(c) PROVE TypeOK'
  <2>1. pc' \in [Clients -> {"idle", "prepared", "submitted", "retry", "issue_wait", "issue_retry", "waiting"}]
    BY <1>0, <1>6 DEF issue_pending, __issue_pending, wait_done, wait_timeout, TypeOK
  <2>2. wait' \in [Clients -> 0..MaxCookie]
    BY <1>0, <1>6, SMTT(30) DEF issue_pending, __issue_pending, wait_done, wait_timeout, TypeOK
  <2>3. pending' \in Int /\ hw_append' \in BOOLEAN /\ UNCHANGED <<hw_state, hw_cur, hw_next, hw_last, suspended>>
    <3>1. pending \in Int /\ hw_append \in BOOLEAN
      BY <1>0 DEF TypeOK
    <3>2. CASE __issue_pending(c)
      BY <3>1, <3>2 DEF __issue_pending, AppendCommand
    <3>3. CASE issue_pending(c) \/ wait_done(c) \/ wait_timeout(c)
      BY <3>1, <3>3 DEF issue_pending, wait_done, wait_timeout, hw, counters
    <3>4. QED
      BY <1>6, <3>2, <3>3
  <2>4. UNCHANGED <<lists, active, desccount, cookies, marks, watchdog, cleaning, tasklet, chain, history>>
    BY <1>6 DEF issue_pending, __issue_pending, wait_done, wait_timeout, counters
  <2>5. QED
    BY <1>0, <2>1, <2>2, <2>3, <2>4 DEF TypeOK, lists, cookies, marks, watchdog, cleaning, history
<1>7. ASSUME (\E p \in Cleaners : cleanup(p)) \/ timer_cleanup PROVE TypeOK'
  <2>1. PICK phys, r : Cleans(phys, r) /\ CleanFrame(phys)
    BY <1>7, CleanCases
  <2>2. phys \in 0..MaxDesc
    BY <2>1 DEF CleanFrame
  <2>3. Completed(phys) \in 0..MaxCookie /\ StillActive(phys) \in Int
    BY <1>0, <2>2, CleanType
  <2>4. /\ used_desc' \in Seq(Desc) /\ free_desc' \in Seq(Desc) /\ desc' \in [Desc -> DescType]
        /\ last_completion' = phys /\ state' \subseteq state
    BY <2>1 DEF Cleans
  <2>5. QED
    BY <1>0, <1>t, <2>1, <2>2, <2>3, <2>4 DEF CleanFrame, TypeOK, DescType, clients, hw, history
<1>8. ASSUME NEW p \in Cleaners, cleanup_preamble(p) \/ cleanup_contended(p) PROVE TypeOK'
  <2>1. /\ cleanup_lock' \in Cleaners \union {"none"} /\ phys_complete' \in 0..MaxDesc /\ tasklet' \in BOOLEAN
        /\ timer' \in BOOLEAN /\ state' \subseteq {"PENDING", "ACK", "RESET"}
        /\ UNCHANGED <<lists, counters, cookies, marks, tpc, status, clients, hw, history>>
    BY <1>0, <1>8, <1>t DEF cleanup_preamble, cleanup_contended, Unlock, TypeOK, watchdog
  <2>2. QED
    BY <1>0, <2>1 DEF TypeOK, lists, counters, cookies, marks, clients, hw, history
<1>9. CASE tasklet_returns
  BY <1>9, <1>0 DEF tasklet_returns, TypeOK, lists, counters, cookies, marks, watchdog, cleaning, clients, hw, history
<1>10. CASE timer_after_free \/ timer_nothing \/ timer_check \/ timer_update
  <2>1. /\ timer' \in BOOLEAN /\ fault' \in BOOLEAN /\ status' \in 0..MaxDesc /\ tpc' \in {"idle", "update", "reset"}
        /\ state' \subseteq {"PENDING", "ACK", "RESET"} /\ completion' \in 0..MaxDesc
        /\ UNCHANGED <<lists, counters, cookies, last_completion, cleaning, tasklet, clients, hw, parts, executed, allocs>>
    <3>0. /\ {completion, status, hw_last} \subseteq 0..MaxDesc /\ state \subseteq {"PENDING", "ACK", "RESET"}
          /\ fault \in BOOLEAN /\ tpc \in {"idle", "update", "reset"} /\ 0 \in 0..MaxDesc
      BY <1>0, <1>t DEF TypeOK
    <3>1. CASE timer_after_free
      BY <3>0, <3>1 DEF timer_after_free, marks
    <3>2. CASE timer_nothing
      BY <3>0, <3>2 DEF timer_nothing, marks, history
    <3>3. CASE timer_check
      BY <3>0, <3>3 DEF timer_check, marks, history
    <3>4. CASE timer_update
      BY <3>0, <3>4 DEF timer_update, marks, history
    <3>5. QED
      BY <1>10, <3>1, <3>2, <3>3, <3>4
  <2>2. QED
    BY <1>0, <2>1 DEF TypeOK, lists, counters, cookies, cleaning, clients, hw
<1>11. CASE timer_restart
  <2>1. used_desc # <<>>
    BY <1>11, <1>0 DEF timer_restart, LinksFollowList
  <2>2. Last(used_desc) \in Desc
    <3>1. Len(used_desc) \in 1..Len(used_desc)
      BY <1>0, <2>1, EmptySeq DEF TypeOK
    <3>2. QED
      BY <1>0, <3>1, UsedType DEF Last
  <2>3. hw_cur' \in 0..MaxDesc /\ hw_next' \in 0..MaxDesc /\ hw_state' = "run" /\ hw_append' = FALSE
    BY <1>11, <1>d, <1>t, <2>2 DEF timer_restart, Start
  <2>4. /\ pending' = 0 /\ state' = (state \ {"RESET"}) \union {"PENDING"} /\ timer' = TRUE
        /\ UNCHANGED <<hw_last, suspended, lists, active, desccount, cookies, marks, tpc, status, cleaning, tasklet, clients, history>>
    BY <1>11 DEF timer_restart, Start
  <2>5. pending' \in Int /\ state' \subseteq {"PENDING", "ACK", "RESET"}
    BY <1>0, <2>4 DEF TypeOK
  <2>6. QED
    BY <1>0, <2>3, <2>4, <2>5 DEF TypeOK, lists, cookies, marks, cleaning, clients, history
<1>12. CASE reset_channel
  <2>1. /\ pending' = INT_MIN /\ state' = state \union {"RESET"} /\ timer' = TRUE /\ tpc' = "idle"
        /\ hw_state' = "reset" /\ hw_cur' = 0 /\ hw_next' = 0 /\ hw_last' = 0 /\ hw_append' = FALSE /\ suspended' = FALSE
        /\ UNCHANGED <<lists, active, desccount, cookies, marks, status, cleaning, tasklet, clients, history>>
    BY <1>12 DEF reset_channel, Reset
  <2>2. pending' \in Int /\ state' \subseteq {"PENDING", "ACK", "RESET"}
    BY <1>0, <2>1 DEF TypeOK, INT_MIN
  <2>3. QED
    BY <1>0, <1>t, <2>1, <2>2 DEF TypeOK, lists, cookies, marks, cleaning, clients, history
<1>13. CASE hw_execute
  <2>1. hw_cur \in Desc /\ (hw_next # 0 => hw_next \in Desc)
    <3>1. desccount # 0
      BY <1>0, <1>13 DEF hw_execute, DownInv
    <3>2. hw_cur # 0
      BY <1>0, <1>13, <3>1 DEF hw_execute, MarkInv, Up
    <3>3. hw_cur \in 0..MaxDesc /\ hw_next \in 0..MaxDesc
      BY <1>0 DEF TypeOK
    <3>4. QED
      BY <3>2, <3>3 DEF Desc
  <2>2. desc[hw_cur].part \in Part
    BY <1>0, <2>1 DEF TypeOK
  <2>3. /\ hw_last' \in 0..MaxDesc /\ completion' \in 0..MaxDesc /\ executed' \subseteq Part /\ tasklet' \in BOOLEAN
        /\ hw_state' \in {"reset", "run", "idle", "halted"} /\ hw_cur' \in 0..MaxDesc /\ hw_next' \in 0..MaxDesc
    BY <1>0, <1>13, <1>d, <2>1, <2>2 DEF hw_execute, TypeOK
  <2>4. QED
    BY <1>0, <1>13, <2>3 DEF hw_execute, TypeOK, lists, counters, cookies, watchdog, cleaning, clients
<1>14. CASE hw_reads_append
  <2>1. hw_cur \in Desc
    <3>1. desccount # 0
      BY <1>0, <1>14 DEF hw_reads_append, DownInv
    <3>2. hw_cur # 0
      BY <1>0, <1>14, <3>1 DEF hw_reads_append, MarkInv, Up
    <3>3. hw_cur \in 0..MaxDesc /\ hw_next \in 0..MaxDesc
      BY <1>0 DEF TypeOK
    <3>4. QED
      BY <3>2, <3>3 DEF Desc
  <2>2. LET n == desc[hw_cur].next IN n # 0 => n \in Desc
    BY <1>d, <2>1 DEF Desc
  <2>3. /\ hw_state' \in {"reset", "run", "idle", "halted"} /\ hw_cur' \in 0..MaxDesc /\ hw_next' \in 0..MaxDesc
    BY <1>0, <1>14, <1>d, <1>t, <2>1, <2>2 DEF hw_reads_append, TypeOK
  <2>4. QED
    BY <1>0, <1>14, <2>3 DEF hw_reads_append, TypeOK, lists, counters, cookies, marks, watchdog, cleaning, clients, history
<1>15. CASE hw_halt
  BY <1>0, <1>15 DEF hw_halt, TypeOK, lists, counters, cookies, watchdog, cleaning, clients, history
<1>16. CASE suspend_chan \/ resume_chan
  <2>1. CASE suspend_chan
    BY <1>0, <2>1 DEF suspend_chan, TypeOK, lists, counters, cookies, marks, watchdog, cleaning, clients, history
  <2>2. CASE resume_chan
    BY <1>0, <2>2 DEF resume_chan, TypeOK, lists, counters, cookies, marks, watchdog, cleaning, clients, history
  <2>3. QED
    BY <1>16, <2>1, <2>2
<1>17. CASE UNCHANGED vars
  BY <1>0, <1>17 DEF vars, TypeOK, lists, counters, cookies, marks, watchdog, cleaning, clients, hw, history
<1>18. QED
  BY <1>1, <1>2, <1>3, <1>4, <1>5, <1>6, <1>7, <1>8, <1>9, <1>10, <1>11, <1>12, <1>13, <1>14, <1>15, <1>16, <1>17
     DEF Next, Client, Cleanup, Timer, Engine, AtRest

\* A step that leaves the lists alone.
Quiet ==
  /\ UNCHANGED <<free_desc, used_desc, desc, chain, cookie, completed_cookie, desccount, allocs>>
  /\ \A c \in Clients : pc'[c] = "prepared" <=> pc[c] = "prepared"

\* The kinds of steps there are, for the lists.
LEMMA Kinds ==
  ASSUME ListInv, [Next]_vars
  PROVE  \/ alloc_chan_resources \/ free_chan_resources
         \/ \E c \in Clients, n \in 1..MaxParts : prep_memcpy(c, n)
         \/ \E c \in Clients, n \in 1..MaxParts : prep_memcpy_fails(c, n)
         \/ \E c \in Clients : tx_submit(c)
         \/ \E phys, r : Cleans(phys, r) /\ CleanFrame(phys)
         \/ Quiet
<1>0. pc \in [Clients -> {"idle", "prepared", "submitted", "retry", "issue_wait", "issue_retry", "waiting"}]
  BY DEF ListInv, TypeOK
<1>1. ASSUME NEW c \in Clients, issue_pending(c) \/ __issue_pending(c) \/ wait_done(c) \/ wait_timeout(c) PROVE Quiet
  BY <1>0, <1>1 DEF issue_pending, __issue_pending, wait_done, wait_timeout, Quiet, lists, counters, cookies, history
<1>2. ASSUME NEW p \in Cleaners, cleanup_preamble(p) \/ cleanup_contended(p) PROVE Quiet
  BY <1>2 DEF cleanup_preamble, cleanup_contended, Quiet, lists, counters, cookies, history, clients
<1>3. ASSUME tasklet_returns \/ timer_after_free \/ timer_nothing \/ timer_check \/ timer_update \/ timer_restart \/ reset_channel
      PROVE  Quiet
  BY <1>3 DEF tasklet_returns, timer_after_free, timer_nothing, timer_check, timer_update, timer_restart, reset_channel,
              Quiet, lists, counters, cookies, history, clients
<1>4. ASSUME Engine PROVE Quiet
  BY <1>4 DEF Engine, hw_execute, hw_reads_append, hw_halt, suspend_chan, resume_chan, Quiet, lists, counters, cookies, history, clients
<1>5. ASSUME UNCHANGED vars PROVE Quiet
  BY <1>5 DEF vars, Quiet, lists, counters, cookies, history, clients
<1>6. QED
  BY <1>1, <1>2, <1>3, <1>4, <1>5, CleanCases DEF Next, Client, Cleanup, Timer, AtRest

\* OnOneList, list by list.
OneList ==
  /\ Distinct(free_desc) /\ Distinct(used_desc) /\ \A c \in Clients : Distinct(chain[c])
  /\ Elems(free_desc) \intersect Elems(used_desc) = {}
  /\ \A c \in Clients : /\ Elems(chain[c]) \intersect Elems(free_desc) = {}
                        /\ Elems(chain[c]) \intersect Elems(used_desc) = {}
  /\ \A b, c \in Clients : b # c => Elems(chain[b]) \intersect Elems(chain[c]) = {}

\* The two say the same.
LEMMA OneListIs == OnOneList <=> OneList
<1>1. OnOneList => OneList
  <2> SUFFICES ASSUME OnOneList PROVE OneList
    OBVIOUS
  <2>1. Distinct(free_desc) /\ Distinct(used_desc)
    BY DEF OnOneList, Distinct
  <2>2. \A c \in Clients : Distinct(chain[c])
    BY DEF OnOneList, Distinct
  <2>3. QED
    BY <2>1, <2>2 DEF OnOneList, OneList
<1>2. OneList => OnOneList
  <2> SUFFICES ASSUME OneList PROVE OnOneList
    OBVIOUS
  <2>1. ASSUME NEW l \in {free_desc, used_desc} \union {chain[c] : c \in Clients} PROVE Distinct(l)
    BY DEF OneList
  <2>2. QED
    BY <2>1 DEF OnOneList, OneList, Distinct
<1>3. QED
  BY <1>1, <1>2

\* A descriptor stays on one list.
LEMMA OneListStep == ListInv /\ [Next]_vars => OnOneList'
<1> SUFFICES ASSUME ListInv, [Next]_vars PROVE OneList'
  BY OneListIs, PTL
<1>0. TypeOK /\ OnOneList /\ LinksFollowList /\ DownInv /\ ChainInv /\ BoundInv /\ OneList
  BY OneListIs DEF ListInv
<1>e. \A S : Elems(<<>>) \intersect S = {} /\ S \intersect Elems(<<>>) = {} /\ Distinct(<<>>)
  BY DEF Elems, Distinct
<1>c. chain \in [Clients -> Seq(Desc)]
  BY <1>0 DEF TypeOK
<1>1. CASE alloc_chan_resources
  <2>1. \A c \in Clients : chain[c] = <<>>
    BY <1>0, <1>1 DEF alloc_chan_resources, DownInv, ChainInv
  <2>2. /\ free_desc' = [i \in 1..(InitialDescs - 1) |-> i + 1] /\ used_desc' = <<1>> /\ chain' = chain
    BY <1>1 DEF alloc_chan_resources, clients
  <2>3. Distinct(free_desc') /\ Distinct(used_desc') /\ Elems(free_desc') \intersect Elems(used_desc') = {}
    BY <2>2, DescAssumption DEF Distinct, Elems
  <2>4. QED
    BY <1>e, <2>1, <2>2, <2>3 DEF OneList
<1>2. CASE free_chan_resources
  <2>1. free_desc' = <<>> /\ used_desc' = <<>> /\ chain' = chain
    BY <1>2 DEF free_chan_resources, clients
  <2>2. QED
    BY <1>0, <1>e, <2>1 DEF OneList
<1>3. ASSUME NEW c \in Clients, NEW n \in 1..MaxParts, prep_memcpy(c, n) PROVE OneList'
  <2>1. PICK ds : Prepares(c, n, ds)
    BY <1>0, <1>3, PrepFacts
  <2>2. used_desc' = used_desc
    BY <1>3 DEF prep_memcpy
  <2>3. chain'[c] = ds /\ \A b \in Clients : b # c => chain'[b] = chain[b]
    BY <1>c, <2>1 DEF Prepares
  <2>4. /\ Distinct(ds) /\ Distinct(free_desc') /\ Elems(free_desc') \subseteq Elems(free_desc)
        /\ Elems(ds) \intersect (Elems(free_desc') \union Elems(used_desc)) = {}
        /\ \A b \in Clients : Elems(ds) \intersect Elems(chain[b]) = {}
    BY <2>1 DEF Prepares
  <2>5. QED
    BY <1>0, <2>2, <2>3, <2>4 DEF OneList
<1>4. ASSUME NEW c \in Clients, NEW n \in 1..MaxParts, prep_memcpy_fails(c, n) PROVE OneList'
  <2>1. /\ Distinct(free_desc') /\ Elems(free_desc') \intersect Elems(used_desc) = {}
        /\ \A b \in Clients : Elems(chain[b]) \intersect Elems(free_desc') = {}
    BY <1>0, <1>4, FailFacts
  <2>2. used_desc' = used_desc /\ chain' = chain
    BY <1>4 DEF prep_memcpy_fails
  <2>3. QED
    BY <1>0, <2>1, <2>2 DEF OneList
<1>5. ASSUME NEW c \in Clients, tx_submit(c) PROVE OneList'
  <2>1. PICK ds, n, m : Appends(c, ds, n, m)
    BY <1>0, <1>5, SubmitFacts
  <2>2. chain'[c] = <<>> /\ \A b \in Clients : b # c => chain'[b] = chain[b]
    BY <1>c, <1>5 DEF tx_submit
  <2>3. free_desc' = free_desc
    BY <1>5 DEF tx_submit
  <2>4. /\ Distinct(used_desc') /\ Elems(used_desc') = Elems(used_desc) \union Elems(ds)
        /\ Elems(free_desc) \intersect Elems(ds) = {}
        /\ \A b \in Clients \ {c} : Elems(chain[b]) \intersect Elems(ds) = {}
    BY <2>1 DEF Appends
  <2>5. QED
    BY <1>0, <1>e, <2>2, <2>3, <2>4 DEF OneList
<1>6. ASSUME NEW phys, NEW r, Cleans(phys, r), CleanFrame(phys) PROVE OneList'
  <2>1. chain' = chain
    BY <1>6 DEF CleanFrame, clients
  <2>2. /\ Distinct(used_desc') /\ Elems(used_desc') \subseteq Elems(used_desc) /\ Distinct(free_desc')
        /\ Elems(free_desc') \subseteq Elems(free_desc) \union Elems(used_desc)
        /\ Elems(free_desc') \intersect Elems(used_desc') = {}
    BY <1>6 DEF Cleans
  <2>3. QED
    BY <1>0, <2>1, <2>2 DEF OneList
<1>7. CASE Quiet
  BY <1>0, <1>7 DEF Quiet, OneList
<1>8. QED
  BY <1>1, <1>2, <1>3, <1>4, <1>5, <1>6, <1>7, Kinds

\* The links stay the order of the list, and a chain stays linked until it is submitted.
LEMMA LinkStep == ListInv /\ [Next]_vars => LinksFollowList' /\ ChainInv'
<1> SUFFICES ASSUME ListInv, [Next]_vars PROVE LinksFollowList' /\ ChainInv'
  OBVIOUS
<1>0. TypeOK /\ OnOneList /\ LinksFollowList /\ DownInv /\ ChainInv /\ BoundInv /\ OneList
  BY OneListIs DEF ListInv
<1>c. /\ chain \in [Clients -> Seq(Desc)] /\ desc \in [Desc -> DescType]
      /\ pc \in [Clients -> {"idle", "prepared", "submitted", "retry", "issue_wait", "issue_retry", "waiting"}]
  BY <1>0 DEF TypeOK, DescType
<1>u. /\ Len(used_desc) \in Nat /\ DOMAIN used_desc = 1..Len(used_desc)
      /\ \A i \in DOMAIN used_desc : used_desc[i] \in Desc /\ used_desc[i] \in Elems(used_desc)
  BY <1>0, UsedType DEF Elems
<1>e. \A c \in Clients : \A i \in DOMAIN chain[c] : chain[c][i] \in Desc /\ chain[c][i] \in Elems(chain[c])
  BY <1>c, ElementOfSeq, LenProperties DEF Elems
<1>1. CASE alloc_chan_resources
  <2>1. used_desc' = <<1>> /\ desc'[1].next = 0 /\ 1 \in Desc
    BY <1>1, DescAssumption DEF alloc_chan_resources, Blank, Desc
  <2>2. LinksFollowList'
    BY <2>1 DEF LinksFollowList
  <2>3. \A c \in Clients : pc[c] = "idle" /\ pc'[c] = "idle" /\ chain'[c] = <<>>
    BY <1>0, <1>1 DEF alloc_chan_resources, DownInv, ChainInv, clients
  <2>4. QED
    BY <2>2, <2>3 DEF ChainInv
<1>2. CASE free_chan_resources
  <2>1. desccount' = 0 /\ \A c \in Clients : pc[c] = "idle" /\ pc' = pc /\ chain' = chain
    BY <1>2 DEF free_chan_resources, clients
  <2>2. QED
    BY <1>0, <2>1 DEF LinksFollowList, ChainInv
<1>3. ASSUME NEW c \in Clients, NEW n \in 1..MaxParts, prep_memcpy(c, n) PROVE LinksFollowList' /\ ChainInv'
  <2>1. PICK ds : Prepares(c, n, ds)
    BY <1>0, <1>3, PrepFacts
  <2>2. used_desc' = used_desc /\ desccount' = desccount /\ pc' = [pc EXCEPT ![c] = "prepared"]
    BY <1>3 DEF prep_memcpy, counters
  <2>3. chain'[c] = ds /\ \A b \in Clients : b # c => chain'[b] = chain[b] /\ pc'[b] = pc[b]
    BY <1>c, <2>1, <2>2 DEF Prepares
  <2>4. /\ Elems(ds) \intersect Elems(used_desc) = {} /\ Len(ds) = n /\ DOMAIN ds = 1..n
        /\ \A b \in Clients : Elems(ds) \intersect Elems(chain[b]) = {}
        /\ \A d \in Desc : d \notin Elems(ds) => desc'[d] = desc[d]
        /\ \A i \in 1..n : desc'[ds[i]].next = (IF i < n THEN ds[i + 1] ELSE 0) /\ desc'[ds[i]].compl_write = (i = n)
    BY <2>1 DEF Prepares
  <2>5. \A i \in DOMAIN used_desc : desc'[used_desc[i]] = desc[used_desc[i]]
    BY <1>u, <2>4
  <2>6. LinksFollowList'
    BY <1>0, <2>2, <2>5 DEF LinksFollowList
  <2>7. ASSUME NEW b \in Clients, b # c
        PROVE  \A i \in DOMAIN chain[b] : desc'[chain[b][i]] = desc[chain[b][i]]
    BY <1>e, <2>4
  <2>8. pc'[c] = "prepared" /\ n \in 1..MaxParts /\ \A i \in 1..n : i < n <=> i # n
    BY <1>c, <2>2, BoundsAssumption
  <2>9. ASSUME NEW b \in Clients
        PROVE  /\ pc'[b] # "prepared" => chain'[b] = <<>>
               /\ pc'[b] = "prepared" =>
                    /\ Len(chain'[b]) \in 1..MaxParts
                    /\ \A i \in DOMAIN chain'[b] :
                         /\ desc'[chain'[b][i]].next = IF i = Len(chain'[b]) THEN 0 ELSE chain'[b][i + 1]
                         /\ i = Len(chain'[b]) => desc'[chain'[b][i]].compl_write
    <3>1. CASE b = c
      BY <2>3, <2>4, <2>8, <3>1
    <3>2. CASE b # c
      BY <1>0, <2>3, <2>7, <3>2 DEF ChainInv
    <3>3. QED
      BY <3>1, <3>2
  <2>10. QED
    BY <2>6, <2>9 DEF ChainInv
<1>4. ASSUME NEW c \in Clients, NEW n \in 1..MaxParts, prep_memcpy_fails(c, n) PROVE LinksFollowList' /\ ChainInv'
  <2>1. /\ used_desc' = used_desc /\ desccount' = desccount /\ pc' = [pc EXCEPT ![c] = "retry"]
        /\ chain' = chain /\ desc' = desc /\ pc[c] # "prepared"
    BY <1>4 DEF prep_memcpy_fails, counters
  <2>2. \A b \in Clients : pc'[b] = "prepared" <=> pc[b] = "prepared"
    BY <1>c, <2>1
  <2>3. QED
    BY <1>0, <2>1, <2>2 DEF LinksFollowList, ChainInv
<1>5. ASSUME NEW c \in Clients, tx_submit(c) PROVE LinksFollowList' /\ ChainInv'
  <2>1. PICK ds, n, m : Appends(c, ds, n, m)
    BY <1>0, <1>5, SubmitFacts
  <2>2. /\ chain'[c] = <<>> /\ pc'[c] = "submitted" /\ pc[c] = "prepared"
        /\ \A b \in Clients : b # c => chain'[b] = chain[b] /\ pc'[b] = pc[b]
    BY <1>c, <1>5 DEF tx_submit
  <2>3. /\ m \in Nat \ {0} /\ n \in Nat \ {0} /\ Len(used_desc) = m /\ Len(used_desc') = m + n /\ DOMAIN used_desc' = 1..(m + n)
        /\ \A i \in 1..m : used_desc'[i] = used_desc[i]
        /\ \A i \in 1..n : used_desc'[m + i] = ds[i] /\ ds[i] \in Elems(ds)
        /\ \A i \in 1..(m + n) : i \in 1..m \/ i - m \in 1..n
        /\ Elems(used_desc) \intersect Elems(ds) = {} /\ ds = chain[c] /\ n = Len(ds) /\ DOMAIN ds = 1..n
        /\ \A d \in Desc : d \notin Elems(ds) =>
             /\ desc'[d].next = IF d = used_desc[m] THEN ds[1] ELSE desc[d].next
             /\ desc'[d].compl_write = desc[d].compl_write
        /\ \A i \in 1..n : desc'[ds[i]].next = desc[ds[i]].next
        /\ \A b \in Clients \ {c} : Elems(chain[b]) \intersect Elems(ds) = {}
    BY <2>1, BoundsAssumption DEF Appends
  <2>4. \A i \in 1..m : used_desc[i] = used_desc[m] <=> i = m
    BY <1>0, <1>u, <2>3 DEF OneList, Distinct
  <2>5. desccount # 0
    BY <2>1 DEF Appends
  <2>6. LinksFollowList'
    <3>1. used_desc' # <<>>
      BY <2>3
    <3>2. ASSUME NEW i \in 1..m
          PROVE  desc'[used_desc'[i]].next = IF i = m + n THEN 0 ELSE used_desc'[i + 1]
      <4>1. desc'[used_desc[i]].next = IF i = m THEN ds[1] ELSE desc[used_desc[i]].next
        BY <1>u, <2>3, <2>4
      <4>2. CASE i = m
        <5>1. used_desc'[m + 1] = ds[1]
          BY <2>3
        <5>2. QED
          BY <2>3, <4>1, <4>2, <5>1
      <4>3. CASE i # m
        <5>1. desc[used_desc[i]].next = used_desc[i + 1]
          BY <1>0, <1>u, <2>3, <2>5, <4>3 DEF LinksFollowList
        <5>2. i + 1 \in 1..m /\ i # m + n
          BY <2>3, <4>3
        <5>3. QED
          BY <2>3, <4>1, <4>3, <5>1, <5>2
      <4>4. QED
        BY <4>2, <4>3
    <3>3. ASSUME NEW i \in 1..n
          PROVE  desc'[used_desc'[m + i]].next = IF m + i = m + n THEN 0 ELSE used_desc'[m + i + 1]
      <4>1. desc'[used_desc'[m + i]].next = desc[ds[i]].next
        BY <2>3
      <4>2. desc[ds[i]].next = IF i = n THEN 0 ELSE ds[i + 1]
        BY <1>0, <2>2, <2>3 DEF ChainInv
      <4>3. CASE i = n
        BY <4>1, <4>2, <4>3
      <4>4. CASE i # n
        <5>1. i + 1 \in 1..n /\ m + i # m + n /\ m + (i + 1) = m + i + 1
          BY <2>3, <4>4
        <5>2. used_desc'[m + (i + 1)] = ds[i + 1]
          BY <2>3, <5>1
        <5>3. QED
          BY <4>1, <4>2, <4>4, <5>1, <5>2
      <4>5. QED
        BY <4>3, <4>4
    <3>4. ASSUME NEW i \in DOMAIN used_desc'
          PROVE  desc'[used_desc'[i]].next = IF i = Len(used_desc') THEN 0 ELSE used_desc'[i + 1]
      <4>1. CASE i \in 1..m
        BY <2>3, <3>2, <4>1
      <4>2. CASE i - m \in 1..n
        <5>1. m + (i - m) = i
          BY <2>3
        <5>2. QED
          BY <2>3, <3>3, <4>2, <5>1
      <4>3. QED
        BY <2>3, <4>1, <4>2
    <3>5. QED
      BY <3>1, <3>4 DEF LinksFollowList
  <2>7. ASSUME NEW b \in Clients
        PROVE  /\ pc'[b] # "prepared" => chain'[b] = <<>>
               /\ pc'[b] = "prepared" =>
                    /\ Len(chain'[b]) \in 1..MaxParts
                    /\ \A i \in DOMAIN chain'[b] :
                         /\ desc'[chain'[b][i]].next = IF i = Len(chain'[b]) THEN 0 ELSE chain'[b][i + 1]
                         /\ i = Len(chain'[b]) => desc'[chain'[b][i]].compl_write
    <3>1. CASE b = c
      BY <2>2, <3>1
    <3>2. CASE b # c
      <4>1. used_desc[m] \in Elems(used_desc)
        BY <1>u, <2>3
      <4>2. \A i \in DOMAIN chain[b] : /\ desc'[chain[b][i]].next = desc[chain[b][i]].next
                                       /\ desc'[chain[b][i]].compl_write = desc[chain[b][i]].compl_write
        BY <1>0, <1>e, <2>3, <3>2, <4>1 DEF OneList
      <4>3. QED
        BY <1>0, <2>2, <3>2, <4>2 DEF ChainInv
    <3>3. QED
      BY <3>1, <3>2
  <2>8. QED
    BY <2>6, <2>7 DEF ChainInv
<1>6. ASSUME NEW phys, NEW r, Cleans(phys, r), CleanFrame(phys) PROVE LinksFollowList' /\ ChainInv'
  <2>1. chain' = chain /\ pc' = pc /\ desccount' = desccount /\ desccount # 0
    BY <1>6 DEF CleanFrame, clients
  <2>2. /\ r \in 1..Len(used_desc) /\ Len(used_desc') = Len(used_desc) - r + 1
        /\ DOMAIN used_desc' = 1..(Len(used_desc) - r + 1)
        /\ \A i \in DOMAIN used_desc' : r - 1 + i \in DOMAIN used_desc /\ used_desc'[i] = used_desc[r - 1 + i]
        /\ \A d \in Desc : desc'[d].next = desc[d].next /\ desc'[d].compl_write = desc[d].compl_write
    BY <1>6 DEF Cleans
  <2>3. used_desc' # <<>>
    BY <1>u, <2>2
  <2>4. ASSUME NEW i \in DOMAIN used_desc'
        PROVE  desc'[used_desc'[i]].next = IF i = Len(used_desc') THEN 0 ELSE used_desc'[i + 1]
    <3>0. r - 1 + i \in DOMAIN used_desc /\ used_desc'[i] = used_desc[r - 1 + i] /\ used_desc[r - 1 + i] \in Desc
      BY <1>u, <2>2
    <3>1. desc'[used_desc'[i]].next = IF r - 1 + i = Len(used_desc) THEN 0 ELSE used_desc[r - 1 + i + 1]
      <4>1. \A k \in DOMAIN used_desc : desc[used_desc[k]].next = IF k = Len(used_desc) THEN 0 ELSE used_desc[k + 1]
        BY <1>0, <2>1 DEF LinksFollowList
      <4>2. desc'[used_desc[r - 1 + i]].next = desc[used_desc[r - 1 + i]].next
        BY <2>2, <3>0
      <4>3. QED
        BY ONLY <3>0, <4>1, <4>2
    <3>2. r - 1 + i = Len(used_desc) <=> i = Len(used_desc')
      BY <1>u, <2>2
    <3>3. i # Len(used_desc') => i + 1 \in DOMAIN used_desc' /\ r - 1 + (i + 1) = r - 1 + i + 1
      <4>1. Len(used_desc) \in Int /\ r \in Int /\ i \in 1..(Len(used_desc) - r + 1)
        BY <1>u, <2>2
      <4>2. Len(used_desc') = Len(used_desc) - r + 1 /\ DOMAIN used_desc' = 1..(Len(used_desc) - r + 1)
        BY <2>2
      <4>3. QED
        BY ONLY <4>1, <4>2
    <3>4. QED
      BY <2>2, <3>1, <3>2, <3>3
  <2>5. LinksFollowList'
    BY <2>3, <2>4 DEF LinksFollowList
  <2>6. QED
    BY <1>0, <1>e, <2>1, <2>2, <2>5, SMTT(30) DEF ChainInv
<1>7. CASE Quiet
  BY <1>0, <1>7 DEF Quiet, LinksFollowList, ChainInv
<1>8. QED
  BY <1>1, <1>2, <1>3, <1>4, <1>5, <1>6, <1>7, Kinds

\* A channel that is down stays quiet, there is a cookie for every transaction that is
\* prepared, and the locks exclude each other.
LEMMA LockStep == ListInv /\ [Next]_vars => DownInv' /\ BoundInv' /\ LockInv'
<1> SUFFICES ASSUME ListInv, [Next]_vars PROVE DownInv' /\ BoundInv' /\ LockInv'
  OBVIOUS
<1>0. TypeOK /\ OnOneList /\ LinksFollowList /\ DownInv /\ ChainInv /\ BoundInv /\ LockInv /\ MarkInv
  BY DEF ListInv
<1>c. /\ pc \in [Clients -> {"idle", "prepared", "submitted", "retry", "issue_wait", "issue_retry", "waiting"}]
      /\ cookie \in Int /\ MaxCookie \in Int /\ IsFiniteSet({c \in Clients : pc[c] = "prepared"})
      /\ Cardinality({c \in Clients : pc[c] = "prepared"}) \in Nat
  <2>1. IsFiniteSet({c \in Clients : pc[c] = "prepared"})
    BY ClientsAssumption, FS_Subset
  <2>2. QED
    BY <1>0, <2>1, FS_CardinalityType, BoundsAssumption DEF TypeOK
<1>1. DownInv'
  <2> USE DEF DownInv
  <2>1. CASE alloc_chan_resources
    <3>1. desccount' # 0
      BY <2>1, DescAssumption DEF alloc_chan_resources, Desccount
    <3>2. QED
      BY <3>1
  <2>2. CASE free_chan_resources
    BY <1>0, <2>2 DEF free_chan_resources, Reset, cleaning, clients
  <2>3. ASSUME desccount' # 0 PROVE DownInv'
    BY <2>3
  <2>4. ASSUME NEW c \in Clients, Client(c) PROVE DownInv'
    <3>1. desccount # 0
      BY <1>0, <2>4 DEF Client, prep_memcpy, prep_memcpy_fails, tx_submit, issue_pending, __issue_pending, wait_done, wait_timeout
    <3>2. desccount' = desccount
      BY <2>4 DEF Client, prep_memcpy, prep_memcpy_fails, tx_submit, issue_pending, __issue_pending, wait_done, wait_timeout,
                  counters
    <3>3. QED
      BY <3>1, <3>2
  <2>5. ASSUME NEW p \in Cleaners, Cleanup(p) PROVE DownInv'
    <3>1. desccount' = desccount
      BY <2>5 DEF Cleanup, cleanup_preamble, cleanup, cleanup_contended, counters
    <3>2. desccount # 0
      <4>1. CASE cleanup_preamble(p)
        BY <1>0, <4>1 DEF cleanup_preamble, MayClean, Cleaners
      <4>2. CASE cleanup(p) \/ cleanup_contended(p)
        BY <1>0, <4>2, ClientsAssumption DEF cleanup, cleanup_contended, Cleaners
      <4>3. QED
        BY <2>5, <4>1, <4>2 DEF Cleanup
    <3>3. QED
      BY <3>1, <3>2
  <2>6. CASE tasklet_returns
    BY <1>0, <2>6 DEF tasklet_returns, MayClean, counters
  <2>7. CASE Timer
    <3>1. CASE timer_after_free
      BY <1>0, <3>1 DEF timer_after_free, lists, counters, marks, cleaning, clients, hw
    <3>2. CASE timer_update \/ reset_channel
      <4>1. desccount # 0 /\ desccount' = desccount
        BY <1>0, <3>2 DEF timer_update, reset_channel, counters
      <4>2. QED
        BY <4>1
    <3>3. CASE timer_nothing \/ timer_restart \/ timer_cleanup \/ timer_check
      <4>1. desccount # 0 /\ desccount' = desccount
        BY <3>3 DEF timer_nothing, timer_restart, timer_cleanup, timer_check, Overdue, counters
      <4>2. QED
        BY <4>1
    <3>4. QED
      BY <2>7, <3>1, <3>2, <3>3 DEF Timer
  <2>8. CASE hw_execute \/ hw_reads_append \/ hw_halt \/ suspend_chan
    <3>1. desccount # 0 /\ desccount' = desccount
      BY <1>0, <2>8 DEF hw_execute, hw_reads_append, hw_halt, suspend_chan, counters
    <3>2. QED
      BY <3>1
  <2>9. CASE resume_chan
    BY <1>0, <2>9 DEF resume_chan, lists, counters, marks, watchdog, cleaning, clients
  <2>10. CASE UNCHANGED vars
    BY <1>0, <2>10 DEF vars, lists, counters, marks, watchdog, cleaning, clients, hw
  <2>11. QED
    BY <2>1, <2>2, <2>4, <2>5, <2>6, <2>7, <2>8, <2>9, <2>10 DEF Next, Engine, AtRest
<1>2. BoundInv'
  <2> DEFINE P == {c \in Clients : pc[c] = "prepared"}
  <2>0. Cardinality(P) + cookie <= MaxCookie
    BY <1>0 DEF BoundInv
  <2>1. ASSUME NEW c \in Clients, NEW n \in 1..MaxParts, prep_memcpy(c, n) PROVE BoundInv'
    <3>1. {b \in Clients : pc'[b] = "prepared"} = P \union {c} /\ c \notin P
      BY <1>c, <2>1 DEF prep_memcpy
    <3>2. Cardinality(P) + cookie < MaxCookie /\ cookie' = cookie
      BY <2>1 DEF prep_memcpy, cookies
    <3>3. IsFiniteSet(P) /\ Cardinality(P) \in Nat
      BY <1>c
    <3> HIDE DEF P
    <3>4. Cardinality(P \union {c}) = Cardinality(P) + 1
      BY <3>1, <3>3, FS_AddElement
    <3>5. Cardinality(P \union {c}) + cookie <= MaxCookie
      BY <1>c, <3>2, <3>3, <3>4
    <3>6. QED
      BY <3>1, <3>2, <3>5 DEF BoundInv
  <2>2. ASSUME NEW c \in Clients, tx_submit(c) PROVE BoundInv'
    <3>1. {b \in Clients : pc'[b] = "prepared"} = P \ {c} /\ c \in P
      BY <1>c, <2>2 DEF tx_submit
    <3>2. cookie' = cookie + 1
      BY <2>2 DEF tx_submit
    <3>3. IsFiniteSet(P) /\ Cardinality(P) \in Nat
      BY <1>c
    <3> HIDE DEF P
    <3>4. Cardinality(P \ {c}) = Cardinality(P) - 1
      BY <3>1, <3>3, FS_RemoveElement
    <3>5. Cardinality(P \ {c}) + cookie' <= MaxCookie
      BY <1>c, <2>0, <3>2, <3>3, <3>4
    <3>6. QED
      BY <3>1, <3>5 DEF BoundInv
  <2>3. ASSUME cookie' = cookie, \A c \in Clients : pc'[c] = "prepared" => pc[c] = "prepared" PROVE BoundInv'
    <3> DEFINE Q == {c \in Clients : pc'[c] = "prepared"}
    <3>1. Q \in SUBSET P /\ IsFiniteSet(P) /\ Cardinality(P) \in Nat
      BY <1>c, <2>3
    <3> HIDE DEF P, Q
    <3>2. Cardinality(Q) <= Cardinality(P) /\ IsFiniteSet(Q)
      BY <3>1, FS_Subset
    <3>3. Cardinality(Q) \in Nat
      BY <3>2, FS_CardinalityType
    <3>4. Cardinality(Q) + cookie <= MaxCookie
      BY <1>c, <2>0, <3>1, <3>2, <3>3
    <3>5. QED
      BY <2>3, <3>4 DEF BoundInv, Q
  <2>4. CASE alloc_chan_resources \/ free_chan_resources
    BY <2>3, <2>4 DEF alloc_chan_resources, free_chan_resources, clients, cookies
  <2>5. ASSUME NEW c \in Clients, NEW n \in 1..MaxParts, prep_memcpy_fails(c, n) PROVE BoundInv'
    BY <1>c, <2>3, <2>5 DEF prep_memcpy_fails, cookies
  <2>6. ASSUME NEW phys, NEW r, CleanFrame(phys) PROVE BoundInv'
    BY <2>3, <2>6 DEF CleanFrame, clients
  <2>7. CASE Quiet
    BY <2>3, <2>7 DEF Quiet
  <2>8. QED
    BY <2>1, <2>2, <2>4, <2>5, <2>6, <2>7, Kinds
<1>3. LockInv'
  <2> USE DEF LockInv
  <2>1. CASE alloc_chan_resources \/ free_chan_resources
    BY <1>0, <2>1 DEF alloc_chan_resources, free_chan_resources, watchdog, cleaning
  <2>2. ASSUME NEW c \in Clients, Client(c) PROVE LockInv'
    BY <1>0, <2>2 DEF Client, prep_memcpy, prep_memcpy_fails, tx_submit, issue_pending, __issue_pending, wait_done, wait_timeout,
                      watchdog, cleaning
  <2>3. ASSUME NEW p \in Cleaners, cleanup_preamble(p) PROVE LockInv'
    <3>1. desccount # 0
      BY <1>0, <2>3 DEF cleanup_preamble, MayClean, Cleaners, DownInv
    <3>2. Before(last_completion, completion)
      BY <1>0, <3>1 DEF MarkInv, Up
    <3>3. completion # 0
      <4>1. \A i \in DOMAIN used_desc : used_desc[i] # 0
        BY <1>0, UsedType
      <4>2. QED
        BY <2>3, <3>2, <4>1 DEF Before, BeforeIn, cleanup_preamble
    <3>4. p # "none"
      BY ClientsAssumption DEF Cleaners
    <3>5. QED
      BY <1>0, <2>3, <3>3, <3>4 DEF cleanup_preamble
  <2>4. ASSUME NEW p \in Cleaners, cleanup(p) \/ cleanup_contended(p) PROVE LockInv'
    BY <1>0, <2>4 DEF cleanup, cleanup_contended, Unlock, watchdog
  <2>5. CASE tasklet_returns
    BY <1>0, <2>5 DEF tasklet_returns, watchdog, cleaning
  <2>6. CASE Timer
    <3>1. CASE timer_after_free \/ timer_nothing \/ timer_restart \/ timer_cleanup
      BY <1>0, <3>1 DEF timer_after_free, timer_nothing, timer_restart, timer_cleanup, watchdog, cleaning
    <3>2. CASE timer_check
      BY <1>0, <3>2 DEF timer_check, Overdue, Expires, cleaning
    <3>3. CASE timer_update \/ reset_channel
      BY <1>0, <3>3 DEF timer_update, reset_channel, cleaning
    <3>4. QED
      BY <2>6, <3>1, <3>2, <3>3 DEF Timer
  <2>7. CASE Engine
    BY <1>0, <2>7 DEF Engine, hw_execute, hw_reads_append, hw_halt, suspend_chan, resume_chan, watchdog, cleaning
  <2>8. CASE UNCHANGED vars
    BY <1>0, <2>8 DEF vars, watchdog, cleaning
  <2>9. QED
    BY <2>1, <2>2, <2>3, <2>4, <2>5, <2>6, <2>7, <2>8 DEF Next, Cleanup, AtRest
<1>4. QED
  BY <1>1, <1>2, <1>3

\* How the order of a list behaves.
LEMMA Order ==
  ASSUME NEW u \in Seq(Desc), Distinct(u)
  PROVE  /\ \A a, b, c : BeforeIn(u, a, b) /\ BeforeIn(u, b, c) => BeforeIn(u, a, c)
         /\ \A a, b : BeforeIn(u, a, b) /\ a # 0 => b # 0 /\ BeforeIn(u, a, a) /\ BeforeIn(u, b, b)
         /\ \A a, b : NextTo(u, a, b) => a # 0 /\ b # 0 /\ BeforeIn(u, a, b) /\ BeforeIn(u, b, b)
<1>1. Len(u) \in Nat /\ DOMAIN u = 1..Len(u) /\ \A i \in DOMAIN u : u[i] # 0
  <2>1. Len(u) \in Nat /\ DOMAIN u = 1..Len(u) /\ \A i \in DOMAIN u : u[i] \in Desc
    BY ElementOfSeq, LenProperties
  <2>2. \A d \in Desc : d # 0
    BY DescAssumption DEF Desc
  <2>3. QED
    BY <2>1, <2>2
<1>2. DOMAIN u \subseteq Int /\ \A i, j, k \in DOMAIN u : i <= j /\ j <= k => i <= k
  BY <1>1
<1>3. ASSUME NEW a, NEW b, NEW c, BeforeIn(u, a, b), BeforeIn(u, b, c) PROVE BeforeIn(u, a, c)
  <2> SUFFICES ASSUME a # 0 PROVE BeforeIn(u, a, c)
    BY DEF BeforeIn
  <2>1. PICK i, j \in DOMAIN u : i <= j /\ u[i] = a /\ u[j] = b
    BY <1>3 DEF BeforeIn
  <2>2. PICK k, l \in DOMAIN u : k <= l /\ u[k] = b /\ u[l] = c
    BY <1>1, <1>3, <2>1 DEF BeforeIn
  <2>3. j = k
    BY <2>1, <2>2 DEF Distinct
  <2>4. QED
    BY <1>2, <2>1, <2>2, <2>3 DEF BeforeIn
<1>4. \A i \in DOMAIN u : i <= i /\ i <= i + 1
  BY <1>1
<1>5. QED
  BY <1>1, <1>3, <1>4 DEF BeforeIn, NextTo

\* A list that grows at its end keeps its order.
LEMMA Grow ==
  ASSUME NEW u, NEW v, DOMAIN u \subseteq DOMAIN v, \A i \in DOMAIN u : v[i] = u[i]
  PROVE  /\ \A a, b : BeforeIn(u, a, b) => BeforeIn(v, a, b)
         /\ \A a, b : NextTo(u, a, b) => NextTo(v, a, b)
BY DEF BeforeIn, NextTo

\* A list that is cut in front of p keeps its order from there on.
LEMMA Shrink ==
  ASSUME NEW u \in Seq(Desc), Distinct(u), NEW v, NEW r \in 1..Len(u), NEW p, u[r] = p, p # 0,
         DOMAIN v = 1..(Len(u) - r + 1), \A i \in DOMAIN v : v[i] = u[r - 1 + i]
  PROVE  /\ \A a, b : BeforeIn(u, p, a) /\ BeforeIn(u, a, b) => BeforeIn(v, a, b)
         /\ \A a, b : BeforeIn(u, p, a) /\ NextTo(u, a, b) => NextTo(v, a, b)
<1>1. Len(u) \in Nat /\ DOMAIN u = 1..Len(u)
  BY LenProperties
<1>2. ASSUME NEW i \in DOMAIN u, r <= i PROVE i - r + 1 \in DOMAIN v /\ v[i - r + 1] = u[i]
  <2>1. i - r + 1 \in 1..(Len(u) - r + 1) /\ r - 1 + (i - r + 1) = i
    BY <1>1, <1>2
  <2>2. v[i - r + 1] = u[r - 1 + (i - r + 1)]
    BY <2>1
  <2>3. QED
    BY <2>1, <2>2
<1>3. ASSUME NEW i \in DOMAIN u, BeforeIn(u, p, u[i]) PROVE r <= i
  <2>1. PICK k, l \in DOMAIN u : k <= l /\ u[k] = p /\ u[l] = u[i]
    BY <1>3 DEF BeforeIn
  <2>2. k = r /\ l = i
    BY <1>1, <2>1 DEF Distinct
  <2>3. QED
    BY <2>1, <2>2
<1>4. ASSUME NEW a, NEW b, BeforeIn(u, p, a), BeforeIn(u, a, b), a # 0 PROVE BeforeIn(v, a, b)
  <2>1. PICK i, j \in DOMAIN u : i <= j /\ u[i] = a /\ u[j] = b
    BY <1>4 DEF BeforeIn
  <2>2. r <= i
    BY <1>3, <1>4, <2>1
  <2>3. r <= j /\ i - r + 1 <= j - r + 1
    BY <1>1, <2>1, <2>2
  <2>4. QED
    BY <1>2, <2>1, <2>2, <2>3 DEF BeforeIn
<1>5. ASSUME NEW a, NEW b, BeforeIn(u, p, a), NextTo(u, a, b) PROVE NextTo(v, a, b)
  <2>1. PICK i \in DOMAIN u : i + 1 \in DOMAIN u /\ u[i] = a /\ u[i + 1] = b
    BY <1>5 DEF NextTo
  <2>2. r <= i
    BY <1>3, <1>5, <2>1
  <2>3. r <= i + 1 /\ i + 1 - r + 1 = i - r + 1 + 1
    BY <1>1, <2>2
  <2>4. i - r + 1 \in DOMAIN v /\ v[i - r + 1] = a
    BY <1>2, <2>1, <2>2
  <2>5. i + 1 - r + 1 \in DOMAIN v /\ v[i + 1 - r + 1] = b
    BY <1>2, <2>1, <2>3
  <2>6. QED
    BY <2>3, <2>4, <2>5 DEF NextTo
<1>6. QED
  BY <1>4, <1>5 DEF BeforeIn

\* A step that leaves alone every address the engine and the driver know, except that it
\* may forget the one a cleanup or the timer has read.
Still ==
  /\ UNCHANGED <<used_desc, desccount, last_completion, completion, hw_state, hw_cur, hw_next, hw_last>>
  /\ cleanup_lock' = "none" \/ UNCHANGED <<cleanup_lock, phys_complete>>
  /\ status' = status \/ status' = 0

\* The addresses stay in the order of the used list.
LEMMA MarkStep == ListInv /\ [Next]_vars => MarkInv'
<1> SUFFICES ASSUME ListInv, [Next]_vars PROVE MarkInv'
  OBVIOUS
<1>0. TypeOK /\ OnOneList /\ LinksFollowList /\ DownInv /\ ChainInv /\ BoundInv /\ LockInv /\ MarkInv /\ OneList
  BY OneListIs DEF ListInv
<1>u. used_desc \in Seq(Desc) /\ Distinct(used_desc)
  BY <1>0 DEF TypeOK, OneList
<1>o. /\ \A a, b, c : BeforeIn(used_desc, a, b) /\ BeforeIn(used_desc, b, c) => BeforeIn(used_desc, a, c)
      /\ \A a, b : BeforeIn(used_desc, a, b) /\ a # 0 => b # 0 /\ BeforeIn(used_desc, a, a) /\ BeforeIn(used_desc, b, b)
      /\ \A a, b : NextTo(used_desc, a, b) => a # 0 /\ b # 0 /\ BeforeIn(used_desc, a, b) /\ BeforeIn(used_desc, b, b)
  BY <1>u, Order
<1>z. \A u, b : BeforeIn(u, 0, b)
  BY DEF BeforeIn
\* The link of a descriptor of the used list leads to the one that follows it.
<1>l. ASSUME Up, NEW a, BeforeIn(used_desc, a, a), a # 0
      PROVE  desc[a].next # 0 => NextTo(used_desc, a, desc[a].next)
  <2>1. PICK i \in DOMAIN used_desc : used_desc[i] = a
    BY <1>l DEF BeforeIn
  <2>2. desc[used_desc[i]].next = IF i = Len(used_desc) THEN 0 ELSE used_desc[i + 1]
    BY <1>0, <1>l DEF LinksFollowList, Up
  <2>3. i # Len(used_desc) => i + 1 \in DOMAIN used_desc
    <3>1. Len(used_desc) \in Nat /\ DOMAIN used_desc = 1..Len(used_desc)
      BY <1>0, UsedType
    <3>2. QED
      BY <3>1
  <2>4. QED
    BY <2>1, <2>2, <2>3 DEF NextTo
<1> USE DEF Before
<1>1. CASE Still
  BY <1>0, <1>1 DEF Still, MarkInv, Up
<1>2. CASE alloc_chan_resources
  <2>1. /\ used_desc' = <<1>> /\ completion' = 0 /\ last_completion' = 0 /\ cleanup_lock' = "none" /\ status' = 0
        /\ hw_last' = 0 /\ hw_state' = "run" /\ hw_cur' = 1 /\ hw_next' = 0
    BY <1>0, <1>2 DEF alloc_chan_resources, DownInv, LockInv, Start, cleaning, watchdog
  <2>2. BeforeIn(<<1>>, 1, 1)
    BY DEF BeforeIn
  <2>3. QED
    BY <1>z, <2>1, <2>2 DEF MarkInv
<1>3. CASE free_chan_resources
  BY <1>3 DEF free_chan_resources, MarkInv, Up
<1>4. ASSUME NEW c \in Clients, tx_submit(c) PROVE MarkInv'
  <2>1. PICK ds, n, m : Appends(c, ds, n, m)
    BY <1>0, <1>4, SubmitFacts
  <2>2. DOMAIN used_desc \subseteq DOMAIN used_desc' /\ \A i \in DOMAIN used_desc : used_desc'[i] = used_desc[i]
    <3>1. m \in Nat /\ n \in 1..MaxParts
      BY <2>1 DEF Appends
    <3>2. 1..m \subseteq 1..(m + n)
      BY <3>1, BoundsAssumption
    <3>3. QED
      BY <2>1, <3>2 DEF Appends
  <2>3. /\ \A a, b : BeforeIn(used_desc, a, b) => BeforeIn(used_desc', a, b)
        /\ \A a, b : NextTo(used_desc, a, b) => NextTo(used_desc', a, b)
    BY <2>2, Grow
  <2>4. UNCHANGED <<desccount, last_completion, completion, hw_state, hw_cur, hw_next, hw_last, cleanup_lock, phys_complete, status>>
    BY <1>4 DEF tx_submit, marks, cleaning, hw, AppendCommand
  <2>5. QED
    BY <1>0, <2>3, <2>4 DEF MarkInv, Up
<1>5. ASSUME NEW phys, NEW r, Cleans(phys, r), CleanFrame(phys) PROVE MarkInv'
  <2>1. /\ UNCHANGED <<desccount, completion, hw_state, hw_cur, hw_next, hw_last, status>>
        /\ cleanup_lock' = "none" /\ last_completion' = phys /\ phys # 0 /\ status = 0 /\ Up
        /\ BeforeIn(used_desc, phys, completion)
    <3>1. phys # 0
      BY <1>5, DescAssumption DEF CleanFrame
    <3>2. QED
      BY <1>0, <1>5, <3>1 DEF CleanFrame, Cleans, hw, LockInv, Up
  <2>2. /\ \A a, b : BeforeIn(used_desc, phys, a) /\ BeforeIn(used_desc, a, b) => BeforeIn(used_desc', a, b)
        /\ \A a, b : BeforeIn(used_desc, phys, a) /\ NextTo(used_desc, a, b) => NextTo(used_desc', a, b)
    <3>1. /\ r \in 1..Len(used_desc) /\ used_desc[r] = phys /\ DOMAIN used_desc' = 1..(Len(used_desc) - r + 1)
          /\ \A i \in DOMAIN used_desc' : used_desc'[i] = used_desc[r - 1 + i]
      BY <1>5 DEF Cleans
    <3>2. QED
      BY ONLY <1>u, <2>1, <3>1, Shrink
  <2>3. BeforeIn(used_desc, phys, phys) /\ completion # 0 /\ BeforeIn(used_desc, completion, completion)
    BY <1>o, <2>1
  <2>4. hw_last # 0 => BeforeIn(used_desc, phys, hw_last) /\ BeforeIn(used_desc, completion, hw_last)
                        /\ BeforeIn(used_desc, hw_last, hw_cur)
    BY <1>0, <1>o, <2>1 DEF MarkInv
  <2>5. hw_state # "reset" => hw_cur # 0 /\ BeforeIn(used_desc, phys, hw_cur) /\ BeforeIn(used_desc, hw_cur, hw_cur)
                               /\ BeforeIn(used_desc, completion, hw_cur)
    BY <1>0, <1>o, <2>1 DEF MarkInv
  <2>6. hw_next # 0 => NextTo(used_desc, hw_cur, hw_next) /\ hw_state # "reset"
    BY <1>0, <2>1 DEF MarkInv
  <2>7. hw_state = "reset" => hw_cur = 0 /\ hw_next = 0 /\ hw_last = 0
    BY <1>0, <2>1 DEF MarkInv
  <2>8. QED
    BY <2>1, <2>2, <2>3, <2>4, <2>5, <2>6, <2>7 DEF MarkInv
<1>6. ASSUME NEW p \in Cleaners, cleanup_preamble(p) PROVE MarkInv'
  <2>1. UNCHANGED <<used_desc, desccount, last_completion, completion, hw_state, hw_cur, hw_next, hw_last, status>>
    BY <1>6 DEF cleanup_preamble, lists, counters, marks, hw
  <2>2. phys_complete' = completion
    BY <1>6 DEF cleanup_preamble
  <2>3. QED
    BY <1>0, <2>1, <2>2 DEF MarkInv, Up
<1>7. CASE timer_check
  <2>1. UNCHANGED <<used_desc, desccount, last_completion, completion, hw_state, hw_cur, hw_next, hw_last, cleanup_lock, phys_complete>>
    BY <1>7 DEF timer_check, lists, counters, marks, hw, cleaning
  <2>2. status' = hw_last \/ status' = 0
    BY <1>7 DEF timer_check
  <2>3. Up /\ hw_last # 0 => BeforeIn(used_desc, last_completion, hw_last) /\ BeforeIn(used_desc, hw_last, hw_last)
    BY <1>0, <1>o DEF MarkInv
  <2>4. QED
    BY <1>0, <2>1, <2>2, <2>3 DEF MarkInv, Up
<1>8. CASE timer_update
  <2>1. UNCHANGED <<used_desc, desccount, last_completion, hw_state, hw_cur, hw_next, hw_last, cleanup_lock, phys_complete>>
    BY <1>8 DEF timer_update, lists, counters, hw, cleaning
  <2>2. /\ completion' = IF status # 0 THEN status ELSE completion
        /\ status' = 0 /\ cleanup_lock = "none"
    BY <1>0, <1>8 DEF timer_update, LockInv
  <2>3. CASE status = 0
    BY <1>0, <2>1, <2>2, <2>3 DEF MarkInv, Up
  <2>4. CASE status # 0 /\ Up
    <3>1. BeforeIn(used_desc, last_completion, status) /\ BeforeIn(used_desc, status, hw_last)
      BY <1>0, <2>4 DEF MarkInv
    <3>2. hw_last # 0 /\ BeforeIn(used_desc, status, status)
      BY <1>o, <2>4, <3>1
    <3>3. BeforeIn(used_desc, hw_last, hw_cur)
      BY <1>0, <2>4, <3>2 DEF MarkInv
    <3>4. BeforeIn(used_desc, status, hw_cur)
      BY <1>o, <3>1, <3>3
    <3>5. QED
      BY <1>0, <2>1, <2>2, <2>4, <3>1, <3>2, <3>3, <3>4 DEF MarkInv, Up
  <2>5. QED
    BY <2>1, <2>3, <2>4 DEF MarkInv, Up
<1>9. CASE timer_restart
  <2>1. /\ UNCHANGED <<used_desc, desccount, last_completion, completion, hw_last, cleanup_lock, phys_complete, status>>
        /\ hw_state' = "run" /\ hw_cur' = Last(used_desc) /\ hw_next' = desc[Last(used_desc)].next /\ desccount # 0
    BY <1>9 DEF timer_restart, lists, counters, marks, cleaning, Start
  <2>2. /\ Len(used_desc) \in DOMAIN used_desc /\ DOMAIN used_desc = 1..Len(used_desc) /\ Len(used_desc) \in Nat
        /\ \A i \in DOMAIN used_desc : used_desc[i] # 0
    <3>1. used_desc # <<>>
      BY <1>0, <2>1 DEF LinksFollowList
    <3>2. Len(used_desc) # 0
      BY <1>u, <3>1, EmptySeq
    <3>3. Len(used_desc) \in Nat /\ DOMAIN used_desc = 1..Len(used_desc) /\ \A i \in DOMAIN used_desc : used_desc[i] # 0
      BY <1>0, UsedType
    <3>4. QED
      BY <3>2, <3>3
  <2>3. desc[Last(used_desc)].next = 0
    BY <1>0, <2>1, <2>2 DEF LinksFollowList, Last
  <2>4. ASSUME NEW a, BeforeIn(used_desc, a, a) PROVE BeforeIn(used_desc, a, Last(used_desc))
    <3> SUFFICES ASSUME a # 0 PROVE BeforeIn(used_desc, a, Last(used_desc))
      BY <1>z
    <3>1. PICK i \in DOMAIN used_desc : used_desc[i] = a
      BY <2>4 DEF BeforeIn
    <3>2. i <= Len(used_desc)
      BY <2>2
    <3>3. QED
      BY <2>2, <3>1, <3>2 DEF BeforeIn, Last
  <2>5. Last(used_desc) # 0 /\ BeforeIn(used_desc, Last(used_desc), Last(used_desc))
    BY <2>2 DEF Last, BeforeIn
  <2>6. BeforeIn(used_desc, completion, Last(used_desc)) /\ (hw_last # 0 => BeforeIn(used_desc, hw_last, Last(used_desc)))
    BY <1>0, <1>o, <2>1, <2>4 DEF MarkInv, Up
  <2> HIDE DEF Last
  <2>7. QED
    BY <1>0, <2>1, <2>3, <2>5, <2>6 DEF MarkInv, Up
<1>10. CASE reset_channel
  <2>1. /\ UNCHANGED <<used_desc, desccount, last_completion, completion, cleanup_lock, phys_complete, status>>
        /\ hw_state' = "reset" /\ hw_cur' = 0 /\ hw_next' = 0 /\ hw_last' = 0 /\ status = 0
    BY <1>0, <1>10 DEF reset_channel, lists, counters, marks, cleaning, Reset, LockInv
  <2>2. QED
    BY <1>0, <2>1 DEF MarkInv, Up
<1>11. CASE hw_execute
  <2>1. /\ UNCHANGED <<used_desc, desccount, last_completion, cleanup_lock, phys_complete, status>>
        /\ hw_state = "run" /\ hw_last' = hw_cur /\ (completion' = hw_cur \/ completion' = completion)
        /\ \/ hw_next = 0 /\ hw_state' = "idle" /\ hw_cur' = hw_cur /\ hw_next' = hw_next
           \/ hw_next # 0 /\ hw_cur' = hw_next /\ hw_next' = desc[hw_next].next /\ hw_state' = hw_state
    BY <1>11 DEF hw_execute, lists, counters, watchdog, cleaning
  <2>2. Up
    BY <1>0, <2>1 DEF DownInv, Up
  <2>3. /\ hw_cur # 0 /\ BeforeIn(used_desc, hw_cur, hw_cur) /\ BeforeIn(used_desc, completion, hw_cur)
        /\ BeforeIn(used_desc, last_completion, hw_cur)
        /\ cleanup_lock # "none" => BeforeIn(used_desc, phys_complete, hw_cur)
        /\ status # 0 => BeforeIn(used_desc, status, hw_cur)
    <3>1. hw_cur # 0 /\ BeforeIn(used_desc, hw_cur, hw_cur) /\ BeforeIn(used_desc, completion, hw_cur)
      BY <1>0, <2>1, <2>2 DEF MarkInv
    <3>2. BeforeIn(used_desc, last_completion, hw_cur)
      BY <1>0, <1>o, <2>2, <3>1 DEF MarkInv
    <3>3. cleanup_lock # "none" => BeforeIn(used_desc, phys_complete, hw_cur)
      BY <1>0, <1>o, <2>2, <3>1 DEF MarkInv
    <3>4. status # 0 => BeforeIn(used_desc, status, hw_cur)
      <4>1. status # 0 => BeforeIn(used_desc, status, hw_last) /\ hw_last # 0
        BY <1>0, <1>o, <2>2 DEF MarkInv
      <4>2. status # 0 => BeforeIn(used_desc, hw_last, hw_cur)
        BY <1>0, <2>2, <4>1 DEF MarkInv
      <4>3. QED
        BY <1>o, <4>1, <4>2
    <3>5. QED
      BY <3>1, <3>2, <3>3, <3>4
  <2>4. hw_next # 0 => /\ BeforeIn(used_desc, hw_cur, hw_next) /\ BeforeIn(used_desc, hw_next, hw_next)
                       /\ BeforeIn(used_desc, completion, hw_next)
                       /\ desc[hw_next].next # 0 => NextTo(used_desc, hw_next, desc[hw_next].next)
    <3>1. hw_next # 0 => BeforeIn(used_desc, hw_cur, hw_next) /\ BeforeIn(used_desc, hw_next, hw_next)
      BY <1>0, <1>o, <2>2 DEF MarkInv
    <3>2. QED
      BY <1>l, <1>o, <2>2, <2>3, <3>1
  <2>5. BeforeIn(used_desc, completion, completion) /\ BeforeIn(used_desc, last_completion, completion)
        /\ (cleanup_lock # "none" => BeforeIn(used_desc, last_completion, phys_complete) /\ BeforeIn(used_desc, phys_complete, completion))
        /\ (status # 0 => BeforeIn(used_desc, last_completion, status))
    BY <1>0, <2>2 DEF MarkInv
  <2>6. hw_next' # 0 => NextTo(used_desc, hw_cur', hw_next')
    BY <2>1, <2>4
  <2>7. hw_cur' # 0 /\ BeforeIn(used_desc, hw_cur', hw_cur') /\ BeforeIn(used_desc, completion', hw_cur') /\ BeforeIn(used_desc, hw_cur, hw_cur')
    BY <2>1, <2>3, <2>4
  <2>8. QED
    BY <2>1, <2>3, <2>5, <2>6, <2>7 DEF MarkInv
<1>12. CASE hw_reads_append
  <2>1. /\ UNCHANGED <<used_desc, desccount, last_completion, completion, cleanup_lock, phys_complete, status, hw_last>>
        /\ hw_state = "idle"
        /\ \/ UNCHANGED <<hw_state, hw_cur, hw_next>>
           \/ desc[hw_cur].next # 0 /\ hw_state' = "run" /\ hw_cur' = desc[hw_cur].next /\ hw_next' = desc[desc[hw_cur].next].next
    BY <1>12 DEF hw_reads_append, lists, counters, marks, watchdog, cleaning
  <2>2. Up
    BY <1>0, <2>1 DEF DownInv, Up
  <2>3. CASE UNCHANGED <<hw_state, hw_cur, hw_next>>
    BY <1>0, <2>1, <2>3 DEF MarkInv, Up
  <2>4. CASE desc[hw_cur].next # 0 /\ hw_state' = "run" /\ hw_cur' = desc[hw_cur].next /\ hw_next' = desc[desc[hw_cur].next].next
    <3>1. hw_cur # 0 /\ BeforeIn(used_desc, hw_cur, hw_cur) /\ BeforeIn(used_desc, completion, hw_cur)
      BY <1>0, <2>1, <2>2 DEF MarkInv
    <3>2. NextTo(used_desc, hw_cur, hw_cur')
      BY <1>l, <2>2, <2>4, <3>1
    <3>3. hw_cur' # 0 /\ BeforeIn(used_desc, hw_cur, hw_cur') /\ BeforeIn(used_desc, hw_cur', hw_cur')
      BY <1>o, <3>2
    <3>4. hw_next' # 0 => NextTo(used_desc, hw_cur', hw_next')
      BY <1>l, <2>2, <2>4, <3>3
    <3>5. BeforeIn(used_desc, completion, hw_cur') /\ (hw_last # 0 => BeforeIn(used_desc, hw_last, hw_cur'))
      BY <1>0, <1>o, <2>2, <3>1, <3>3 DEF MarkInv
    <3>6. QED
      BY <1>0, <2>1, <2>2, <2>4, <3>3, <3>4, <3>5 DEF MarkInv
  <2>5. QED
    BY <2>1, <2>3, <2>4
<1>13. CASE hw_halt
  <2>1. /\ UNCHANGED <<used_desc, desccount, last_completion, cleanup_lock, phys_complete, status, hw_cur, hw_next, hw_last>>
        /\ hw_state = "run" /\ hw_state' = "halted"
        /\ completion' = IF hw_last # 0 THEN hw_last ELSE completion
    BY <1>13 DEF hw_halt, lists, counters, watchdog, cleaning
  <2>2. Up
    BY <1>0, <2>1 DEF DownInv, Up
  <2>3. CASE hw_last = 0
    BY <1>0, <2>1, <2>2, <2>3 DEF MarkInv, Up
  <2>4. CASE hw_last # 0
    <3>1. BeforeIn(used_desc, completion, hw_last) /\ BeforeIn(used_desc, hw_last, hw_cur) /\ BeforeIn(used_desc, hw_last, hw_last)
      BY <1>0, <1>o, <2>2, <2>4 DEF MarkInv
    <3>2. BeforeIn(used_desc, last_completion, hw_last) /\ (cleanup_lock # "none" => BeforeIn(used_desc, phys_complete, hw_last))
      BY <1>0, <1>o, <2>2, <3>1 DEF MarkInv
    <3>3. QED
      BY <1>0, <2>1, <2>2, <2>4, <3>1, <3>2 DEF MarkInv
  <2>5. QED
    BY <2>3, <2>4
<1>14. ASSUME NEW c \in Clients, \/ \E n \in 1..MaxParts : prep_memcpy(c, n) \/ prep_memcpy_fails(c, n)
                                 \/ issue_pending(c) \/ __issue_pending(c) \/ wait_done(c) \/ wait_timeout(c)
       PROVE  Still
  BY <1>14 DEF prep_memcpy, prep_memcpy_fails, issue_pending, __issue_pending, wait_done, wait_timeout, AppendCommand,
               Still, lists, counters, marks, watchdog, cleaning, hw
<1>15. ASSUME NEW p \in Cleaners, cleanup_contended(p) PROVE Still
  BY <1>15 DEF cleanup_contended, Unlock, Still, lists, counters, marks, watchdog, hw
<1>16. ASSUME tasklet_returns \/ timer_after_free \/ timer_nothing \/ suspend_chan \/ resume_chan PROVE Still
  BY <1>16 DEF tasklet_returns, timer_after_free, timer_nothing, suspend_chan, resume_chan, Still, lists, counters, marks,
               watchdog, cleaning, hw
<1>17. ASSUME UNCHANGED vars PROVE Still
  BY <1>17 DEF vars, Still, lists, counters, marks, watchdog, cleaning, hw
<1>18. QED
  BY <1>1, <1>2, <1>3, <1>4, <1>5, <1>6, <1>7, <1>8, <1>9, <1>10, <1>11, <1>12, <1>13, <1>14, <1>15, <1>16, <1>17, CleanCases
     DEF Next, Client, Cleanup, Timer, Engine, AtRest

\* The addresses that the engine and the driver know are in use.
LEMMA InUse == ListInv => AddressesInUse
<1> SUFFICES ASSUME ListInv, Up
             PROVE  {hw_cur, hw_next, hw_last, completion, last_completion, phys_complete, status} \subseteq Elems(used_desc) \union {0}
  BY DEF AddressesInUse, Up
<1>1. MarkInv /\ LockInv
  BY DEF ListInv
<1>2. \A a, b : Before(a, b) => a \in Elems(used_desc) \union {0}
  BY DEF Before, BeforeIn, Elems
<1>3. \A a, b : NextTo(used_desc, a, b) => b \in Elems(used_desc)
  BY DEF NextTo, Elems
<1>4. QED
  BY <1>1, <1>2, <1>3 DEF MarkInv, LockInv

\* The lists start sound.
LEMMA ListStart == Init => ListInv
<1> SUFFICES ASSUME Init PROVE ListInv
  OBVIOUS
<1> USE DescAssumption, BoundsAssumption, ClientsAssumption DEF Init
<1>1. TypeOK
  <2>1. [d \in Desc |-> Blank] \in [Desc -> DescType]
    BY DEF Blank, DescType, Part
  <2>2. /\ <<>> \in Seq(Desc) /\ <<>> \in Seq(1..MaxParts) /\ [c \in Clients |-> <<>>] \in [Clients -> Seq(Desc)]
        /\ [c \in Clients |-> 0] \in [Clients -> 0..MaxCookie]
    OBVIOUS
  <2>3. 0 \in 0..MaxDesc /\ 0 \in 0..MaxCookie /\ 0 \in 0..MaxAllocs /\ 0 \in Int
    OBVIOUS
  <2>4. pc \in [Clients -> {"idle", "prepared", "submitted", "retry", "issue_wait", "issue_retry", "waiting"}]
    OBVIOUS
  <2> HIDE DescAssumption, BoundsAssumption, ClientsAssumption
  <2>5. QED
    BY <2>1, <2>2, <2>3, <2>4 DEF TypeOK, DescType
<1>2. OneList
  BY DEF OneList, Distinct, Elems
<1>3. BoundInv
  <2>1. {c \in Clients : pc[c] = "prepared"} = {}
    OBVIOUS
  <2>2. QED
    BY <2>1, FS_EmptySet DEF BoundInv
<1>4. LinksFollowList /\ DownInv /\ ChainInv /\ LockInv /\ MarkInv
  BY DEF LinksFollowList, DownInv, ChainInv, LockInv, MarkInv, Up
<1>5. QED
  BY <1>1, <1>2, <1>3, <1>4, OneListIs DEF ListInv

\* ... and stay so.
LEMMA ListStep == ListInv /\ [Next]_vars => ListInv'
BY TypeStep, OneListStep, LinkStep, LockStep, MarkStep DEF ListInv

\* For any constants: no descriptor is on two lists, the links the engine follows are
\* the order of the used list, and every address that the engine, the completion area,
\* a cleanup or the timer (dma.c:ioat1_timer_event) keeps is that of a descriptor in use.
THEOREM Lists == Spec => [](TypeOK /\ OnOneList /\ LinksFollowList /\ AddressesInUse)
<1>1. ListInv => TypeOK /\ OnOneList /\ LinksFollowList /\ AddressesInUse
  BY InUse DEF ListInv
<1>2. QED
  BY <1>1, ListStart, ListStep, PTL DEF Spec

-----------------------------------------------------------------------------
(* What holds of the cookies, when no transaction is left behind.          *)

\* The cookies of a list of m descriptors, 0 for none, are those above lo up to hi.
InOrder(ck, lo, hi) ==
  /\ lo <= hi
  /\ \A i \in DOMAIN ck : ck[i] # 0 => ck[i] \in (lo + 1)..hi
  /\ \A k \in (lo + 1)..hi : \E i \in DOMAIN ck : ck[i] = k
  /\ \A i, j \in DOMAIN ck : i < j /\ ck[j] # 0 => ck[i] < ck[j]

\* The cookies of the used list.
Ck == [i \in DOMAIN used_desc |-> desc[used_desc[i]].cookie]

\* The type of that list.
LEMMA CkType ==
  ASSUME TypeOK
  PROVE  Ck \in [1..Len(used_desc) -> 0..MaxCookie] /\ Len(used_desc) \in Nat
<1>1. /\ Len(used_desc) \in Nat /\ DOMAIN used_desc = 1..Len(used_desc) /\ \A i \in DOMAIN used_desc : used_desc[i] \in Desc
  BY UsedType
<1>2. \A d \in Desc : desc[d].cookie \in 0..MaxCookie
  BY DEF TypeOK
<1>3. QED
  BY <1>1, <1>2 DEF Ck

\* CookiesInOrder in these terms.
LEMMA InOrderIs ==
  ASSUME TypeOK
  PROVE  CookiesInOrder <=> (desccount # 0 => InOrder(Ck, completed_cookie, cookie))
<1>1. Ck \in [1..Len(used_desc) -> 0..MaxCookie] /\ DOMAIN Ck = DOMAIN used_desc
  BY CkType DEF Ck
<1>2. \A i \in DOMAIN used_desc : Ck[i] = desc[used_desc[i]].cookie
  BY DEF Ck
<1>3. 0 \notin (completed_cookie + 1)..cookie
  BY BoundsAssumption DEF TypeOK
<1>4. {desc[used_desc[i]].cookie : i \in DOMAIN used_desc} = {Ck[i] : i \in DOMAIN used_desc}
  BY <1>2
<1>5. {Ck[i] : i \in DOMAIN used_desc} \ {0} = (completed_cookie + 1)..cookie
        <=> /\ \A i \in DOMAIN used_desc : Ck[i] # 0 => Ck[i] \in (completed_cookie + 1)..cookie
            /\ \A k \in (completed_cookie + 1)..cookie : \E i \in DOMAIN used_desc : Ck[i] = k
  <2> DEFINE S == (completed_cookie + 1)..cookie
  <2>1. 0 \notin S
    BY <1>3
  <2> HIDE DEF S
  <2>2. {Ck[i] : i \in DOMAIN used_desc} \ {0} = S
          <=> /\ \A i \in DOMAIN used_desc : Ck[i] # 0 => Ck[i] \in S
              /\ \A k \in S : \E i \in DOMAIN used_desc : Ck[i] = k
    BY ONLY <2>1
  <2>3. QED
    BY <2>2 DEF S
<1>6. (\A i, j \in DOMAIN used_desc : i < j /\ desc[used_desc[j]].cookie # 0 => desc[used_desc[i]].cookie < desc[used_desc[j]].cookie)
        <=> (\A i, j \in DOMAIN used_desc : i < j /\ Ck[j] # 0 => Ck[i] < Ck[j])
  BY <1>2
<1>7. QED
  BY <1>1, <1>4, <1>5, <1>6 DEF CookiesInOrder, InOrder

\* A submission adds n descriptors to m whose cookies are ck, the last with a new cookie.
AddOf(ck, m, n, lo, hi, new) ==
  /\ m \in Nat /\ n \in Nat \ {0} /\ lo \in Nat /\ hi \in Nat /\ ck \in [1..m -> Nat]
  /\ DOMAIN new = 1..(m + n)
  /\ \A i \in 1..m : new[i] = ck[i]
  /\ \A i \in 1..n : new[m + i] = IF i = n THEN hi + 1 ELSE 0

\* It is the next one.
LEMMA OrderAppend ==
  ASSUME NEW m, NEW n, NEW lo, NEW hi, NEW ck, NEW new, AddOf(ck, m, n, lo, hi, new), InOrder(ck, lo, hi)
  PROVE  InOrder(new, lo, hi + 1)
<1> USE DEF AddOf
<1>1. \A i \in 1..(m + n) : i \in 1..m \/ i - m \in 1..n
  OBVIOUS
<1>2. \A i \in 1..(m + n) : \/ i \in 1..m /\ new[i] = ck[i]
                            \/ i \notin 1..m /\ i # m + n /\ new[i] = 0
                            \/ i \notin 1..m /\ i = m + n /\ new[i] = hi + 1
  <2> SUFFICES ASSUME NEW i \in 1..(m + n), i \notin 1..m PROVE (i # m + n /\ new[i] = 0) \/ (i = m + n /\ new[i] = hi + 1)
    OBVIOUS
  <2>1. i - m \in 1..n /\ m + (i - m) = i
    BY <1>1
  <2>2. new[m + (i - m)] = IF i - m = n THEN hi + 1 ELSE 0
    BY <2>1
  <2>3. QED
    BY <2>1, <2>2
<1>3. \A i \in 1..m : ck[i] \in Nat /\ i \in 1..(m + n) /\ (ck[i] # 0 => ck[i] \in (lo + 1)..hi)
  BY DEF InOrder
<1>4. \A i \in 1..(m + n) : new[i] # 0 => new[i] \in (lo + 1)..(hi + 1)
  BY <1>2, <1>3 DEF InOrder
<1>5. \A k \in (lo + 1)..(hi + 1) : \E i \in 1..(m + n) : new[i] = k
  <2> SUFFICES ASSUME NEW k \in (lo + 1)..(hi + 1) PROVE \E i \in 1..(m + n) : new[i] = k
    OBVIOUS
  <2>1. CASE k = hi + 1
    <3>1. m + n \in 1..(m + n) /\ m + n \notin 1..m
      OBVIOUS
    <3>2. QED
      BY <1>2, <2>1, <3>1
  <2>2. CASE k # hi + 1
    <3>1. k \in (lo + 1)..hi
      BY <2>2
    <3>2. PICK i \in 1..m : ck[i] = k
      BY <3>1 DEF InOrder
    <3>3. QED
      BY <1>3, <3>2
  <2>3. QED
    BY <2>1, <2>2
<1>6. \A i, j \in 1..(m + n) : i < j /\ new[j] # 0 => new[i] < new[j]
  <2> SUFFICES ASSUME NEW i \in 1..(m + n), NEW j \in 1..(m + n), i < j, new[j] # 0 PROVE new[i] < new[j]
    OBVIOUS
  <2>1. CASE j \in 1..m
    <3>1. i \in 1..m
      BY <2>1
    <3>2. QED
      BY <2>1, <3>1 DEF InOrder
  <2>2. CASE j \notin 1..m
    <3>1. j = m + n /\ new[j] = hi + 1
      BY <1>2, <2>2
    <3>2. i \in 1..m \/ new[i] = 0
      BY <1>2, <3>1
    <3>3. CASE i \in 1..m
      <4>1. new[i] = ck[i] /\ ck[i] \in Nat /\ (ck[i] # 0 => ck[i] <= hi)
        BY <1>3, <3>3
      <4>2. QED
        BY <3>1, <4>1
    <3>4. QED
      BY <3>1, <3>2, <3>3
  <2>3. QED
    BY <2>1, <2>2
<1>7. lo <= hi + 1
  BY DEF InOrder
<1>8. DOMAIN new = 1..(m + n)
  OBVIOUS
<1>9. QED
  BY ONLY <1>4, <1>5, <1>6, <1>7, <1>8 DEF InOrder

\* A cleanup takes the cookies ck of m descriptors off the first r, keeps the r-th, and
\* leaves co as the completed one.
CutOf(ck, m, r, lo, hi, co, new) ==
  /\ m \in Nat /\ r \in 1..m /\ lo \in Nat /\ hi \in Nat /\ ck \in [1..m -> Nat]
  /\ \/ co = lo /\ \A i \in 1..r : ck[i] = 0
     \/ (\E i \in 1..r : ck[i] # 0 /\ co = ck[i]) /\ \A i \in 1..r : ck[i] <= co
  /\ DOMAIN new = 1..(m - r + 1)
  /\ \A i \in 1..(m - r + 1) : new[i] = IF r - 1 + i <= r THEN 0 ELSE ck[r - 1 + i]

\* It completes those on its way: the ones it leaves are the later ones.
LEMMA OrderCut ==
  ASSUME NEW m, NEW r, NEW lo, NEW hi, NEW ck, NEW co, NEW new, CutOf(ck, m, r, lo, hi, co, new), InOrder(ck, lo, hi)
  PROVE  InOrder(new, co, hi) /\ (lo = hi => co = hi) /\ lo <= co /\ co \in Nat
<1> USE DEF CutOf
<1>1. \A i \in 1..r : i \in 1..m
  OBVIOUS
<1>2. lo <= co /\ co <= hi /\ co \in Nat /\ \A i \in 1..r : ck[i] <= co
  <2>1. CASE co = lo /\ \A i \in 1..r : ck[i] = 0
    BY <2>1 DEF InOrder
  <2>2. CASE (\E i \in 1..r : ck[i] # 0 /\ co = ck[i]) /\ \A i \in 1..r : ck[i] <= co
    <3>1. PICK i \in 1..r : ck[i] # 0 /\ co = ck[i]
      BY <2>2
    <3>2. co \in (lo + 1)..hi
      BY <1>1, <3>1 DEF InOrder
    <3>3. QED
      BY <2>2, <3>2
  <2>3. QED
    BY <2>1, <2>2
<1>3. \A i \in (r + 1)..m : i \in 1..m /\ i - r + 1 \in 1..(m - r + 1) /\ r - 1 + (i - r + 1) = i /\ new[i - r + 1] = ck[i]
  <2> SUFFICES ASSUME NEW i \in (r + 1)..m
               PROVE  i \in 1..m /\ i - r + 1 \in 1..(m - r + 1) /\ r - 1 + (i - r + 1) = i /\ new[i - r + 1] = ck[i]
    OBVIOUS
  <2>1. i \in 1..m /\ i - r + 1 \in 1..(m - r + 1) /\ r - 1 + (i - r + 1) = i /\ ~(i <= r)
    OBVIOUS
  <2>2. QED
    BY <2>1
<1>4. \A i \in 1..(m - r + 1) : (i = 1 /\ new[i] = 0) \/ (r - 1 + i \in (r + 1)..m /\ new[i] = ck[r - 1 + i])
  OBVIOUS
<1>5. \A i \in (r + 1)..m : ck[i] # 0 => ck[i] \in (co + 1)..hi
  <2> SUFFICES ASSUME NEW i \in (r + 1)..m, ck[i] # 0 PROVE ck[i] \in (co + 1)..hi
    OBVIOUS
  <2>1. i \in 1..m /\ ck[i] \in (lo + 1)..hi
    BY <1>3 DEF InOrder
  <2>2. \A k \in 1..r : ck[k] < ck[i]
    <3>1. \A k \in 1..r : k < i /\ k \in 1..m
      OBVIOUS
    <3>2. QED
      BY <2>1, <3>1 DEF InOrder
  <2>3. co < ck[i]
    BY <2>1, <2>2
  <2>4. QED
    BY <1>2, <2>1, <2>3
<1>6. \A i \in 1..(m - r + 1) : new[i] # 0 => new[i] \in (co + 1)..hi
  BY <1>4, <1>5
<1>7. \A k \in (co + 1)..hi : \E i \in 1..(m - r + 1) : new[i] = k
  <2> SUFFICES ASSUME NEW k \in (co + 1)..hi PROVE \E i \in 1..(m - r + 1) : new[i] = k
    OBVIOUS
  <2>1. k \in (lo + 1)..hi
    BY <1>2
  <2>2. PICK i \in 1..m : ck[i] = k
    BY <2>1 DEF InOrder
  <2>3. i \notin 1..r
    BY <1>2, <2>2
  <2>4. i \in (r + 1)..m
    BY <2>3
  <2>5. QED
    BY <1>3, <2>2, <2>4
<1>8. \A i, j \in 1..(m - r + 1) : i < j /\ new[j] # 0 => new[i] < new[j]
  <2> SUFFICES ASSUME NEW i \in 1..(m - r + 1), NEW j \in 1..(m - r + 1), i < j, new[j] # 0 PROVE new[i] < new[j]
    OBVIOUS
  <2>1. r - 1 + j \in (r + 1)..m /\ new[j] = ck[r - 1 + j] /\ r - 1 + j \in 1..m
    BY <1>3, <1>4
  <2>2. new[j] \in Nat
    BY <2>1
  <2>3. CASE new[i] = 0
    BY <2>2, <2>3
  <2>4. CASE r - 1 + i \in (r + 1)..m /\ new[i] = ck[r - 1 + i]
    <3>1. r - 1 + i < r - 1 + j /\ r - 1 + i \in 1..m
      BY <2>4
    <3>2. ck[r - 1 + i] < ck[r - 1 + j]
      BY <2>1, <3>1 DEF InOrder
    <3>3. QED
      BY <2>1, <2>4, <3>2
  <2>5. QED
    BY <1>4, <2>3, <2>4
<1>9. lo = hi => co = hi
  BY <1>2
<1>10. QED
  BY <1>2, <1>6, <1>7, <1>8, <1>9 DEF InOrder

\* What a cleanup completes, in terms of the cookies of the used list.
LEMMA CleanOrder ==
  ASSUME TypeOK, TypeOK', NEW phys, NEW r, Cleans(phys, r), CleanFrame(phys), InOrder(Ck, completed_cookie, cookie)
  PROVE  /\ InOrder(Ck', completed_cookie', cookie) /\ (completed_cookie = cookie => completed_cookie' = cookie)
         /\ completed_cookie <= completed_cookie' /\ completed_cookie' \in Nat
<1> DEFINE m == Len(used_desc)
<1>1. /\ m \in Nat /\ Ck \in [1..m -> Nat] /\ completed_cookie \in Nat /\ cookie \in Nat
  <2>1. m \in Nat /\ Ck \in [1..m -> 0..MaxCookie]
    BY CkType
  <2>2. \A x \in 0..MaxCookie : x \in Nat
    BY BoundsAssumption
  <2>3. completed_cookie \in 0..MaxCookie /\ cookie \in 0..MaxCookie
    BY DEF TypeOK
  <2> HIDE DEF m
  <2>4. QED
    BY <2>1, <2>2, <2>3
<1>2. \A i \in 1..m : Ck[i] = desc[used_desc[i]].cookie /\ i \in DOMAIN used_desc
  BY UsedType DEF Ck
<1>3. r \in 1..m /\ r = Reached(phys) /\ phys \in 0..MaxDesc /\ completed_cookie' = Completed(phys)
  <2>1. phys \in 0..MaxDesc
    BY DescAssumption DEF CleanFrame
  <2>2. QED
    BY <2>1 DEF Cleans, CleanFrame
<1>4. \A i \in 1..r : i \in 1..m
  BY <1>1, <1>3
<1>5. \/ completed_cookie' = completed_cookie /\ \A i \in 1..r : Ck[i] = 0
      \/ (\E i \in 1..r : Ck[i] # 0 /\ completed_cookie' = Ck[i]) /\ \A i \in 1..r : Ck[i] <= completed_cookie'
  BY <1>2, <1>3, <1>4, CompletedFacts
<1>6. DOMAIN Ck' = 1..(m - r + 1)
  BY DEF Cleans, Ck
<1>7. \A i \in 1..(m - r + 1) : Ck'[i] = IF r - 1 + i <= r THEN 0 ELSE Ck[r - 1 + i]
  <2> SUFFICES ASSUME NEW i \in 1..(m - r + 1) PROVE Ck'[i] = IF r - 1 + i <= r THEN 0 ELSE Ck[r - 1 + i]
    OBVIOUS
  <2>1. r - 1 + i \in DOMAIN used_desc /\ used_desc'[i] = used_desc[r - 1 + i] /\ i \in DOMAIN used_desc'
    BY DEF Cleans
  <2>2. Ck'[i] = desc'[used_desc'[i]].cookie /\ Ck[r - 1 + i] = desc[used_desc[r - 1 + i]].cookie
    BY <2>1 DEF Ck
  <2>3. desc'[used_desc[r - 1 + i]].cookie = IF r - 1 + i <= r THEN 0 ELSE desc[used_desc[r - 1 + i]].cookie
    BY <2>1 DEF Cleans
  <2>4. QED
    BY <2>1, <2>2, <2>3
<1> DEFINE co == completed_cookie'
           new == Ck'
<1> HIDE DEF m, co, new
<1>8. /\ InOrder(new, co, cookie) /\ (completed_cookie = cookie => co = cookie)
      /\ completed_cookie <= co /\ co \in Nat
  <2>1. r \in 1..m /\ InOrder(Ck, completed_cookie, cookie) /\ DOMAIN new = 1..(m - r + 1)
    BY <1>3, <1>6 DEF new
  <2>2. \/ co = completed_cookie /\ \A i \in 1..r : Ck[i] = 0
        \/ (\E i \in 1..r : Ck[i] # 0 /\ co = Ck[i]) /\ \A i \in 1..r : Ck[i] <= co
    BY <1>5 DEF co
  <2>3. \A i \in 1..(m - r + 1) : new[i] = IF r - 1 + i <= r THEN 0 ELSE Ck[r - 1 + i]
    BY <1>7 DEF new
  <2>4. CutOf(Ck, m, r, completed_cookie, cookie, co, new)
    BY <1>1, <2>1, <2>2, <2>3 DEF CutOf
  <2>5. QED
    BY <2>1, <2>4, OrderCut
<1>9. QED
  BY <1>8 DEF co, new

\* A cleanup of a list without cookies completes nothing.
LEMMA NothingLeft ==
  ASSUME TypeOK, NEW phys \in 0..MaxDesc, InOrder(Ck, completed_cookie, cookie), completed_cookie = cookie
  PROVE  Completed(phys) = completed_cookie
<1>1. \A i \in DOMAIN used_desc : Ck[i] = 0
  <2>1. completed_cookie \in Int
    BY DEF TypeOK
  <2>2. \A k : k \notin (completed_cookie + 1)..cookie
    BY <2>1
  <2>3. DOMAIN Ck = DOMAIN used_desc
    BY DEF Ck
  <2>4. QED
    BY <2>2, <2>3 DEF InOrder
<1>2. \A i \in 1..Reached(phys) : i \in DOMAIN used_desc
  <2>1. Reached(phys) \in 0..Len(used_desc) /\ Len(used_desc) \in Nat /\ DOMAIN used_desc = 1..Len(used_desc)
    BY CleanType, UsedType
  <2>2. QED
    BY <2>1
<1>3. \A i \in 1..Reached(phys) : desc[used_desc[i]].cookie = 0
  BY <1>1, <1>2 DEF Ck
<1>4. QED
  BY <1>3, CompletedFacts

\* Only descriptors of the used list carry a cookie.
LEMMA BareStep == ListInv /\ BareInv /\ [Next]_vars => BareInv'
<1> SUFFICES ASSUME ListInv, BareInv, [Next]_vars, desccount' # 0, NEW d \in Desc, d \notin Elems(used_desc')
             PROVE  desc'[d].cookie = 0
  BY DEF BareInv, Up
<1>0. TypeOK /\ OnOneList /\ LinksFollowList /\ DownInv /\ ChainInv /\ BoundInv
  BY DEF ListInv
<1>1. CASE alloc_chan_resources
  BY <1>1 DEF alloc_chan_resources, Blank
<1>2. CASE free_chan_resources
  BY <1>2 DEF free_chan_resources
<1>3. ASSUME NEW c \in Clients, NEW n \in 1..MaxParts, prep_memcpy(c, n) PROVE desc'[d].cookie = 0
  <2>1. PICK ds : Prepares(c, n, ds)
    BY <1>0, <1>3, PrepFacts
  <2>2. desc[d].cookie = 0
    BY <1>3 DEF prep_memcpy, counters, BareInv, Up
  <2>3. CASE d \in Elems(ds)
    <3>1. PICK i \in 1..n : d = ds[i]
      BY <2>1, <2>3 DEF Prepares, Elems
    <3>2. QED
      BY <2>1, <2>2, <3>1 DEF Prepares
  <2>4. CASE d \notin Elems(ds)
    BY <2>1, <2>2, <2>4 DEF Prepares
  <2>5. QED
    BY <2>3, <2>4
<1>4. ASSUME NEW c \in Clients, NEW n \in 1..MaxParts, prep_memcpy_fails(c, n) PROVE desc'[d].cookie = 0
  BY <1>4 DEF prep_memcpy_fails, counters, BareInv, Up
<1>5. ASSUME NEW c \in Clients, tx_submit(c) PROVE desc'[d].cookie = 0
  <2>1. PICK ds, n, m : Appends(c, ds, n, m)
    BY <1>0, <1>5, SubmitFacts
  <2>2. desc[d].cookie = 0 /\ d \notin Elems(ds)
    BY <2>1 DEF Appends, BareInv, Up
  <2>3. QED
    BY <2>1, <2>2 DEF Appends
<1>6. ASSUME NEW phys, NEW r, Cleans(phys, r), CleanFrame(phys) PROVE desc'[d].cookie = 0
  <2>1. CASE d \notin Elems(used_desc)
    <3>1. desc[d].cookie = 0
      BY <1>6, <2>1 DEF CleanFrame, BareInv, Up
    <3>2. QED
      BY <1>6, <2>1, <3>1 DEF Cleans
  <2>2. CASE d \in Elems(used_desc)
    <3>1. PICK i \in DOMAIN used_desc : used_desc[i] = d
      BY <2>2 DEF Elems
    <3>2. i <= r
      <4> SUFFICES ASSUME ~(i <= r) PROVE FALSE
        OBVIOUS
      <4>1. r \in 1..Len(used_desc) /\ Len(used_desc) \in Nat /\ i \in 1..Len(used_desc)
        BY <1>6 DEF Cleans
      <4>2. i - r + 1 \in 1..(Len(used_desc) - r + 1) /\ r - 1 + (i - r + 1) = i
        BY <4>1
      <4>3. i - r + 1 \in DOMAIN used_desc' /\ used_desc'[i - r + 1] = used_desc[r - 1 + (i - r + 1)]
        BY <1>6, <4>2 DEF Cleans
      <4>4. QED
        BY <3>1, <4>2, <4>3 DEF Elems
    <3>3. QED
      BY <1>6, <3>1, <3>2 DEF Cleans
  <2>3. QED
    BY <2>1, <2>2
<1>7. CASE Quiet
  BY <1>7 DEF Quiet, BareInv, Up
<1>8. QED
  BY <1>1, <1>2, <1>3, <1>4, <1>5, <1>6, <1>7, Kinds

\* A step that leaves the cookies of the used list as they are.
LEMMA SameCookies ==
  ASSUME TypeOK, TypeOK', used_desc' = used_desc, \A i \in DOMAIN used_desc : desc'[used_desc[i]].cookie = desc[used_desc[i]].cookie
  PROVE  Ck' = Ck
BY DEF Ck

\* The cookies stay in order.
LEMMA OrderStep ==
  ListInv /\ TypeOK' /\ CookieInv /\ [Next]_vars
    => (desccount' # 0 => InOrder(Ck', completed_cookie', cookie'))
<1> SUFFICES ASSUME ListInv, TypeOK', CookieInv, [Next]_vars, desccount' # 0
             PROVE  InOrder(Ck', completed_cookie', cookie')
  OBVIOUS
<1>0. TypeOK /\ OnOneList /\ LinksFollowList /\ DownInv /\ ChainInv /\ BoundInv /\ BareInv /\ LeftInv /\ CookiesInOrder
  BY DEF ListInv, CookieInv
<1>t. cookie \in Nat /\ completed_cookie \in Nat /\ allocs \in Nat /\ MaxAllocs \in Nat
  BY <1>0, BoundsAssumption DEF TypeOK
<1>o. desccount # 0 => InOrder(Ck, completed_cookie, cookie)
  BY <1>0, InOrderIs
<1>u. \A i \in DOMAIN used_desc : used_desc[i] \in Desc /\ used_desc[i] \in Elems(used_desc)
  BY <1>0, UsedType DEF Elems
<1>1. CASE alloc_chan_resources
  <2>1. completed_cookie = cookie
    <3>1. desccount = 0 /\ allocs < MaxAllocs
      BY <1>1 DEF alloc_chan_resources
    <3>2. CASE allocs = 0
      BY <1>0, <3>2 DEF LeftInv
    <3>3. CASE allocs # 0
      <4>1. MaxAllocs > 1
        BY <1>t, <3>1, <3>3
      <4>2. QED
        BY <1>0, <3>1, <4>1 DEF LeftInv, Up
    <3>4. QED
      BY <3>2, <3>3
  <2>2. UNCHANGED <<cookie, completed_cookie>>
    BY <1>1 DEF alloc_chan_resources, cookies
  <2>3. DOMAIN Ck' = {1} /\ Ck'[1] = 0
    <3>1. used_desc' = <<1>> /\ desc'[1].cookie = 0
      BY <1>1, DescAssumption DEF alloc_chan_resources, Blank, Desc
    <3>2. DOMAIN <<1>> = {1} /\ <<1>>[1] = 1
      OBVIOUS
    <3>3. QED
      BY <3>1, <3>2 DEF Ck
  <2>4. QED
    BY <1>t, <2>1, <2>2, <2>3 DEF InOrder
<1>2. CASE free_chan_resources
  BY <1>2 DEF free_chan_resources
<1>3. ASSUME NEW c \in Clients, NEW n \in 1..MaxParts, prep_memcpy(c, n) PROVE InOrder(Ck', completed_cookie', cookie')
  <2>1. PICK ds : Prepares(c, n, ds)
    BY <1>0, <1>3, PrepFacts
  <2>2. UNCHANGED <<used_desc, cookie, completed_cookie, desccount>>
    BY <1>3 DEF prep_memcpy, cookies, counters
  <2>3. \A i \in DOMAIN used_desc : desc'[used_desc[i]] = desc[used_desc[i]]
    BY <1>u, <2>1 DEF Prepares
  <2>4. Ck' = Ck
    BY <1>0, <2>2, <2>3, SameCookies
  <2>5. QED
    BY <1>o, <2>2, <2>4
<1>4. ASSUME NEW c \in Clients, NEW n \in 1..MaxParts, prep_memcpy_fails(c, n) PROVE InOrder(Ck', completed_cookie', cookie')
  <2>1. UNCHANGED <<used_desc, desc, cookie, completed_cookie, desccount>>
    BY <1>4 DEF prep_memcpy_fails, cookies, counters
  <2>2. QED
    BY <1>0, <1>o, <2>1, SameCookies
<1>5. ASSUME NEW c \in Clients, tx_submit(c) PROVE InOrder(Ck', completed_cookie', cookie')
  <2>1. PICK ds, n, m : Appends(c, ds, n, m)
    BY <1>0, <1>5, SubmitFacts
  <2>2. /\ m \in Nat /\ n \in 1..MaxParts /\ m = Len(used_desc) /\ DOMAIN used_desc = 1..m /\ DOMAIN used_desc' = 1..(m + n)
        /\ \A i \in 1..m : used_desc'[i] = used_desc[i]
        /\ \A i \in 1..n : used_desc'[m + i] = ds[i] /\ ds[i] \in Desc /\ ds[i] \in Elems(ds)
        /\ Elems(used_desc) \intersect Elems(ds) = {} /\ desccount # 0 /\ cookie' = cookie + 1
        /\ \A d \in Desc : d \notin Elems(ds) => desc'[d].cookie = desc[d].cookie
        /\ \A i \in 1..n : desc'[ds[i]].cookie = IF i = n THEN cookie + 1 ELSE desc[ds[i]].cookie
    BY <2>1 DEF Appends
  <2>3. completed_cookie' = completed_cookie
    BY <1>5 DEF tx_submit
  <2>4. \A i \in 1..n : desc[ds[i]].cookie = 0
    BY <1>0, <2>2 DEF BareInv, Up
  <2>n. n \in Nat \ {0}
    BY <2>2, BoundsAssumption
  <2>5. \A i \in 1..m : Ck'[i] = Ck[i]
    <3>1. \A i \in 1..m : i \in 1..(m + n)
      BY <2>2, <2>n
    <3>2. \A i \in 1..m : desc'[used_desc[i]].cookie = desc[used_desc[i]].cookie
      BY <1>u, <2>2
    <3>3. QED
      BY <2>2, <3>1, <3>2 DEF Ck
  <2>6. \A i \in 1..n : Ck'[m + i] = IF i = n THEN cookie + 1 ELSE 0
    <3>1. \A i \in 1..n : m + i \in DOMAIN used_desc'
      BY <2>2, <2>n
    <3>2. \A i \in DOMAIN used_desc' : Ck'[i] = desc'[used_desc'[i]].cookie
      BY DEF Ck
    <3>3. ASSUME NEW i \in 1..n PROVE Ck'[m + i] = IF i = n THEN cookie + 1 ELSE 0
      <4>1. Ck'[m + i] = desc'[ds[i]].cookie
        <5>1. used_desc'[m + i] = ds[i] /\ m + i \in DOMAIN used_desc'
          BY <2>2, <3>1
        <5>2. QED
          BY ONLY <3>2, <5>1
      <4>2. QED
        BY <2>2, <2>4, <4>1
    <3>4. QED
      BY <3>3
  <2>7. DOMAIN Ck' = 1..(m + n)
    BY <2>2 DEF Ck
  <2>8. Ck \in [1..m -> Nat]
    <3>1. Ck \in [1..m -> 0..MaxCookie]
      BY <1>0, <2>2, CkType
    <3>2. \A x \in 0..MaxCookie : x \in Nat
      BY BoundsAssumption
    <3>3. QED
      BY <3>1, <3>2
  <2> DEFINE new == Ck'
  <2> HIDE DEF new
  <2>9. InOrder(Ck, completed_cookie, cookie)
    BY <1>o, <2>2
  <2>10. AddOf(Ck, m, n, completed_cookie, cookie, new)
    BY <1>t, <2>2, <2>n, <2>5, <2>6, <2>7, <2>8 DEF AddOf, new
  <2>11. InOrder(new, completed_cookie, cookie + 1)
    BY <2>9, <2>10, OrderAppend
  <2>12. QED
    BY <2>2, <2>3, <2>11 DEF new
<1>6. ASSUME NEW phys, NEW r, Cleans(phys, r), CleanFrame(phys) PROVE InOrder(Ck', completed_cookie', cookie')
  <2>1. cookie' = cookie /\ desccount # 0
    BY <1>6 DEF CleanFrame
  <2>2. QED
    BY <1>0, <1>o, <1>6, <2>1, CleanOrder
<1>7. CASE Quiet
  <2>1. UNCHANGED <<used_desc, desc, cookie, completed_cookie, desccount>>
    BY <1>7 DEF Quiet
  <2>2. QED
    BY <1>0, <1>o, <2>1, SameCookies
<1>8. QED
  BY <1>1, <1>2, <1>3, <1>4, <1>5, <1>6, <1>7, Kinds

\* What the steps below need of the types and of the order.
LEMMA CookieFacts ==
  ASSUME ListInv, CookieInv
  PROVE  /\ TypeOK /\ DownInv /\ LeftInv
         /\ cookie \in Nat /\ completed_cookie \in Nat /\ allocs \in Nat /\ MaxAllocs \in Nat
         /\ pc \in [Clients -> {"idle", "prepared", "submitted", "retry", "issue_wait", "issue_retry", "waiting"}]
         /\ wait \in [Clients -> Nat]
         /\ desccount # 0 => InOrder(Ck, completed_cookie, cookie) /\ completed_cookie <= cookie
<1>0. TypeOK /\ DownInv /\ LeftInv /\ CookiesInOrder
  BY DEF ListInv, CookieInv
<1>1. wait \in [Clients -> Nat]
  <2>1. wait \in [Clients -> 0..MaxCookie]
    BY <1>0 DEF TypeOK
  <2>2. \A x \in 0..MaxCookie : x \in Nat
    BY BoundsAssumption
  <2>3. QED
    BY <2>1, <2>2
<1>2. cookie \in Nat /\ completed_cookie \in Nat /\ allocs \in Nat /\ MaxAllocs \in Nat
  <2>1. cookie \in 0..MaxCookie /\ completed_cookie \in 0..MaxCookie /\ allocs \in 0..MaxAllocs
    BY <1>0 DEF TypeOK
  <2>2. QED
    BY <2>1, BoundsAssumption
<1>3. pc \in [Clients -> {"idle", "prepared", "submitted", "retry", "issue_wait", "issue_retry", "waiting"}]
  BY <1>0 DEF TypeOK
<1>4. desccount # 0 => InOrder(Ck, completed_cookie, cookie)
  BY <1>0, InOrderIs
<1>5. desccount # 0 => completed_cookie <= cookie
  BY <1>4 DEF InOrder
<1>6. QED
  BY <1>0, <1>1, <1>2, <1>3, <1>4, <1>5

\* When every client is idle and the newest transaction is waited for, nothing is left.
LEMMA FreeLeaves ==
  ASSUME ListInv, CookieInv, WaitInv, free_chan_resources
  PROVE  completed_cookie = cookie /\ completed_cookie' = cookie
<1>0. TypeOK /\ DownInv /\ LeftInv
  BY CookieFacts
<1>t. /\ cookie \in Nat /\ completed_cookie \in Nat /\ allocs \in Nat /\ MaxAllocs \in Nat
      /\ pc \in [Clients -> {"idle", "prepared", "submitted", "retry", "issue_wait", "issue_retry", "waiting"}]
      /\ wait \in [Clients -> Nat]
  BY CookieFacts
<1>o. desccount # 0 => InOrder(Ck, completed_cookie, cookie) /\ completed_cookie <= cookie
  BY CookieFacts
<1>1. desccount # 0 /\ \A c \in Clients : pc[c] = "idle"
  BY DEF free_chan_resources
<1>2. \A c \in Clients : wait[c] = 0
  BY <1>0, <1>1 DEF LeftInv
<1>3. completed_cookie = cookie
  BY <1>t, <1>o, <1>1, <1>2 DEF WaitInv
<1>4. completion \in 0..MaxDesc
  BY <1>0 DEF TypeOK
<1>5. Completed(completion) = completed_cookie
  BY <1>0, <1>o, <1>1, <1>3, <1>4, NothingLeft
<1>6. QED
  BY <1>3, <1>5 DEF free_chan_resources

\* The newest transaction stays waited for, unless its client gives up.
LEMMA WaitStep ==
  ListInv /\ CookieInv /\ WaitInv /\ TypeOK' /\ [Next]_vars /\ (\A c \in Clients : ~wait_timeout(c)) => WaitInv'
<1> SUFFICES ASSUME ListInv, CookieInv, WaitInv, TypeOK', [Next]_vars, \A c \in Clients : ~wait_timeout(c)
             PROVE  completed_cookie' = cookie' \/ \E c \in Clients : wait'[c] = cookie'
  BY DEF WaitInv
<1>h. TypeOK /\ DownInv /\ LeftInv
  BY CookieFacts
<1>t. /\ cookie \in Nat /\ completed_cookie \in Nat /\ allocs \in Nat /\ MaxAllocs \in Nat
      /\ pc \in [Clients -> {"idle", "prepared", "submitted", "retry", "issue_wait", "issue_retry", "waiting"}]
      /\ wait \in [Clients -> Nat]
  BY CookieFacts
<1>o. desccount # 0 => InOrder(Ck, completed_cookie, cookie) /\ completed_cookie <= cookie
  BY CookieFacts
<1>0. completed_cookie = cookie \/ \E c \in Clients : wait[c] = cookie
  BY DEF WaitInv
<1>1. CASE UNCHANGED <<wait, cookie, completed_cookie>>
  BY <1>0, <1>1
<1>2. CASE free_chan_resources
  <2>1. cookie' = cookie
    BY <1>2 DEF free_chan_resources
  <2>2. QED
    BY <1>2, <2>1, FreeLeaves
<1>3. ASSUME NEW c \in Clients, tx_submit(c) PROVE \E b \in Clients : wait'[b] = cookie'
  <2>1. wait'[c] = cookie'
    BY <1>t, <1>3 DEF tx_submit
  <2>2. QED
    BY <2>1
<1>4. ASSUME NEW b \in Clients, wait_done(b) PROVE completed_cookie' = cookie' \/ \E c \in Clients : wait'[c] = cookie'
  <2>1. /\ wait[b] <= completed_cookie /\ UNCHANGED <<cookie, completed_cookie>> /\ pc[b] = "waiting"
        /\ wait' = [wait EXCEPT ![b] = 0]
    BY <1>4 DEF wait_done, cookies
  <2>2. completed_cookie <= cookie
    BY <1>h, <1>o, <2>1 DEF DownInv
  <2>3. CASE wait[b] = cookie
    <3>1. completed_cookie = cookie
      BY <1>t, <2>1, <2>2, <2>3
    <3>2. QED
      BY <2>1, <3>1
  <2>4. CASE wait[b] # cookie
    BY <1>t, <1>0, <2>1, <2>4
  <2>5. QED
    BY <2>3, <2>4
<1>5. ASSUME NEW phys, NEW r, Cleans(phys, r), CleanFrame(phys)
      PROVE  completed_cookie' = cookie' \/ \E c \in Clients : wait'[c] = cookie'
  <2>1. cookie' = cookie /\ wait' = wait /\ desccount # 0
    BY <1>5 DEF CleanFrame, clients
  <2>2. completed_cookie = cookie => completed_cookie' = cookie
    BY <1>h, <1>o, <1>5, <2>1, CleanOrder
  <2>3. QED
    BY <1>0, <2>1, <2>2
<1>6. ASSUME NEW c \in Clients, Client(c), ~tx_submit(c), ~wait_done(c) PROVE UNCHANGED <<wait, cookie, completed_cookie>>
  BY <1>6 DEF Client, prep_memcpy, prep_memcpy_fails, issue_pending, __issue_pending, cookies
<1>7. ASSUME NEW p \in Cleaners, cleanup_preamble(p) \/ cleanup_contended(p) PROVE UNCHANGED <<wait, cookie, completed_cookie>>
  BY <1>7 DEF cleanup_preamble, cleanup_contended, clients, cookies
<1>8. ASSUME timer_after_free \/ timer_nothing \/ timer_restart \/ timer_check \/ timer_update \/ reset_channel
      PROVE  UNCHANGED <<wait, cookie, completed_cookie>>
  BY <1>8 DEF timer_after_free, timer_nothing, timer_restart, timer_check, timer_update, reset_channel, clients, cookies
<1>9. ASSUME Engine \/ tasklet_returns \/ alloc_chan_resources PROVE UNCHANGED <<wait, cookie, completed_cookie>>
  BY <1>9 DEF Engine, hw_execute, hw_reads_append, hw_halt, suspend_chan, resume_chan, tasklet_returns, alloc_chan_resources,
              clients, cookies
<1>10. ASSUME UNCHANGED vars PROVE UNCHANGED <<wait, cookie, completed_cookie>>
  BY <1>10 DEF vars, clients, cookies
<1>11. QED
  BY <1>1, <1>2, <1>3, <1>4, <1>5, <1>6, <1>7, <1>8, <1>9, <1>10, CleanCases DEF Next, Cleanup, Timer, AtRest

\* No transaction is left behind.
LEMMA LeftStep == (MaxAllocs = 1 \/ WaitInv) /\ ListInv /\ CookieInv /\ [Next]_vars => LeftInv'
<1> SUFFICES ASSUME MaxAllocs = 1 \/ WaitInv, ListInv, CookieInv, [Next]_vars PROVE LeftInv'
  OBVIOUS
<1>0. TypeOK /\ DownInv /\ LeftInv
  BY CookieFacts
<1>t. /\ cookie \in Nat /\ completed_cookie \in Nat /\ allocs \in Nat /\ MaxAllocs \in Nat
      /\ pc \in [Clients -> {"idle", "prepared", "submitted", "retry", "issue_wait", "issue_retry", "waiting"}]
      /\ wait \in [Clients -> Nat]
  BY CookieFacts
<1>o. desccount # 0 => InOrder(Ck, completed_cookie, cookie) /\ completed_cookie <= cookie
  BY CookieFacts
<1>1. (allocs = 0 => ~Up /\ cookie = 0 /\ completed_cookie = 0 /\ state = {})'
  <2>1. CASE alloc_chan_resources
    <3>1. allocs' # 0
      BY <1>t, <2>1 DEF alloc_chan_resources
    <3>2. QED
      BY <3>1
  <2>2. CASE desccount # 0 /\ allocs' = allocs
    BY <1>0, <2>2 DEF LeftInv, Up
  <2>3. CASE UNCHANGED <<desccount, cookie, completed_cookie, state, allocs>>
    BY <1>0, <2>3 DEF LeftInv, Up
  <2>4. CASE free_chan_resources
    <3>1. desccount # 0 /\ allocs' = allocs
      BY <2>4 DEF free_chan_resources, history
    <3>2. QED
      BY <2>2, <3>1
  <2>5. ASSUME NEW c \in Clients, Client(c) PROVE desccount # 0 /\ allocs' = allocs
    <3>1. desccount # 0
      BY <1>0, <2>5 DEF DownInv, Client, prep_memcpy, prep_memcpy_fails, tx_submit, issue_pending, __issue_pending, wait_done, wait_timeout
    <3>2. allocs' = allocs
      BY <2>5 DEF Client, prep_memcpy, prep_memcpy_fails, tx_submit, issue_pending, __issue_pending, wait_done, wait_timeout, history
    <3>3. QED
      BY <3>1, <3>2
  <2>6. ASSUME NEW phys, NEW r, Cleans(phys, r), CleanFrame(phys) PROVE desccount # 0 /\ allocs' = allocs
    BY <2>6 DEF CleanFrame, history
  <2>7. ASSUME NEW p \in Cleaners, cleanup_preamble(p) \/ cleanup_contended(p) PROVE desccount # 0 /\ allocs' = allocs
    BY <1>0, <2>7, ClientsAssumption DEF DownInv, cleanup_preamble, cleanup_contended, MayClean, Cleaners, history
  <2>8. CASE timer_after_free
    BY <2>3, <2>8 DEF timer_after_free, counters, cookies
  <2>9. ASSUME timer_nothing \/ timer_restart \/ timer_check \/ timer_update \/ reset_channel PROVE desccount # 0 /\ allocs' = allocs
    <3>1. desccount # 0
      BY <1>0, <2>9 DEF DownInv, timer_nothing, timer_restart, timer_check, timer_update, reset_channel, Overdue
    <3>2. allocs' = allocs
      BY <2>9 DEF timer_nothing, timer_restart, timer_check, timer_update, reset_channel, history
    <3>3. QED
      BY <3>1, <3>2
  <2>10. CASE tasklet_returns \/ Engine
    <3>1. UNCHANGED <<desccount, cookie, completed_cookie, state, allocs>>
      BY <2>10 DEF tasklet_returns, Engine, hw_execute, hw_reads_append, hw_halt, suspend_chan, resume_chan,
                   counters, cookies, watchdog, history
    <3>2. QED
      BY <2>3, <3>1
  <2>11. CASE UNCHANGED vars
    BY <2>3, <2>11 DEF vars, counters, cookies, watchdog, history
  <2>12. QED
    BY <2>1, <2>2, <2>4, <2>5, <2>6, <2>7, <2>8, <2>9, <2>10, <2>11, CleanCases DEF Next, Cleanup, Timer, AtRest
<1>2. \A c \in Clients : wait'[c] # 0 => pc'[c] # "idle"
  <2>1. CASE UNCHANGED <<pc, wait>>
    BY <1>0, <2>1 DEF LeftInv
  <2>2. ASSUME NEW b \in Clients, Client(b) PROVE \A c \in Clients : wait'[c] # 0 => pc'[c] # "idle"
    <3>1. CASE tx_submit(b) \/ \E n \in 1..MaxParts : prep_memcpy(b, n) \/ prep_memcpy_fails(b, n)
      BY <1>0, <1>t, <3>1 DEF LeftInv, tx_submit, prep_memcpy, prep_memcpy_fails
    <3>2. CASE issue_pending(b) \/ __issue_pending(b)
      BY <1>0, <1>t, <3>2 DEF LeftInv, issue_pending, __issue_pending
    <3>3. CASE wait_done(b) \/ wait_timeout(b)
      BY <1>0, <1>t, <3>3 DEF LeftInv, wait_done, wait_timeout
    <3>4. QED
      BY <2>2, <3>1, <3>2, <3>3 DEF Client
  <2>3. ASSUME NEW p \in Cleaners, Cleanup(p) PROVE UNCHANGED <<pc, wait>>
    BY <2>3 DEF Cleanup, cleanup_preamble, cleanup, cleanup_contended, clients
  <2>4. CASE alloc_chan_resources \/ free_chan_resources \/ tasklet_returns
    BY <2>1, <2>4 DEF alloc_chan_resources, free_chan_resources, tasklet_returns, clients
  <2>5. CASE Timer
    BY <2>1, <2>5 DEF Timer, timer_after_free, timer_nothing, timer_restart, timer_cleanup, timer_check, timer_update, reset_channel, clients
  <2>6. CASE Engine
    BY <2>1, <2>6 DEF Engine, hw_execute, hw_reads_append, hw_halt, suspend_chan, resume_chan, clients
  <2>7. CASE UNCHANGED vars
    BY <2>1, <2>7 DEF vars, clients
  <2>8. QED
    BY <2>1, <2>2, <2>3, <2>4, <2>5, <2>6, <2>7 DEF Next, AtRest
<1>3. ASSUME MaxAllocs > 1, desccount' = 0 PROVE completed_cookie' = cookie'
  <2>1. CASE free_chan_resources
    <3>1. cookie' = cookie
      BY <2>1 DEF free_chan_resources
    <3>2. QED
      BY <1>3, <1>t, <2>1, <3>1, FreeLeaves
  <2>2. CASE alloc_chan_resources
    BY <1>3, <2>2, DescAssumption DEF alloc_chan_resources, Desccount
  <2>3. ASSUME NEW c \in Clients, \/ tx_submit(c)
                                  \/ \E n \in 1..MaxParts : prep_memcpy(c, n) \/ prep_memcpy_fails(c, n)
        PROVE  FALSE
    <3>1. desccount # 0 /\ desccount' = desccount
      BY <1>0, <2>3 DEF DownInv, tx_submit, prep_memcpy, prep_memcpy_fails, counters
    <3>2. QED
      BY <1>3, <3>1
  <2>4. ASSUME NEW phys, NEW r, CleanFrame(phys) PROVE FALSE
    BY <1>3, <2>4 DEF CleanFrame
  <2>5. CASE Quiet
    BY <1>0, <1>3, <2>5 DEF Quiet, LeftInv, Up
  <2>6. QED
    BY <2>1, <2>2, <2>3, <2>4, <2>5, Kinds
<1>4. QED
  BY <1>1, <1>2, <1>3 DEF LeftInv, Up

\* This is CookiesInOrder.
LEMMA InOrderGives == TypeOK /\ (desccount # 0 => InOrder(Ck, completed_cookie, cookie)) => CookiesInOrder
BY InOrderIs

\* What holds of the cookies at the start ...
LEMMA CookieStart == Init => CookieInv
<1> SUFFICES ASSUME Init PROVE CookieInv
  OBVIOUS
<1>1. desccount = 0 /\ cookie = 0 /\ completed_cookie = 0 /\ state = {} /\ \A c \in Clients : wait[c] = 0
  BY DEF Init
<1>2. QED
  BY <1>1 DEF CookieInv, BareInv, LeftInv, CookiesInOrder, Up

\* ... and after every step.
LEMMA CookieStep == (MaxAllocs = 1 \/ WaitInv) /\ ListInv /\ CookieInv /\ [Next]_vars => CookieInv'
<1> SUFFICES ASSUME MaxAllocs = 1 \/ WaitInv, ListInv, CookieInv, [Next]_vars PROVE CookieInv'
  OBVIOUS
<1>1. TypeOK'
  BY TypeStep
<1>2. TypeOK' /\ (desccount' # 0 => InOrder(Ck', completed_cookie', cookie')) => CookiesInOrder'
  <2>1. (TypeOK /\ (desccount # 0 => InOrder(Ck, completed_cookie, cookie)) => CookiesInOrder)'
    BY InOrderGives, PTL
  <2>2. QED
    BY <2>1
<1>3. desccount' # 0 => InOrder(Ck', completed_cookie', cookie')
  BY <1>1, OrderStep
<1>4. CookiesInOrder'
  BY <1>1, <1>2, <1>3
<1>5. BareInv' /\ LeftInv'
  BY <1>1, BareStep, LeftStep DEF CookieInv
<1>6. QED
  BY <1>4, <1>5 DEF CookieInv

\* When the channel is set up once, or no client gives up waiting, the cookies agree with
\* the lists too: a cleanup (dma.c:__cleanup) completes every transaction once and in the
\* order in which tx_submit gave out the cookies.
THEOREM Sound ==
  ASSUME MaxAllocs = 1 \/ ~MayTimeOut
  PROVE  Spec => []ListsSound
<1> DEFINE I == ListInv /\ CookieInv /\ (MaxAllocs = 1 \/ WaitInv)
<1>1. Init => I
  <2>1. Init => WaitInv
    BY DEF Init, WaitInv
  <2>2. QED
    BY <2>1, ListStart, CookieStart
<1>2. I /\ [Next]_vars => I'
  <2> SUFFICES ASSUME I, [Next]_vars PROVE I'
    OBVIOUS
  <2>1. ListInv' /\ CookieInv'
    BY ListStep, CookieStep
  <2>2. CASE MaxAllocs = 1
    BY <2>1, <2>2
  <2>3. CASE MaxAllocs # 1
    <3>1. \A c \in Clients : ~wait_timeout(c)
      BY <2>3 DEF wait_timeout
    <3>2. WaitInv'
      BY <2>1, <2>3, <3>1, WaitStep DEF ListInv
    <3>3. QED
      BY <2>1, <3>2
  <2>4. QED
    BY <2>2, <2>3
<1>3. I => ListsSound
  BY InUse DEF ListInv, CookieInv, ListsSound
<1>4. QED
  BY <1>1, <1>2, <1>3, PTL DEF Spec

-----------------------------------------------------------------------------
(* The watchdog, when a channel starts without a stale PENDING bit.        *)

\* The watchdog stays armed.
LEMMA ArmedStep ==
  ListInv /\ ArmedInv /\ [Next]_vars /\ (alloc_chan_resources => "PENDING" \notin state) => ArmedInv'
<1> SUFFICES ASSUME ListInv, ArmedInv, [Next]_vars, alloc_chan_resources => "PENDING" \notin state, desccount' # 0
             PROVE  /\ "PENDING" \in state' => timer' \/ tpc' # "idle"
                    /\ (\E i \in DOMAIN used_desc' : desc'[used_desc'[i]].cookie # 0) => "PENDING" \in state'
  BY DEF ArmedInv, Up
<1> DEFINE Goal == /\ "PENDING" \in state' => timer' \/ tpc' # "idle"
                   /\ (\E i \in DOMAIN used_desc' : desc'[used_desc'[i]].cookie # 0) => "PENDING" \in state'
<1>0. TypeOK /\ OnOneList /\ LinksFollowList /\ DownInv /\ ChainInv /\ BoundInv /\ LockInv
  BY DEF ListInv
<1>a. desccount # 0 => /\ "PENDING" \in state => timer \/ tpc # "idle"
                       /\ (\E i \in DOMAIN used_desc : desc[used_desc[i]].cookie # 0) => "PENDING" \in state
  BY DEF ArmedInv, Up
<1>u. \A i \in DOMAIN used_desc : used_desc[i] \in Desc /\ used_desc[i] \in Elems(used_desc)
  BY <1>0, UsedType DEF Elems
\* A step that leaves the used list, and clears neither the bit nor the timer.
<1>s. ASSUME desccount # 0, used_desc' = used_desc, \A i \in DOMAIN used_desc : desc'[used_desc[i]].cookie = desc[used_desc[i]].cookie,
             "PENDING" \in state' <=> "PENDING" \in state,
             timer' \/ tpc' # "idle" \/ (timer' = timer /\ tpc' = tpc)
      PROVE  Goal
  BY <1>a, <1>s
<1>1. CASE alloc_chan_resources
  <2>1. state' = state /\ used_desc' = <<1>> /\ desc'[1].cookie = 0
    BY <1>1, DescAssumption DEF alloc_chan_resources, watchdog, Blank, Desc
  <2>2. \A i \in DOMAIN <<1>> : <<1>>[i] = 1
    OBVIOUS
  <2>3. QED
    BY <1>1, <2>1, <2>2
<1>2. CASE free_chan_resources
  BY <1>2 DEF free_chan_resources
<1>3. ASSUME NEW c \in Clients, NEW n \in 1..MaxParts, prep_memcpy(c, n) PROVE Goal
  <2>1. PICK ds : Prepares(c, n, ds)
    BY <1>0, <1>3, PrepFacts
  <2>2. desccount # 0 /\ UNCHANGED <<used_desc, state, timer, tpc>>
    BY <1>3 DEF prep_memcpy, watchdog
  <2>3. \A i \in DOMAIN used_desc : desc'[used_desc[i]] = desc[used_desc[i]]
    BY <1>u, <2>1 DEF Prepares
  <2> HIDE DEF Goal
  <2>4. QED
    BY <1>s, <2>2, <2>3
<1>4. ASSUME NEW c \in Clients, NEW n \in 1..MaxParts, prep_memcpy_fails(c, n) PROVE Goal
  <2>1. desccount # 0 /\ UNCHANGED <<used_desc, desc, state, timer, tpc>>
    BY <1>4 DEF prep_memcpy_fails, watchdog
  <2> HIDE DEF Goal
  <2>2. QED
    BY <1>s, <2>1
<1>5. ASSUME NEW c \in Clients, tx_submit(c) PROVE Goal
  <2>1. desccount # 0
    BY <1>0, <1>5 DEF DownInv, tx_submit
  <2>2. timer' = (timer \/ "PENDING" \notin state) /\ state' = state \union {"PENDING"} /\ tpc' = tpc
    BY <1>5 DEF tx_submit
  <2>3. QED
    BY <1>a, <2>1, <2>2
<1>6. ASSUME NEW phys, NEW r, Cleans(phys, r), CleanFrame(phys) PROVE Goal
  <2>1. desccount # 0 /\ tpc' = tpc /\ (timer' = timer \/ timer' = TRUE)
    BY <1>6 DEF CleanFrame
  <2>2. /\ r \in 1..Len(used_desc) /\ Len(used_desc) \in Nat /\ DOMAIN used_desc' = 1..(Len(used_desc) - r + 1)
        /\ \A i \in DOMAIN used_desc' : r - 1 + i \in DOMAIN used_desc /\ used_desc'[i] = used_desc[r - 1 + i]
        /\ \A i \in DOMAIN used_desc : desc'[used_desc[i]].cookie = IF i <= r THEN 0 ELSE desc[used_desc[i]].cookie
        /\ state' = state \ ({"ACK"} \union (IF r = Len(used_desc) THEN {"PENDING"} ELSE {}))
    BY <1>6 DEF Cleans
  <2>3. "PENDING" \in state' => "PENDING" \in state
    BY <2>2
  <2>4. ASSUME NEW i \in DOMAIN used_desc', desc'[used_desc'[i]].cookie # 0 PROVE "PENDING" \in state'
    <3>1. r - 1 + i \in DOMAIN used_desc /\ ~(r - 1 + i <= r) /\ desc[used_desc[r - 1 + i]].cookie # 0
      BY <2>2, <2>4
    <3>2. "PENDING" \in state
      BY <1>a, <2>1, <3>1
    <3>3. r # Len(used_desc)
      BY <2>2, <3>1
    <3>4. QED
      BY <2>2, <3>2, <3>3
  <2>5. QED
    BY <1>a, <2>1, <2>3, <2>4
<1>7. CASE Quiet
  <2> SUFFICES Goal
    OBVIOUS
  <2> HIDE DEF Goal
  <2>1. ASSUME desccount # 0, "PENDING" \in state' <=> "PENDING" \in state, timer' \/ tpc' # "idle" \/ (timer' = timer /\ tpc' = tpc)
        PROVE  Goal
    BY <1>s, <1>7, <2>1 DEF Quiet
  <2>2. desccount # 0
    BY <1>7 DEF Quiet
  <2>3. CASE UNCHANGED <<state, timer, tpc>>
    BY <2>1, <2>2, <2>3
  <2>4. ASSUME NEW c \in Clients, issue_pending(c) \/ __issue_pending(c) \/ wait_done(c) \/ wait_timeout(c) PROVE UNCHANGED <<state, timer, tpc>>
    BY <2>4 DEF issue_pending, __issue_pending, wait_done, wait_timeout, watchdog
  <2>5. ASSUME NEW p \in Cleaners, cleanup_preamble(p) PROVE Goal
    BY <2>1, <2>2, <2>5 DEF cleanup_preamble
  <2>6. ASSUME NEW p \in Cleaners, cleanup_contended(p) PROVE UNCHANGED <<state, timer, tpc>>
    BY <2>6 DEF cleanup_contended, watchdog
  <2>7. CASE timer_restart
    <3>1. timer' = TRUE /\ "PENDING" \in state'
      BY <2>7 DEF timer_restart
    <3>2. QED
      BY <3>1 DEF Goal
  <2>8. CASE timer_nothing
    <3>1. "PENDING" \notin state /\ state' = state
      BY <2>8 DEF timer_nothing
    <3>2. UNCHANGED <<used_desc, desc>>
      BY <1>7 DEF Quiet
    <3>3. QED
      BY <1>a, <2>2, <3>1, <3>2 DEF Goal
  <2>9. CASE timer_check
    <3>1. tpc' # "idle" /\ state' = state
      BY <2>9 DEF timer_check
    <3>2. QED
      BY <2>1, <2>2, <3>1
  <2>10. CASE timer_update \/ reset_channel
    <3>1. timer' = TRUE /\ ("PENDING" \in state' <=> "PENDING" \in state)
      BY <2>10 DEF timer_update, reset_channel
    <3>2. QED
      BY <2>1, <2>2, <3>1
  <2>11. CASE timer_after_free
    BY <2>2, <2>11 DEF timer_after_free
  <2>12. CASE tasklet_returns \/ Engine
    BY <2>3, <2>12 DEF tasklet_returns, Engine, hw_execute, hw_reads_append, hw_halt, suspend_chan, resume_chan, watchdog
  <2>13. CASE UNCHANGED vars
    BY <2>3, <2>13 DEF vars, watchdog
  <2>14. CASE alloc_chan_resources \/ free_chan_resources
    BY <1>1, <1>2, <2>14 DEF Goal
  <2>15. QED
    BY <2>14, <1>3, <1>4, <1>5, <1>6, <2>3, <2>4, <2>5, <2>6, <2>7, <2>8, <2>9, <2>10, <2>11, <2>12, <2>13, CleanCases
       DEF Next, Client, Cleanup, Timer, AtRest
<1>8. QED
  BY <1>1, <1>2, <1>3, <1>4, <1>5, <1>6, <1>7, Kinds

\* Where the watchdog is armed, every open transaction is watched.
LEMMA ArmedGives == ListInv /\ ArmedInv => WatchdogArmed
<1> SUFFICES ASSUME ListInv, ArmedInv PROVE WatchdogArmed
  OBVIOUS
<1>1. desccount = 0 => used_desc = <<>>
  BY DEF ListInv, DownInv
<1>2. desccount # 0 => WatchdogArmed
  BY DEF ArmedInv, WatchdogArmed, Up
<1>3. QED
  BY <1>1, <1>2 DEF WatchdogArmed

\* In a channel that is set up once the watchdog (dma.c:ioat1_timer_event) is armed or
\* running as long as a transaction is open, however the engine halts, is suspended, is
\* reset and restarted, and whoever gives up waiting.
THEOREM Armed ==
  ASSUME MaxAllocs = 1
  PROVE  Spec => []WatchdogArmed
<1> DEFINE I == ListInv /\ CookieInv /\ ArmedInv
<1>1. Init => I
  <2>1. Init => ArmedInv
    BY DEF Init, ArmedInv, Up
  <2>2. QED
    BY <2>1, ListStart, CookieStart
<1>2. I /\ [Next]_vars => I'
  <2> SUFFICES ASSUME I, [Next]_vars PROVE I'
    OBVIOUS
  <2>1. alloc_chan_resources => "PENDING" \notin state
    <3> SUFFICES ASSUME alloc_chan_resources PROVE "PENDING" \notin state
      OBVIOUS
    <3>1. allocs < 1 /\ allocs \in Nat
      BY DEF alloc_chan_resources, ListInv, TypeOK
    <3>2. allocs = 0
      BY <3>1
    <3>3. QED
      BY <3>2 DEF CookieInv, LeftInv
  <2>2. QED
    BY <2>1, ListStep, CookieStep, ArmedStep
<1>3. I => WatchdogArmed
  BY ArmedGives
<1>4. QED
  BY <1>1, <1>2, <1>3, PTL DEF Spec

-----------------------------------------------------------------------------
(* What holds when the engine neither stops nor is stopped.                *)

\* The end of the used list, and the links along it.
LEMMA EndFacts ==
  ASSUME ListInv, Up
  PROVE  /\ Len(used_desc) \in DOMAIN used_desc /\ Last(used_desc) = used_desc[Len(used_desc)]
         /\ Last(used_desc) \in Desc /\ Last(used_desc) # 0 /\ Last(used_desc) \in Elems(used_desc)
         /\ \A a : BeforeIn(used_desc, a, a) /\ a # 0 =>
              /\ a \in Desc /\ a \in Elems(used_desc)
              /\ desc[a].next = 0 => a = Last(used_desc)
              /\ desc[a].next # 0 => NextTo(used_desc, a, desc[a].next)
<1>0. TypeOK /\ LinksFollowList
  BY DEF ListInv
<1>1. /\ used_desc \in Seq(Desc) /\ Len(used_desc) \in Nat /\ DOMAIN used_desc = 1..Len(used_desc)
      /\ \A i \in DOMAIN used_desc : used_desc[i] \in Desc /\ used_desc[i] # 0
  BY <1>0, UsedType
<1>2. used_desc # <<>>
  BY <1>0 DEF LinksFollowList, Up
<1>3. Len(used_desc) # 0
  BY <1>1, <1>2, EmptySeq
<1>4. Len(used_desc) \in DOMAIN used_desc
  BY <1>1, <1>3
<1>5. \A i \in DOMAIN used_desc : desc[used_desc[i]].next = IF i = Len(used_desc) THEN 0 ELSE used_desc[i + 1]
  BY <1>0 DEF LinksFollowList, Up
<1>6. \A i \in DOMAIN used_desc : i # Len(used_desc) => i + 1 \in DOMAIN used_desc
  BY <1>1
<1>7. ASSUME NEW a, BeforeIn(used_desc, a, a), a # 0
      PROVE  /\ a \in Desc /\ a \in Elems(used_desc)
             /\ desc[a].next = 0 => a = Last(used_desc)
             /\ desc[a].next # 0 => NextTo(used_desc, a, desc[a].next)
  <2>1. PICK i \in DOMAIN used_desc : used_desc[i] = a
    BY <1>7 DEF BeforeIn
  <2>2. CASE i = Len(used_desc)
    BY <1>1, <1>5, <2>1, <2>2 DEF Last, Elems
  <2>3. CASE i # Len(used_desc)
    <3>1. i + 1 \in DOMAIN used_desc /\ desc[a].next = used_desc[i + 1]
      BY <1>5, <1>6, <2>1, <2>3
    <3>2. NextTo(used_desc, a, desc[a].next) /\ desc[a].next # 0
      BY <1>1, <2>1, <3>1 DEF NextTo
    <3>3. QED
      BY <1>1, <2>1, <3>2 DEF Elems
  <2>4. QED
    BY <2>2, <2>3
<1>8. QED
  BY <1>1, <1>4, <1>7 DEF Last, Elems

\* What the engine works on, and what it has fetched, is on the used list.
LEMMA EngineFacts ==
  ASSUME ListInv, Up, hw_state # "reset"
  PROVE  /\ hw_cur # 0 /\ BeforeIn(used_desc, hw_cur, hw_cur) /\ hw_cur \in Desc /\ hw_cur \in Elems(used_desc)
         /\ hw_next # 0 => BeforeIn(used_desc, hw_next, hw_next) /\ hw_next \in Desc /\ hw_next \in Elems(used_desc)
                           /\ NextTo(used_desc, hw_cur, hw_next)
<1>1. MarkInv /\ used_desc \in Seq(Desc) /\ Distinct(used_desc)
  BY OneListIs DEF ListInv, TypeOK, OneList
<1>2. hw_cur # 0 /\ BeforeIn(used_desc, hw_cur, hw_cur) /\ (hw_next # 0 => NextTo(used_desc, hw_cur, hw_next))
  BY <1>1 DEF MarkInv, Before
<1>3. hw_next # 0 => BeforeIn(used_desc, hw_next, hw_next)
  BY <1>1, <1>2, Order
<1>4. QED
  BY <1>2, <1>3, EndFacts

\* The timer finds the engine neither stopped nor stuck, and no client gives up.
LEMMA NeverStuck ==
  ASSUME Healthy, ListInv, CalmInv
  PROVE  /\ ~timer_check /\ ~timer_update /\ ~reset_channel /\ ~timer_restart
         /\ ~hw_halt /\ ~suspend_chan /\ ~resume_chan
         /\ \A c \in Clients : ~wait_timeout(c)
<1>1. DownInv
  BY DEF ListInv
<1>2. ~timer_update /\ ~reset_channel
  BY DEF CalmInv, timer_update, reset_channel
<1>3. ~timer_restart
  BY DEF CalmInv, timer_restart
<1>4. ~hw_halt /\ ~suspend_chan /\ ~resume_chan
  BY DEF CalmInv, Healthy, hw_halt, suspend_chan, resume_chan
<1>5. Up => ~Stopped
  BY DEF CalmInv, ReportInv, Stopped
<1>6. \A c \in Clients : ~wait_timeout(c)
  BY <1>1, <1>5 DEF Healthy, wait_timeout, DownInv, Up
<1>7. ASSUME timer_check PROVE FALSE
  <2>1. Overdue /\ completion = last_completion
    BY <1>7 DEF timer_check
  <2>2. Up /\ Expires /\ "PENDING" \in state
    BY <2>1 DEF Overdue, Up
  <2>3. /\ hw_state = "idle" /\ ~hw_append
        /\ pending <= 0 \/ \A c \in Clients : pc[c] \in {"idle", "waiting"}
    BY <1>5, <2>2 DEF Expires, Healthy
  <2>4. ~(pending > 0)
    <3>1. pending \in Int
      BY DEF ListInv, TypeOK
    <3>2. CASE pending <= 0
      BY <3>1, <3>2
    <3>3. CASE \A c \in Clients : pc[c] \in {"idle", "waiting"}
      BY <3>3 DEF CalmInv
    <3>4. QED
      BY <2>3, <3>2, <3>3
  <2>5. completion = Last(used_desc)
    BY <2>2, <2>3, <2>4 DEF CalmInv, ReportInv
  <2>6. QED
    BY <2>1, <2>2, <2>5 DEF CalmInv, ReportInv
<1>8. QED
  BY <1>2, <1>3, <1>4, <1>6, <1>7

\* The end of the chain stays reported.
LEMMA ReportStep ==
  ASSUME Healthy, ListInv, CalmInv, [Next]_vars, desccount' # 0
  PROVE  ReportInv'
<1>0. TypeOK /\ OnOneList /\ LinksFollowList /\ DownInv /\ ChainInv /\ BoundInv /\ LockInv /\ MarkInv /\ ReportInv
  BY DEF ListInv, CalmInv
<1>u. \A i \in DOMAIN used_desc : used_desc[i] \in Desc /\ used_desc[i] \in Elems(used_desc)
  BY <1>0, UsedType DEF Elems
<1>1. CASE alloc_chan_resources
  <2>1. /\ used_desc' = <<1>> /\ desc'[1].compl_write /\ hw_cur' = 1 /\ hw_next' = 0 /\ hw_state' = "run"
        /\ last_completion' = 0 /\ state' = state /\ "PENDING" \notin state
    <3>1. 1 \in Desc
      BY DescAssumption DEF Desc
    <3>2. desc'[1] = [Blank EXCEPT !.compl_write = TRUE]
      BY <1>1, <3>1 DEF alloc_chan_resources
    <3>3. desc'[1].compl_write = TRUE
      BY <3>2 DEF Blank
    <3>4. QED
      BY <1>0, <1>1, <3>3 DEF alloc_chan_resources, Start, DownInv, watchdog, CalmInv, Up
  <2>2. Last(<<1>>) = 1
    BY DEF Last
  <2>3. QED
    BY <2>1, <2>2 DEF ReportInv
<1>2. CASE free_chan_resources
  BY <1>2 DEF free_chan_resources
\* A step that leaves the used list and the engine alone, and sets no bit.
<1>s. ASSUME Up, used_desc' = used_desc, \A d \in Elems(used_desc) : desc'[d] = desc[d], state' \subseteq state,
             UNCHANGED <<hw_state, hw_cur, hw_next, hw_append, pending, completion, last_completion>>
      PROVE  ReportInv'
  <2>1. hw_state # "reset"
    BY <1>0, <1>s DEF ReportInv
  <2>2. desc'[hw_cur] = desc[hw_cur] /\ desc'[Last(used_desc)] = desc[Last(used_desc)]
    BY <1>s, <2>1, EndFacts, EngineFacts
  <2> HIDE DEF Last
  <2>3. Last(used_desc)' = Last(used_desc)
    BY <1>s DEF Last
  <2>4. QED
    BY <1>0, <1>s, <2>2, <2>3 DEF ReportInv
<1>3. ASSUME NEW c \in Clients, NEW n \in 1..MaxParts, prep_memcpy(c, n) PROVE ReportInv'
  <2>1. PICK ds : Prepares(c, n, ds)
    BY <1>0, <1>3, PrepFacts
  <2>2. /\ Up /\ used_desc' = used_desc /\ state' = state
        /\ UNCHANGED <<hw_state, hw_cur, hw_next, hw_append, pending, completion, last_completion>>
    BY <1>3 DEF prep_memcpy, Up, watchdog, hw, counters, marks
  <2>3. \A d \in Elems(used_desc) : d \in Desc
    BY <1>u DEF Elems
  <2>4. \A d \in Elems(used_desc) : desc'[d] = desc[d]
    BY <2>1, <2>3 DEF Prepares
  <2>5. QED
    BY <1>s, <2>2, <2>4
<1>4. ASSUME NEW c \in Clients, NEW n \in 1..MaxParts, prep_memcpy_fails(c, n) PROVE ReportInv'
  <2>1. /\ Up /\ used_desc' = used_desc /\ state' = state /\ desc' = desc
        /\ UNCHANGED <<hw_state, hw_cur, hw_next, hw_append, pending, completion, last_completion>>
    BY <1>4 DEF prep_memcpy_fails, Up, watchdog, hw, counters, marks
  <2>2. QED
    BY <1>s, <2>1
<1>5. ASSUME NEW c \in Clients, tx_submit(c) PROVE ReportInv'
  <2>1. PICK ds, n, m : Appends(c, ds, n, m)
    BY <1>0, <1>5, SubmitFacts
  <2>2. /\ Up /\ n \in 1..MaxParts /\ m \in Nat \ {0} /\ Len(used_desc') = m + n /\ n \in 1..n
        /\ used_desc'[m + n] = ds[n] /\ ds[n] \in Elems(ds) /\ Elems(used_desc) \intersect Elems(ds) = {}
        /\ desc'[ds[n]].cookie = cookie + 1 /\ desc'[ds[n]].compl_write = desc[ds[n]].compl_write
        /\ ds = chain[c] /\ n = Len(ds) /\ DOMAIN ds = 1..n /\ cookie + 1 # 0
        /\ \A d \in Desc : d \notin Elems(ds) => desc'[d].compl_write = desc[d].compl_write
    <3>1. n \in 1..n
      BY <2>1, BoundsAssumption DEF Appends
    <3>2. cookie + 1 # 0
      BY <2>1 DEF Appends
    <3>3. QED
      BY <2>1, <3>1, <3>2 DEF Appends, Up
  <2>3. pc[c] = "prepared" /\ desc[ds[n]].compl_write
    BY <1>0, <1>5, <2>2 DEF tx_submit, ChainInv
  <2>4. UNCHANGED <<hw_state, hw_cur, hw_next, completion, last_completion>>
    BY <1>5 DEF tx_submit, AppendCommand, hw, marks
  <2>5. hw_append' \/ pending' > 0
    <3>1. pending \in Int /\ pending >= 0 /\ n \in Nat \ {0}
      BY <1>0, <2>2, BoundsAssumption, SMTT(30) DEF TypeOK, CalmInv
    <3>2. hw_state \in {"run", "idle"}
      BY <1>0, <2>2 DEF ReportInv
    <3>3. CASE pending + n >= PendingLevel
      BY <1>5, <2>2, <3>2, <3>3 DEF tx_submit, AppendCommand
    <3>4. CASE ~(pending + n >= PendingLevel)
      <4>1. pending' = pending + n
        BY <1>5, <2>2, <3>4 DEF tx_submit
      <4>2. QED
        BY <3>1, <4>1
    <3>5. QED
      BY <3>3, <3>4
  <2>6. hw_cur \in Desc /\ hw_cur \in Elems(used_desc)
    BY <1>0, <2>2, EngineFacts DEF ReportInv
  <2>7. Last(used_desc)' = ds[n]
    BY <2>2 DEF Last
  <2>8. last_completion # ds[n]
    <3>1. last_completion = 0 \/ last_completion \in Elems(used_desc)
      BY <1>0, <2>2 DEF MarkInv, Before, BeforeIn, Elems
    <3>2. ds[n] # 0
      BY <2>1, <2>2, DescAssumption DEF Appends, Desc
    <3>3. QED
      BY <2>2, <3>1, <3>2
  <2> HIDE DEF Last
  <2>9. QED
    BY <1>0, <2>2, <2>3, <2>4, <2>5, <2>6, <2>7, <2>8 DEF ReportInv
<1>6. ASSUME NEW phys, NEW r, Cleans(phys, r), CleanFrame(phys) PROVE ReportInv'
  <2>1. Up /\ UNCHANGED <<hw_state, hw_cur, hw_next, hw_append, pending, completion>>
    BY <1>6 DEF CleanFrame, hw, Up
  <2>2. /\ r \in 1..Len(used_desc) /\ Len(used_desc) \in Nat /\ Len(used_desc') = Len(used_desc) - r + 1
        /\ DOMAIN used_desc = 1..Len(used_desc)
        /\ DOMAIN used_desc' = 1..(Len(used_desc) - r + 1) /\ used_desc[r] = phys /\ last_completion' = phys
        /\ \A i \in DOMAIN used_desc' : used_desc'[i] = used_desc[r - 1 + i]
        /\ \A d \in Desc : desc'[d].compl_write = desc[d].compl_write
        /\ \A i \in DOMAIN used_desc : desc'[used_desc[i]].cookie = IF i <= r THEN 0 ELSE desc[used_desc[i]].cookie
        /\ state' = state \ ({"ACK"} \union (IF r = Len(used_desc) THEN {"PENDING"} ELSE {}))
    BY <1>6 DEF Cleans
  <2>3. Last(used_desc)' = Last(used_desc)
    <3>1. Len(used_desc') \in DOMAIN used_desc' /\ r - 1 + Len(used_desc') = Len(used_desc)
      BY <2>2
    <3>2. used_desc'[Len(used_desc')] = used_desc[r - 1 + Len(used_desc')]
      BY <2>2, <3>1
    <3>3. QED
      BY <3>1, <3>2 DEF Last
  <2>4. /\ Len(used_desc) \in DOMAIN used_desc /\ Last(used_desc) = used_desc[Len(used_desc)] /\ Last(used_desc) \in Desc
        /\ hw_cur \in Desc
    BY <1>0, <2>1, EndFacts, EngineFacts DEF ReportInv
  <2>5. last_completion' = Last(used_desc) => "PENDING" \notin state'
    <3>1. used_desc[r] = used_desc[Len(used_desc)] => r = Len(used_desc)
      BY <1>0, <2>2, <2>4, OneListIs DEF OneList, Distinct
    <3>2. QED
      BY <2>2, <2>4, <3>1
  <2>6. "PENDING" \in state' => desc'[Last(used_desc)].cookie # 0
    <3> SUFFICES ASSUME "PENDING" \in state' PROVE desc'[Last(used_desc)].cookie # 0
      OBVIOUS
    <3>1. r # Len(used_desc) /\ "PENDING" \in state
      BY <2>2
    <3>2. ~(Len(used_desc) <= r)
      <4>1. r \in 1..Len(used_desc) /\ Len(used_desc) \in Nat
        BY <2>2
      <4>2. QED
        BY ONLY <3>1, <4>1
    <3>3. desc[Last(used_desc)].cookie # 0
      BY <1>0, <2>1, <3>1 DEF ReportInv
    <3>4. QED
      BY <2>2, <2>4, <3>2, <3>3
  <2> HIDE DEF Last
  <2>7. QED
    BY <1>0, <2>1, <2>2, <2>3, <2>4, <2>5, <2>6 DEF ReportInv
<1>7. CASE hw_execute
  <2>1. /\ UNCHANGED <<used_desc, desc, state, hw_append, pending, last_completion>> /\ hw_state = "run"
        /\ completion' = IF desc[hw_cur].compl_write THEN hw_cur ELSE completion
        /\ \/ hw_next = 0 /\ hw_state' = "idle" /\ hw_cur' = hw_cur /\ hw_next' = hw_next
           \/ hw_next # 0 /\ hw_cur' = hw_next /\ hw_next' = desc[hw_next].next /\ hw_state' = hw_state
    BY <1>7 DEF hw_execute, lists, counters, watchdog
  <2>2. Up
    BY <1>0, <2>1 DEF DownInv, Up
  <2>3. hw_next # 0 => BeforeIn(used_desc, hw_next, hw_next)
    BY <2>1, <2>2, EngineFacts
  <2>4. hw_next # 0 /\ desc[hw_next].next = 0 => hw_next = Last(used_desc)
    BY <2>2, <2>3, EndFacts
  <2> HIDE DEF Last
  <2>5. Last(used_desc)' = Last(used_desc)
    BY <2>1 DEF Last
  <2>6. CASE hw_next = 0
    BY <1>0, <2>1, <2>2, <2>5, <2>6 DEF ReportInv
  <2>7. CASE hw_next # 0
    BY <1>0, <2>1, <2>2, <2>4, <2>5, <2>7 DEF ReportInv
  <2>8. QED
    BY <2>6, <2>7
<1>8. CASE hw_reads_append
  <2>1. /\ UNCHANGED <<used_desc, desc, state, pending, last_completion, completion>> /\ hw_state = "idle" /\ ~hw_append'
        /\ \/ desc[hw_cur].next = 0 /\ UNCHANGED <<hw_state, hw_cur, hw_next>>
           \/ desc[hw_cur].next # 0 /\ hw_state' = "run" /\ hw_cur' = desc[hw_cur].next /\ hw_next' = desc[desc[hw_cur].next].next
    BY <1>8 DEF hw_reads_append, lists, counters, watchdog, marks
  <2>2. Up
    BY <1>0, <2>1 DEF DownInv, Up
  <2>3. hw_cur # 0 /\ BeforeIn(used_desc, hw_cur, hw_cur)
    BY <2>1, <2>2, EngineFacts
  <2>4. desc[hw_cur].next = 0 => hw_cur = Last(used_desc)
    BY <2>2, <2>3, EndFacts
  <2>5. desc[hw_cur].next # 0 => NextTo(used_desc, hw_cur, desc[hw_cur].next)
    BY <2>2, <2>3, EndFacts
  <2>6. used_desc \in Seq(Desc) /\ Distinct(used_desc)
    BY <1>0, OneListIs DEF TypeOK, OneList
  <2>7. desc[hw_cur].next # 0 => BeforeIn(used_desc, desc[hw_cur].next, desc[hw_cur].next)
    BY <2>5, <2>6, Order
  <2>8. desc[hw_cur].next # 0 /\ desc[desc[hw_cur].next].next = 0 => desc[hw_cur].next = Last(used_desc)
    BY <2>2, <2>7, EndFacts
  <2> HIDE DEF Last
  <2>9. Last(used_desc)' = Last(used_desc)
    BY <2>1 DEF Last
  <2>10. CASE desc[hw_cur].next = 0
    BY <1>0, <2>1, <2>2, <2>4, <2>9, <2>10 DEF ReportInv
  <2>11. CASE desc[hw_cur].next # 0
    BY <1>0, <2>1, <2>2, <2>8, <2>9, <2>11 DEF ReportInv
  <2>12. QED
    BY <2>10, <2>11
<1>9. ASSUME NEW c \in Clients, __issue_pending(c) PROVE ReportInv'
  <2>1. /\ UNCHANGED <<used_desc, desc, state, completion, last_completion, hw_state, hw_cur, hw_next>>
        /\ hw_append' = (hw_append \/ hw_state \in {"run", "idle"})
    BY <1>9 DEF __issue_pending, AppendCommand, lists, watchdog, marks
  <2>2. Up
    BY <1>0, <1>9 DEF __issue_pending, DownInv, Up
  <2>3. hw_append'
    BY <1>0, <2>1, <2>2 DEF ReportInv
  <2> HIDE DEF Last
  <2>4. Last(used_desc)' = Last(used_desc)
    BY <2>1 DEF Last
  <2>5. QED
    BY <1>0, <2>1, <2>2, <2>3, <2>4 DEF ReportInv
<1>n. Up => ReportInv' \/ ~(used_desc' = used_desc /\ desc' = desc /\ state' \subseteq state
                         /\ UNCHANGED <<hw_state, hw_cur, hw_next, hw_append, pending, completion, last_completion>>)
  BY <1>s
<1>10. ASSUME NEW c \in Clients, issue_pending(c) \/ wait_done(c) PROVE ReportInv'
  <2>1. Up
    BY <1>0, <1>10 DEF issue_pending, wait_done, DownInv, Up
  <2>2. QED
    BY <1>n, <1>10, <2>1 DEF issue_pending, wait_done, lists, watchdog, hw, counters, marks
<1>11. ASSUME NEW p \in Cleaners, cleanup_preamble(p) \/ cleanup_contended(p) PROVE ReportInv'
  <2>1. Up
    BY <1>0, <1>11, ClientsAssumption DEF DownInv, cleanup_preamble, cleanup_contended, MayClean, Cleaners, Up
  <2>2. QED
    BY <1>n, <1>11, <2>1 DEF cleanup_preamble, cleanup_contended, lists, watchdog, hw, counters, marks
<1>12. CASE tasklet_returns \/ timer_nothing \/ UNCHANGED vars
  <2>1. Up
    BY <1>12 DEF tasklet_returns, MayClean, timer_nothing, vars, counters, Up
  <2>2. QED
    BY <1>n, <1>12, <2>1 DEF tasklet_returns, timer_nothing, vars, lists, watchdog, hw, counters, marks
<1>13. CASE timer_after_free
  BY <1>13 DEF timer_after_free, counters
<1>14. QED
  BY <1>1, <1>2, <1>3, <1>4, <1>5, <1>6, <1>7, <1>8, <1>9, <1>10, <1>11, <1>12, <1>13, NeverStuck, CleanCases
     DEF Next, Client, Cleanup, Timer, Engine, AtRest

\* The engine stays calm.
LEMMA CalmStep == Healthy /\ ListInv /\ CookieInv /\ WaitInv /\ CalmInv /\ [Next]_vars => CalmInv'
<1> SUFFICES ASSUME Healthy, ListInv, CookieInv, WaitInv, CalmInv, [Next]_vars PROVE CalmInv'
  OBVIOUS
<1>0. TypeOK /\ OnOneList /\ LinksFollowList /\ DownInv /\ ChainInv /\ BoundInv /\ LockInv /\ MarkInv /\ LeftInv
  BY DEF ListInv, CookieInv
<1>t. /\ pc \in [Clients -> {"idle", "prepared", "submitted", "retry", "issue_wait", "issue_retry", "waiting"}]
      /\ pending \in Int /\ cookie \in Nat /\ completed_cookie \in Nat
      /\ desccount # 0 => InOrder(Ck, completed_cookie, cookie)
  BY <1>0, CookieFacts DEF TypeOK
<1>c. ~suspended /\ tpc = "idle" /\ "RESET" \notin state /\ pending >= 0 /\ ~fault
  BY DEF CalmInv
<1>n. /\ ~timer_check /\ ~timer_update /\ ~reset_channel /\ ~timer_restart
      /\ ~hw_halt /\ ~suspend_chan /\ ~resume_chan
      /\ \A c \in Clients : ~wait_timeout(c)
  BY NeverStuck
<1>f. ASSUME free_chan_resources PROVE "PENDING" \notin state
  <2>1. completed_cookie = cookie /\ Up
    BY <1>f, FreeLeaves DEF free_chan_resources, Up
  <2>2. /\ Len(used_desc) \in DOMAIN used_desc /\ Last(used_desc) = used_desc[Len(used_desc)]
    BY <2>1, EndFacts
  <2>3. Ck[Len(used_desc)] = 0
    <3>1. \A k : k \notin (completed_cookie + 1)..cookie
      BY <1>t, <2>1
    <3>2. DOMAIN Ck = DOMAIN used_desc
      BY DEF Ck
    <3>3. QED
      BY <1>t, <2>1, <2>2, <3>1, <3>2 DEF InOrder, Up
  <2>4. desc[Last(used_desc)].cookie = 0
    BY <2>2, <2>3 DEF Ck
  <2>5. QED
    BY <2>1, <2>4 DEF CalmInv, ReportInv
<1>1. ~suspended' /\ tpc' = "idle"
  <2>1. CASE alloc_chan_resources \/ free_chan_resources
    BY <1>c, <2>1 DEF alloc_chan_resources, free_chan_resources, Start, Reset, watchdog
  <2>2. ASSUME NEW c \in Clients, Client(c) PROVE UNCHANGED <<suspended, tpc>>
    BY <2>2 DEF Client, prep_memcpy, prep_memcpy_fails, tx_submit, issue_pending, __issue_pending, wait_done, wait_timeout,
                AppendCommand, hw, watchdog
  <2>3. ASSUME NEW p \in Cleaners, Cleanup(p) PROVE UNCHANGED <<suspended, tpc>>
    BY <2>3 DEF Cleanup, cleanup_preamble, cleanup, cleanup_contended, hw, watchdog
  <2>4. ASSUME Timer PROVE UNCHANGED <<suspended, tpc>>
    BY <1>n, <2>4 DEF Timer, timer_after_free, timer_nothing, timer_cleanup, hw
  <2>5. ASSUME Engine \/ tasklet_returns PROVE UNCHANGED <<suspended, tpc>>
    BY <1>n, <2>5 DEF Engine, tasklet_returns, hw_execute, hw_reads_append, hw, watchdog
  <2>6. ASSUME UNCHANGED vars PROVE UNCHANGED <<suspended, tpc>>
    BY <2>6 DEF vars, hw, watchdog
  <2>7. QED
    BY <1>c, <2>1, <2>2, <2>3, <2>4, <2>5, <2>6 DEF Next, AtRest
\* Which steps set a bit, and which clear it.
<1>2. /\ "RESET" \notin state' /\ ~fault'
      /\ state' \subseteq state \/ \E c \in Clients : tx_submit(c)
  <2>1. CASE alloc_chan_resources
    BY <1>c, <2>1 DEF alloc_chan_resources, watchdog
  <2>2. CASE free_chan_resources
    <3>1. state' \subseteq state
      BY <2>2 DEF free_chan_resources, StateAfter
    <3>2. fault' = fault
      BY <2>2 DEF free_chan_resources, history
    <3>3. QED
      BY <1>c, <3>1, <3>2
  <2>3. ASSUME NEW c \in Clients, tx_submit(c) PROVE "RESET" \notin state' /\ fault' = fault
    BY <1>c, <2>3 DEF tx_submit
  <2>4. ASSUME NEW c \in Clients, Client(c), ~tx_submit(c) PROVE UNCHANGED <<state, fault>>
    BY <2>4 DEF Client, prep_memcpy, prep_memcpy_fails, issue_pending, __issue_pending, wait_done, wait_timeout, watchdog, history
  <2>5. ASSUME NEW phys, NEW r, Cleans(phys, r), CleanFrame(phys) PROVE state' \subseteq state /\ fault' = fault
    BY <2>5 DEF Cleans, CleanFrame, history
  <2>6. ASSUME NEW p \in Cleaners, cleanup_preamble(p) \/ cleanup_contended(p) PROVE state' \subseteq state /\ fault' = fault
    BY <2>6 DEF cleanup_preamble, cleanup_contended, watchdog, history
  <2>7. CASE timer_after_free
    <3>1. desccount = 0 /\ state' = state /\ fault' = (fault \/ state \intersect {"RESET", "PENDING"} # {})
      BY <2>7 DEF timer_after_free
    <3>2. state \intersect {"RESET", "PENDING"} = {}
      BY <3>1 DEF CalmInv, Up
    <3>3. QED
      BY <1>c, <3>1, <3>2
  <2>8. CASE timer_nothing \/ tasklet_returns \/ hw_execute \/ hw_reads_append \/ UNCHANGED vars
    <3>1. UNCHANGED <<state, fault>>
      BY <2>8 DEF timer_nothing, tasklet_returns, hw_execute, hw_reads_append, vars, watchdog, history
    <3>2. QED
      BY <1>c, <3>1
  <2>9. QED
    BY <1>c, <1>n, <2>1, <2>2, <2>3, <2>4, <2>5, <2>6, <2>7, <2>8, CleanCases DEF Next, Cleanup, Timer, Engine, AtRest
<1>3. ~Up' => "PENDING" \notin state'
  <2> SUFFICES ASSUME desccount' = 0 PROVE "PENDING" \notin state'
    BY DEF Up
  <2>1. ASSUME NEW c \in Clients, tx_submit(c) PROVE FALSE
    <3>1. desccount # 0 /\ desccount' = desccount
      BY <1>0, <2>1 DEF DownInv, tx_submit
    <3>2. QED
      BY <3>1
  <2>2. state' \subseteq state
    BY <1>2, <2>1
  <2>3. CASE desccount = 0
    BY <2>2, <2>3 DEF CalmInv, Up
  <2>4. CASE free_chan_resources
    BY <1>f, <2>2, <2>4
  <2>5. CASE desccount # 0 /\ ~free_chan_resources
    <3>1. desccount' = desccount
      <4>1. ASSUME NEW c \in Clients, NEW n \in 1..MaxParts, prep_memcpy(c, n) \/ prep_memcpy_fails(c, n) PROVE desccount' = desccount
        BY <4>1 DEF prep_memcpy, prep_memcpy_fails, counters
      <4>2. ~alloc_chan_resources
        BY <2>5 DEF alloc_chan_resources
      <4>3. ASSUME NEW phys, CleanFrame(phys) PROVE desccount' = desccount
        BY <4>3 DEF CleanFrame
      <4>4. QED
        BY <2>1, <2>5, <4>1, <4>2, <4>3, Kinds DEF Quiet
    <3>2. QED
      BY <2>5, <3>1
  <2>6. QED
    BY <2>3, <2>4, <2>5
<1>4. pending' >= 0 /\ (pending' > 0 => \E c \in Clients : pc'[c] \notin {"idle", "waiting"})
  <2>0. pending > 0 => \E c \in Clients : pc[c] \notin {"idle", "waiting"}
    BY DEF CalmInv
  <2>1. CASE UNCHANGED <<pending, pc>>
    BY <1>c, <2>0, <2>1
  <2>2. ASSUME NEW c \in Clients, tx_submit(c)
        PROVE  pending' >= 0 /\ (pending' > 0 => \E b \in Clients : pc'[b] \notin {"idle", "waiting"})
    <3>1. pc'[c] = "submitted"
      BY <1>t, <2>2 DEF tx_submit
    <3>2. Len(chain[c]) \in Nat
      BY <1>0, LenProperties DEF TypeOK
    <3>3. pending' = 0 \/ pending' = pending + Len(chain[c])
      BY <2>2 DEF tx_submit
    <3>4. pending' >= 0
      BY <1>c, <1>t, <3>2, <3>3
    <3>5. QED
      BY <3>1, <3>4
  <2>3. ASSUME NEW c \in Clients, NEW n \in 1..MaxParts, prep_memcpy(c, n) \/ prep_memcpy_fails(c, n)
        PROVE  pending' >= 0 /\ \E b \in Clients : pc'[b] \notin {"idle", "waiting"}
    <3>1. pending' = pending /\ pc'[c] \in {"prepared", "retry"}
      BY <1>t, <2>3 DEF prep_memcpy, prep_memcpy_fails, counters
    <3>2. QED
      BY <1>c, <3>1
  <2>4. ASSUME NEW c \in Clients, issue_pending(c)
        PROVE  pending' >= 0 /\ (pending' > 0 => \E b \in Clients : pc'[b] \notin {"idle", "waiting"})
    <3>1. pending' = pending /\ (pending > 0 => pc'[c] \in {"issue_retry", "issue_wait"})
      BY <1>t, <2>4 DEF issue_pending, counters
    <3>2. QED
      BY <1>c, <3>1
  <2>5. ASSUME NEW c \in Clients, __issue_pending(c) PROVE pending' = 0
    BY <2>5 DEF __issue_pending
  <2>6. ASSUME NEW c \in Clients, wait_done(c)
        PROVE  pending' >= 0 /\ (pending' > 0 => \E b \in Clients : pc'[b] \notin {"idle", "waiting"})
    <3>1. pending' = pending /\ pc[c] = "waiting" /\ \A b \in Clients : b # c => pc'[b] = pc[b]
      BY <1>t, <2>6 DEF wait_done, counters
    <3>2. QED
      BY <1>c, <2>0, <3>1
  <2>7. CASE free_chan_resources
    BY <2>7 DEF free_chan_resources
  <2>8. ASSUME NEW p \in Cleaners, Cleanup(p) PROVE UNCHANGED <<pending, pc>>
    BY <2>8 DEF Cleanup, cleanup_preamble, cleanup, cleanup_contended, counters, clients
  <2>9. ASSUME alloc_chan_resources \/ tasklet_returns \/ timer_after_free \/ timer_nothing \/ timer_cleanup PROVE UNCHANGED <<pending, pc>>
    BY <2>9 DEF alloc_chan_resources, tasklet_returns, timer_after_free, timer_nothing, timer_cleanup, counters, clients
  <2>10. ASSUME hw_execute \/ hw_reads_append \/ UNCHANGED vars PROVE UNCHANGED <<pending, pc>>
    BY <2>10 DEF hw_execute, hw_reads_append, vars, counters, clients
  <2>11. QED
    BY <1>n, <2>1, <2>2, <2>3, <2>4, <2>5, <2>6, <2>7, <2>8, <2>9, <2>10 DEF Next, Client, Timer, Engine, AtRest
<1>5. ReportInv'
  <2>1. desccount' # 0 => ReportInv'
    BY ReportStep
  <2>2. desccount' = 0 => ReportInv'
    BY DEF ReportInv, Up
  <2>3. QED
    BY <2>1, <2>2
<1>6. QED
  BY <1>1, <1>2, <1>3, <1>4, <1>5 DEF CalmInv

\* The invariant of a channel whose engine is healthy.
SteadyInv == ListInv /\ CookieInv /\ WaitInv /\ ArmedInv /\ CalmInv

LEMMA SteadyStart == Init => SteadyInv
<1> SUFFICES ASSUME Init PROVE SteadyInv
  OBVIOUS
<1>1. desccount = 0 /\ cookie = 0 /\ completed_cookie = 0 /\ state = {} /\ pending = 0 /\ tpc = "idle" /\ ~suspended /\ ~fault
  BY DEF Init
<1>2. WaitInv /\ ArmedInv
  BY <1>1 DEF WaitInv, ArmedInv, Up
<1>3. CalmInv
  BY <1>1 DEF CalmInv, ReportInv, Up
<1>4. QED
  BY <1>2, <1>3, ListStart, CookieStart DEF SteadyInv

LEMMA SteadyStep == Healthy /\ SteadyInv /\ [Next]_vars => SteadyInv'
<1> SUFFICES ASSUME Healthy, SteadyInv, [Next]_vars PROVE SteadyInv'
  OBVIOUS
<1>1. ListInv /\ CookieInv /\ WaitInv /\ ArmedInv /\ CalmInv
  BY DEF SteadyInv
<1>2. ListInv'
  BY <1>1, ListStep
<1>3. CookieInv'
  BY <1>1, CookieStep
<1>4. WaitInv'
  <2>1. \A c \in Clients : ~wait_timeout(c)
    BY <1>1, NeverStuck
  <2>2. QED
    BY <1>1, <2>1, TypeStep, WaitStep
<1>5. ArmedInv'
  <2>1. alloc_chan_resources => "PENDING" \notin state
    BY <1>1 DEF alloc_chan_resources, CalmInv, Up
  <2>2. QED
    BY <1>1, <2>1, ArmedStep
<1>6. CalmInv'
  BY <1>1, CalmStep
<1>7. QED
  BY <1>2, <1>3, <1>4, <1>5, <1>6 DEF SteadyInv

\* With an engine that neither halts nor is suspended, and a timer that outlasts it, the
\* lists and cookies agree, the watchdog is armed while a transaction is open, and the timer
\* never finds work on a channel that free_chan_resources (dma.c:ioat1_dma_free_chan_resources)
\* has taken down, however often the channel is set up again.
THEOREM Steady ==
  ASSUME Healthy
  PROVE  Spec => [](ListsSound /\ WatchdogArmed /\ TimerQuietAfterFree)
<1>1. SteadyInv => ListsSound /\ WatchdogArmed /\ TimerQuietAfterFree
  BY InUse, ArmedGives DEF SteadyInv, ListInv, CookieInv, CalmInv, ListsSound, TimerQuietAfterFree
<1>2. SteadyInv /\ [Next]_vars => SteadyInv'
  BY SteadyStep
<1>3. QED
  BY <1>1, <1>2, SteadyStart, PTL DEF Spec

-----------------------------------------------------------------------------
(* What the engine has copied.                                             *)

\* More about the order of a list: what is on it, its first element, and neighbours.
LEMMA Neighbours ==
  ASSUME NEW u \in Seq(Desc), Distinct(u)
  PROVE  /\ \A a, b : BeforeIn(u, a, b) /\ a # 0 => {a, b} \subseteq Elems(u) /\ {a, b} \subseteq Desc
         /\ \A a : BeforeIn(u, a, u[1]) => a = 0 \/ a = u[1]
         /\ \A a : BeforeIn(u, a, 0) => a = 0
         /\ \A a, b, c : NextTo(u, a, b) /\ BeforeIn(u, c, b) => c = b \/ BeforeIn(u, c, a)
<1>1. Len(u) \in Nat /\ DOMAIN u = 1..Len(u) /\ \A i \in DOMAIN u : u[i] \in Desc /\ u[i] # 0
  <2>1. Len(u) \in Nat /\ DOMAIN u = 1..Len(u) /\ \A i \in DOMAIN u : u[i] \in Desc
    BY ElementOfSeq, LenProperties
  <2>2. \A d \in Desc : d # 0
    BY DescAssumption DEF Desc
  <2>3. QED
    BY <2>1, <2>2
<1>2. \A a, b : BeforeIn(u, a, b) /\ a # 0 => {a, b} \subseteq Elems(u) /\ {a, b} \subseteq Desc
  BY <1>1 DEF BeforeIn, Elems
<1>3. \A a : BeforeIn(u, a, 0) => a = 0
  BY <1>1 DEF BeforeIn
<1>4. ASSUME NEW a, BeforeIn(u, a, u[1]), a # 0 PROVE a = u[1]
  <2>1. PICK i, j \in DOMAIN u : i <= j /\ u[i] = a /\ u[j] = u[1]
    BY <1>4 DEF BeforeIn
  <2>2. 1 \in DOMAIN u
    BY <1>1, <2>1
  <2>3. j = 1
    BY <2>1, <2>2 DEF Distinct
  <2>4. i = 1
    BY <1>1, <2>1, <2>3
  <2>5. QED
    BY <2>1, <2>4
<1>5. ASSUME NEW a, NEW b, NEW c, NextTo(u, a, b), BeforeIn(u, c, b), c # 0, c # b PROVE BeforeIn(u, c, a)
  <2>1. PICK k \in DOMAIN u : k + 1 \in DOMAIN u /\ u[k] = a /\ u[k + 1] = b
    BY <1>5 DEF NextTo
  <2>2. PICK i, j \in DOMAIN u : i <= j /\ u[i] = c /\ u[j] = b
    BY <1>5 DEF BeforeIn
  <2>3. j = k + 1
    BY <2>1, <2>2 DEF Distinct
  <2>4. i # j
    BY <1>5, <2>2
  <2>5. i <= k
    BY <1>1, <2>1, <2>2, <2>3, <2>4
  <2>6. QED
    BY <2>1, <2>2, <2>5 DEF BeforeIn
<1>6. QED
  BY <1>2, <1>3, <1>4, <1>5 DEF BeforeIn

\* An order of the first elements of a list that has grown was there before ...
LEMMA GrowBack ==
  ASSUME NEW u, NEW v, NEW m \in Nat, NEW n \in Nat, DOMAIN u = 1..m, DOMAIN v = 1..(m + n),
         Distinct(v), \A i \in DOMAIN u : v[i] = u[i],
         NEW a, NEW b \in Elems(u), BeforeIn(v, a, b)
  PROVE  BeforeIn(u, a, b)
<1> SUFFICES ASSUME a # 0 PROVE BeforeIn(u, a, b)
  BY DEF BeforeIn
<1>1. PICK i, j \in DOMAIN v : i <= j /\ v[i] = a /\ v[j] = b
  BY DEF BeforeIn
<1>2. PICK k \in DOMAIN u : u[k] = b
  BY DEF Elems
<1>3. k \in DOMAIN v /\ v[k] = b
  BY <1>2
<1>4. j = k
  BY <1>1, <1>3 DEF Distinct
<1>5. i \in DOMAIN u
  BY <1>1, <1>2, <1>4
<1>6. QED
  BY <1>1, <1>2, <1>4, <1>5 DEF BeforeIn

\* ... and so was the order of a list that has been cut.
LEMMA ShrinkBack ==
  ASSUME NEW u, NEW v, NEW m \in Nat, NEW r \in 1..m, DOMAIN u = 1..m, DOMAIN v = 1..(m - r + 1),
         \A i \in DOMAIN v : v[i] = u[r - 1 + i], NEW a, NEW b, BeforeIn(v, a, b)
  PROVE  BeforeIn(u, a, b)
<1> SUFFICES ASSUME a # 0 PROVE BeforeIn(u, a, b)
  BY DEF BeforeIn
<1>1. PICK i, j \in DOMAIN v : i <= j /\ v[i] = a /\ v[j] = b
  BY DEF BeforeIn
<1>2. r - 1 + i \in DOMAIN u /\ r - 1 + j \in DOMAIN u /\ r - 1 + i <= r - 1 + j
  BY <1>1
<1>3. u[r - 1 + i] = a /\ u[r - 1 + j] = b
  BY <1>1
<1>4. QED
  BY <1>2, <1>3 DEF BeforeIn

\* A step that neither copies nor moves the engine along, and leaves the used list alone.
Rests ==
  /\ UNCHANGED <<used_desc, cookie, completed_cookie, desccount, parts, executed, hw_state, hw_cur, hw_last, completion>>
  /\ \A d \in Desc : desc'[d].cookie = desc[d].cookie /\ desc'[d].part = desc[d].part

\* The kinds of steps there are, for the copies of a healthy engine.
LEMMA CopyKinds ==
  ASSUME Healthy, ListInv, CalmInv, [Next]_vars
  PROVE  \/ alloc_chan_resources \/ free_chan_resources \/ hw_execute \/ hw_reads_append
         \/ \E c \in Clients : tx_submit(c)
         \/ \E phys, r : Cleans(phys, r) /\ CleanFrame(phys)
         \/ Rests
<1>0. TypeOK /\ OnOneList
  BY DEF ListInv
<1>1. ASSUME NEW c \in Clients, NEW n \in 1..MaxParts, prep_memcpy(c, n) PROVE Rests
  <2>1. PICK ds : Prepares(c, n, ds)
    BY <1>0, <1>1, PrepFacts
  <2>2. \A d \in Desc : desc'[d].cookie = desc[d].cookie /\ desc'[d].part = desc[d].part
    <3>1. DOMAIN ds = 1..n
      BY <2>1 DEF Prepares
    <3>2. QED
      BY <2>1, <3>1 DEF Prepares, Elems
  <2>3. QED
    BY <1>1, <2>2 DEF prep_memcpy, Rests, counters, cookies, marks, hw, history
<1>2. ASSUME NEW c \in Clients, NEW n \in 1..MaxParts, prep_memcpy_fails(c, n) PROVE Rests
  BY <1>2 DEF prep_memcpy_fails, Rests, counters, cookies, marks, hw, history
<1>3. ASSUME NEW c \in Clients, issue_pending(c) \/ __issue_pending(c) \/ wait_done(c) PROVE Rests
  BY <1>3 DEF issue_pending, __issue_pending, wait_done, AppendCommand, Rests, lists, counters, cookies, marks, hw, history
<1>4. ASSUME NEW p \in Cleaners, cleanup_preamble(p) \/ cleanup_contended(p) PROVE Rests
  BY <1>4 DEF cleanup_preamble, cleanup_contended, Rests, lists, counters, cookies, marks, hw, history
<1>5. ASSUME tasklet_returns \/ timer_nothing \/ timer_after_free \/ UNCHANGED vars PROVE Rests
  BY <1>5 DEF tasklet_returns, timer_nothing, timer_after_free, vars, Rests, lists, counters, cookies, marks, hw, history
<1>6. QED
  BY <1>1, <1>2, <1>3, <1>4, <1>5, NeverStuck, CleanCases DEF Next, Client, Cleanup, Timer, Engine, AtRest

\* A cleanup stays behind what the engine has finished.
LEMMA CleanBehind ==
  ASSUME ListInv, GoesOn, NEW phys, CleanFrame(phys)
  PROVE  /\ Up /\ phys # 0 /\ hw_last # 0 /\ BeforeIn(used_desc, phys, hw_last)
         /\ used_desc \in Seq(Desc) /\ Distinct(used_desc)
<1>1. MarkInv /\ used_desc \in Seq(Desc) /\ Distinct(used_desc)
  BY OneListIs DEF ListInv, TypeOK, OneList
<1>2. Up /\ phys # 0 /\ BeforeIn(used_desc, phys, completion)
  BY DEF CleanFrame, Up, Before
<1>3. completion # 0
  BY <1>1, <1>2, Order
<1>4. hw_last # 0
  BY <1>2, <1>3 DEF GoesOn
<1>5. BeforeIn(used_desc, completion, hw_last)
  BY <1>1, <1>2, <1>4 DEF MarkInv, Before
<1>6. BeforeIn(used_desc, phys, hw_last)
  BY <1>1, <1>2, <1>5, Order
<1>7. QED
  BY <1>1, <1>2, <1>4, <1>6

\* The engine goes on where it was.
LEMMA GoesOnStep ==
  ASSUME Healthy, ListInv, CalmInv, GoesOn, [Next]_vars
  PROVE  GoesOn'
<1>0. TypeOK /\ DownInv /\ MarkInv /\ ReportInv /\ used_desc \in Seq(Desc) /\ Distinct(used_desc)
  BY OneListIs DEF ListInv, TypeOK, OneList, CalmInv
<1>u. Len(used_desc) \in Nat /\ DOMAIN used_desc = 1..Len(used_desc) /\ \A i \in DOMAIN used_desc : used_desc[i] \in Desc
  BY <1>0, UsedType
<1>d. Up => 1 \in DOMAIN used_desc /\ used_desc[1] \in Desc
  <2>1. Up => Len(used_desc) \in DOMAIN used_desc
    BY EndFacts
  <2>2. QED
    BY <1>u, <2>1
<1>1. CASE alloc_chan_resources
  <2>1. 1 \in Desc
    BY DescAssumption DEF Desc
  <2>2. desc'[1] = [Blank EXCEPT !.compl_write = TRUE]
    BY <1>1, <2>1 DEF alloc_chan_resources
  <2>3. desc'[1].part = <<0, 0>>
    BY <2>2 DEF Blank
  <2>4. hw_last' = 0 /\ hw_state' = "run" /\ hw_cur' = 1 /\ used_desc' = <<1>> /\ completion' = 0
    BY <1>0, <1>1 DEF alloc_chan_resources, Start, DownInv
  <2>5. used_desc'[1] = 1
    BY <2>4
  <2>6. QED
    BY <2>3, <2>4, <2>5 DEF GoesOn
<1>2. CASE free_chan_resources
  BY <1>2 DEF free_chan_resources, GoesOn, Up
<1>3. CASE hw_execute
  <2>1. /\ UNCHANGED <<used_desc, desc, desccount>> /\ hw_state = "run" /\ hw_last' = hw_cur
        /\ \/ hw_next = 0 /\ hw_state' = "idle" /\ hw_cur' = hw_cur
           \/ hw_next # 0 /\ hw_state' = "run" /\ hw_cur' = hw_next
    BY <1>3 DEF hw_execute, lists, counters
  <2>2. Up
    BY <1>0, <2>1 DEF DownInv, Up
  <2>3. hw_cur # 0 /\ (hw_next # 0 => NextTo(used_desc, hw_cur, hw_next))
    BY <2>1, <2>2, EngineFacts
  <2>4. QED
    BY <2>1, <2>3 DEF GoesOn
<1>4. CASE hw_reads_append
  <2>1. /\ UNCHANGED <<used_desc, desc, desccount, completion, hw_last>> /\ hw_state = "idle"
        /\ \/ UNCHANGED <<hw_state, hw_cur>>
           \/ desc[hw_cur].next # 0 /\ hw_state' = "run" /\ hw_cur' = desc[hw_cur].next
    BY <1>4 DEF hw_reads_append, lists, counters, marks
  <2>2. Up
    BY <1>0, <2>1 DEF DownInv, Up
  <2>3. hw_cur # 0 /\ BeforeIn(used_desc, hw_cur, hw_cur) /\ hw_last = hw_cur
    BY <2>1, <2>2, EngineFacts DEF GoesOn
  <2>4. desc[hw_cur].next # 0 => NextTo(used_desc, hw_last, desc[hw_cur].next)
    BY <2>2, <2>3, EndFacts
  <2>5. QED
    BY <2>1, <2>2, <2>3, <2>4 DEF GoesOn
<1>5. ASSUME NEW c \in Clients, tx_submit(c) PROVE GoesOn'
  <2>1. PICK ds, n, m : Appends(c, ds, n, m)
    BY <1>5, SubmitFacts DEF ListInv
  <2>2. UNCHANGED <<hw_state, hw_cur, hw_last, completion>>
    BY <1>5 DEF tx_submit, AppendCommand, hw, marks
  <2>3. /\ m \in Nat \ {0} /\ n \in Nat /\ DOMAIN used_desc = 1..m /\ DOMAIN used_desc' = 1..(m + n) /\ Up
        /\ \A i \in 1..m : used_desc'[i] = used_desc[i]
    <3>1. n \in 1..MaxParts /\ m \in Nat \ {0}
      BY <2>1 DEF Appends
    <3>2. n \in Nat
      BY <3>1, BoundsAssumption
    <3>3. QED
      BY <2>1, <3>1, <3>2 DEF Appends, Up
  <2>4. DOMAIN used_desc \subseteq DOMAIN used_desc' /\ 1 \in 1..m
    BY ONLY <2>3
  <2>5. \A a, b : NextTo(used_desc, a, b) => NextTo(used_desc', a, b)
    BY ONLY <2>3, <2>4, Grow
  <2>6. used_desc'[1] = used_desc[1] /\ desc'[used_desc[1]].part = desc[used_desc[1]].part
    <3>1. used_desc[1] \in Elems(used_desc) /\ used_desc[1] \in Desc
      BY <1>d, <2>3 DEF Elems
    <3>2. used_desc[1] \notin Elems(ds)
      BY <2>1, <3>1 DEF Appends
    <3>3. QED
      BY <2>1, <2>3, <2>4, <3>1, <3>2 DEF Appends
  <2>7. QED
    BY <2>2, <2>3, <2>5, <2>6 DEF GoesOn
<1>6. ASSUME NEW phys, NEW r, Cleans(phys, r), CleanFrame(phys) PROVE GoesOn'
  <2>1. Up /\ phys # 0 /\ hw_last # 0 /\ BeforeIn(used_desc, phys, hw_last)
    BY <1>6, CleanBehind
  <2>2. UNCHANGED <<hw_state, hw_cur, hw_last, completion>>
    BY <1>6 DEF CleanFrame, hw
  <2>3. /\ r \in 1..Len(used_desc) /\ used_desc[r] = phys /\ DOMAIN used_desc' = 1..(Len(used_desc) - r + 1)
        /\ \A i \in DOMAIN used_desc' : used_desc'[i] = used_desc[r - 1 + i]
    BY <1>6 DEF Cleans
  <2>4. \A a, b : BeforeIn(used_desc, phys, a) /\ NextTo(used_desc, a, b) => NextTo(used_desc', a, b)
    BY ONLY <1>0, <2>1, <2>3, Shrink
  <2>5. QED
    BY <2>1, <2>2, <2>4 DEF GoesOn
<1>7. ASSUME Rests PROVE GoesOn'
  <2>1. desccount # 0 => desc'[used_desc[1]].part = desc[used_desc[1]].part
    BY <1>7, <1>d DEF Rests, Up
  <2>2. QED
    BY <1>7, <2>1 DEF Rests, GoesOn, Up
<1>8. QED
  BY <1>1, <1>2, <1>3, <1>4, <1>5, <1>6, <1>7, CopyKinds

\* What the engine has passed stays copied.
LEMMA PassedStep ==
  ASSUME Healthy, ListInv, CalmInv, GoesOn, Passed, [Next]_vars
  PROVE  Passed'
<1>0. TypeOK /\ DownInv /\ MarkInv /\ used_desc \in Seq(Desc) /\ Distinct(used_desc)
  BY OneListIs DEF ListInv, TypeOK, OneList
<1>1. CASE alloc_chan_resources
  <2>1. hw_last' = 0 /\ used_desc' = <<1>>
    BY <1>0, <1>1 DEF alloc_chan_resources, Start, DownInv
  <2>2. ASSUME NEW a \in Desc PROVE ~BeforeIn(<<1>>, a, 0)
    <3>1. a # 0
      BY DescAssumption DEF Desc
    <3>2. \A j \in DOMAIN <<1>> : <<1>>[j] = 1
      OBVIOUS
    <3>3. QED
      BY <3>1, <3>2 DEF BeforeIn
  <2>3. QED
    BY <2>1, <2>2 DEF Passed, Before
<1>2. CASE free_chan_resources
  BY <1>2 DEF free_chan_resources, Passed, Up
<1>3. CASE hw_execute
  <2>1. /\ UNCHANGED <<used_desc, desc, desccount>> /\ hw_state = "run" /\ hw_last' = hw_cur
        /\ executed' = executed \union {desc[hw_cur].part}
    BY <1>3 DEF hw_execute, lists, counters
  <2>2. Up
    BY <1>0, <2>1 DEF DownInv, Up
  <2>3. ASSUME NEW a \in Desc, BeforeIn(used_desc, a, hw_cur) PROVE desc[a].part \in executed'
    <3>1. a # 0
      BY DescAssumption DEF Desc
    <3>2. CASE a = hw_cur
      BY <2>1, <3>2
    <3>3. CASE a # hw_cur
      <4>1. hw_last # 0
        <5>1. hw_last = 0 => hw_cur = used_desc[1]
          BY <2>2 DEF GoesOn
        <5>2. BeforeIn(used_desc, a, used_desc[1]) => a = 0 \/ a = used_desc[1]
          BY <1>0, Neighbours
        <5>3. QED
          BY <2>3, <3>1, <3>3, <5>1, <5>2
      <4>2. NextTo(used_desc, hw_last, hw_cur)
        BY <2>1, <2>2, <4>1 DEF GoesOn
      <4>3. BeforeIn(used_desc, a, hw_last)
        BY <1>0, <2>3, <3>3, <4>2, Neighbours
      <4>4. QED
        BY <2>1, <2>2, <4>3 DEF Passed, Before
    <3>4. QED
      BY <3>2, <3>3
  <2>4. QED
    BY <2>1, <2>3 DEF Passed, Before
<1>4. CASE hw_reads_append
  BY <1>4 DEF hw_reads_append, lists, counters, history, Passed, Before, Up
<1>5. ASSUME NEW c \in Clients, tx_submit(c) PROVE Passed'
  <2>1. PICK ds, n, m : Appends(c, ds, n, m)
    BY <1>5, SubmitFacts DEF ListInv
  <2>2. UNCHANGED <<hw_last, executed>>
    BY <1>5 DEF tx_submit, AppendCommand, hw
  <2>3. /\ m \in Nat /\ n \in Nat /\ DOMAIN used_desc = 1..m /\ DOMAIN used_desc' = 1..(m + n) /\ Up
        /\ \A i \in DOMAIN used_desc : used_desc'[i] = used_desc[i]
        /\ Distinct(used_desc') /\ used_desc' \in Seq(Desc)
    BY <2>1, BoundsAssumption DEF Appends, Up
  <2>4. ASSUME NEW a \in Desc, BeforeIn(used_desc', a, hw_last) PROVE desc'[a].part \in executed
    <3>1. a # 0
      BY DescAssumption DEF Desc
    <3>2. hw_last # 0
      BY <2>3, <2>4, <3>1, Neighbours
    <3>3. BeforeIn(used_desc, hw_last, hw_cur)
      BY <1>0, <2>3, <3>2 DEF MarkInv, Before
    <3>4. hw_last \in Elems(used_desc)
      BY <1>0, <3>2, <3>3, Neighbours
    <3>5. BeforeIn(used_desc, a, hw_last)
      BY ONLY <2>3, <2>4, <3>4, GrowBack
    <3>6. desc[a].part \in executed
      BY <2>3, <3>5 DEF Passed, Before
    <3>7. a \in Elems(used_desc)
      BY <1>0, <3>1, <3>5, Neighbours
    <3>8. a \notin Elems(ds)
      BY <2>1, <3>7 DEF Appends
    <3>9. QED
      BY <2>1, <3>6, <3>8 DEF Appends
  <2>5. QED
    BY <2>2, <2>4 DEF Passed, Before
<1>6. ASSUME NEW phys, NEW r, Cleans(phys, r), CleanFrame(phys) PROVE Passed'
  <2>1. UNCHANGED <<hw_last, executed>> /\ Up
    BY <1>6 DEF CleanFrame, hw, history, Up
  <2>2. /\ Len(used_desc) \in Nat /\ r \in 1..Len(used_desc) /\ DOMAIN used_desc = 1..Len(used_desc)
        /\ DOMAIN used_desc' = 1..(Len(used_desc) - r + 1)
        /\ \A i \in DOMAIN used_desc' : used_desc'[i] = used_desc[r - 1 + i]
    BY <1>6 DEF Cleans
  <2>3. \A a, b : BeforeIn(used_desc', a, b) => BeforeIn(used_desc, a, b)
    BY ONLY <2>2, ShrinkBack
  <2>4. \A d \in Desc : desc'[d].part = desc[d].part
    BY <1>6 DEF Cleans
  <2>5. QED
    BY <2>1, <2>3, <2>4 DEF Passed, Before
<1>7. ASSUME Rests PROVE Passed'
  BY <1>7 DEF Rests, Passed, Before, Up
<1>8. QED
  BY <1>1, <1>2, <1>3, <1>4, <1>5, <1>6, <1>7, CopyKinds

\* A cleanup up to phys: what it completes is before phys and so copied, what it
\* leaves open is behind phys and keeps its cookie.
LEMMA CleanOpen ==
  ASSUME ListInv, CookieInv, GoesOn, Passed, NEW phys, NEW r, Cleans(phys, r), CleanFrame(phys), completed_cookie' \in Nat
  PROVE  /\ \A a \in Desc : BeforeIn(used_desc, a, phys) => desc[a].part \in executed
         /\ \A a, b \in Desc : BeforeIn(used_desc, a, b) /\ desc[b].cookie # 0 /\ desc[b].cookie <= completed_cookie'
                                 => BeforeIn(used_desc, a, phys)
         /\ \A a, b \in Desc : BeforeIn(used_desc, a, b) /\ desc[b].cookie # 0 /\ desc[b].cookie > completed_cookie'
                                 => \/ BeforeIn(used_desc, a, phys)
                                    \/ BeforeIn(used_desc', a, b) /\ desc'[b].cookie = desc[b].cookie
         /\ \A i \in DOMAIN used_desc' : i > 1 => /\ r - 1 + i \in DOMAIN used_desc /\ r - 1 + i > 1
                                                  /\ used_desc'[i] = used_desc[r - 1 + i]
                                                  /\ \A b \in Desc : BeforeIn(used_desc, used_desc'[i], b)
                                                       => BeforeIn(used_desc', used_desc'[i], b) /\ desc'[b].cookie = desc[b].cookie
<1>1. /\ Up /\ phys # 0 /\ hw_last # 0 /\ BeforeIn(used_desc, phys, hw_last)
      /\ used_desc \in Seq(Desc) /\ Distinct(used_desc)
  BY CleanBehind
<1>2. /\ r \in 1..Len(used_desc) /\ Len(used_desc) \in Nat /\ DOMAIN used_desc = 1..Len(used_desc)
      /\ r = Reached(phys) /\ used_desc[r] = phys
      /\ DOMAIN used_desc' = 1..(Len(used_desc) - r + 1)
      /\ \A i \in DOMAIN used_desc' : r - 1 + i \in DOMAIN used_desc /\ used_desc'[i] = used_desc[r - 1 + i]
      /\ \A i \in DOMAIN used_desc : desc'[used_desc[i]].cookie = IF i <= r THEN 0 ELSE desc[used_desc[i]].cookie
  BY DEF Cleans
<1>3. \A a, b : BeforeIn(used_desc, phys, a) /\ BeforeIn(used_desc, a, b) => BeforeIn(used_desc', a, b)
  BY ONLY <1>1, <1>2, Shrink
<1>4. ASSUME NEW a \in Desc, BeforeIn(used_desc, a, phys) PROVE desc[a].part \in executed
  <2>1. BeforeIn(used_desc, a, hw_last)
    BY <1>1, <1>4, Order
  <2>2. QED
    BY <1>1, <2>1 DEF Passed, Before
<1>c. completed_cookie' = Completed(phys) /\ InOrder(Ck, completed_cookie, cookie) /\ Ck \in [1..Len(used_desc) -> 0..MaxCookie]
  BY <1>1, CookieFacts, CkType DEF CleanFrame, Up, ListInv
<1>k. \A i \in DOMAIN used_desc : Ck[i] = desc[used_desc[i]].cookie
  BY DEF Ck
<1>5. \/ /\ \A i \in 1..r : Ck[i] = 0
         /\ completed_cookie' = completed_cookie
      \/ /\ \E i \in 1..r : Ck[i] # 0 /\ completed_cookie' = Ck[i]
         /\ \A i \in 1..r : Ck[i] <= completed_cookie'
  <2>1. phys \in 0..MaxDesc
    BY DEF CleanFrame
  <2>2. \A i \in 1..r : i \in DOMAIN used_desc
    BY <1>2
  <2>3. \/ /\ \A i \in 1..r : desc[used_desc[i]].cookie = 0
           /\ Completed(phys) = completed_cookie
        \/ /\ \E i \in 1..r : desc[used_desc[i]].cookie # 0 /\ Completed(phys) = desc[used_desc[i]].cookie
           /\ \A i \in 1..r : desc[used_desc[i]].cookie <= Completed(phys)
    <3>1. TypeOK /\ r = Reached(phys)
      BY <1>2 DEF ListInv
    <3>2. QED
      BY ONLY <2>1, <3>1, CompletedFacts
  <2>4. \A i \in 1..r : Ck[i] = desc[used_desc[i]].cookie
    BY <1>k, <2>2
  <2>5. QED
    BY ONLY <1>c, <2>3, <2>4
\* On which side of phys a cookie is.
<1>6. ASSUME NEW j \in DOMAIN used_desc, Ck[j] # 0 PROVE Ck[j] <= completed_cookie' <=> j <= r
  <2>t. j \in Nat /\ r \in Nat /\ Ck[j] \in Nat /\ completed_cookie' \in Nat /\ completed_cookie \in Nat
    <3>1. completed_cookie \in Nat
      BY CookieFacts
    <3>2. Ck[j] \in 0..MaxCookie
      BY <1>2, <1>c
    <3>3. QED
      BY <1>2, <3>1, <3>2, BoundsAssumption
  <2>1. ASSUME j <= r PROVE Ck[j] <= completed_cookie'
    <3>1. j \in 1..r
      BY <1>2, <2>1
    <3>2. QED
      BY <1>5, <1>6, <3>1
  <2>2. ASSUME ~(j <= r) PROVE ~(Ck[j] <= completed_cookie')
    <3>1. CASE completed_cookie' = completed_cookie
      <4>1. Ck[j] \in (completed_cookie + 1)..cookie
        BY <1>2, <1>6, <1>c DEF InOrder
      <4>2. QED
        BY <2>t, <3>1, <4>1
    <3>2. CASE \E i \in 1..r : Ck[i] # 0 /\ completed_cookie' = Ck[i]
      <4>1. PICK i \in 1..r : completed_cookie' = Ck[i]
        BY <3>2
      <4>2. i < j /\ i \in DOMAIN used_desc
        BY <1>2, <2>2, <2>t, <4>1
      <4>3. Ck[i] < Ck[j]
        BY <1>2, <1>6, <1>c, <4>2 DEF InOrder
      <4>4. QED
        BY <2>t, <4>1, <4>3
    <3>3. QED
      BY <1>5, <3>1, <3>2
  <2>3. QED
    BY <2>1, <2>2
<1>z. \A d \in Desc : d # 0
  BY DescAssumption DEF Desc
<1>7. ASSUME NEW a \in Desc, NEW b \in Desc, BeforeIn(used_desc, a, b), desc[b].cookie # 0, desc[b].cookie <= completed_cookie'
      PROVE  BeforeIn(used_desc, a, phys)
  <2>1. PICK i, j \in DOMAIN used_desc : i <= j /\ used_desc[i] = a /\ used_desc[j] = b
    BY <1>7, <1>z DEF BeforeIn
  <2>2. j <= r
    BY <1>6, <1>7, <1>k, <2>1
  <2>3. i <= r /\ r \in DOMAIN used_desc
    BY <1>2, <2>1, <2>2
  <2>4. QED
    BY <1>2, <2>1, <2>3 DEF BeforeIn
<1>8. ASSUME NEW a \in Desc, NEW b \in Desc, BeforeIn(used_desc, a, b), desc[b].cookie # 0, desc[b].cookie > completed_cookie'
      PROVE  \/ BeforeIn(used_desc, a, phys)
             \/ BeforeIn(used_desc', a, b) /\ desc'[b].cookie = desc[b].cookie
  <2>1. PICK i, j \in DOMAIN used_desc : i <= j /\ used_desc[i] = a /\ used_desc[j] = b
    BY <1>8, <1>z DEF BeforeIn
  <2>2. ~(j <= r)
    <3>1. Ck[j] = desc[b].cookie /\ Ck[j] \in 0..MaxCookie
      BY <1>2, <1>c, <1>k, <2>1
    <3>2. ~(Ck[j] <= completed_cookie')
      BY <1>8, <3>1, BoundsAssumption
    <3>3. QED
      BY <1>6, <1>8, <3>1, <3>2
  <2>3. desc'[b].cookie = desc[b].cookie
    BY <1>2, <2>1, <2>2
  <2>4. CASE i <= r
    BY <1>2, <2>1, <2>4 DEF BeforeIn
  <2>5. CASE ~(i <= r)
    <3>1. BeforeIn(used_desc, phys, a)
      <4>1. r <= i /\ r \in DOMAIN used_desc
        BY <1>2, <2>5
      <4>2. QED
        BY <1>2, <2>1, <4>1 DEF BeforeIn
    <3>2. QED
      BY <1>3, <1>8, <2>3, <3>1
  <2>6. QED
    BY <2>4, <2>5
<1>9. ASSUME NEW i \in DOMAIN used_desc', i > 1
      PROVE  /\ r - 1 + i \in DOMAIN used_desc /\ r - 1 + i > 1 /\ used_desc'[i] = used_desc[r - 1 + i]
             /\ \A b \in Desc : BeforeIn(used_desc, used_desc'[i], b)
                  => BeforeIn(used_desc', used_desc'[i], b) /\ desc'[b].cookie = desc[b].cookie
  <2>1. r - 1 + i \in DOMAIN used_desc /\ used_desc'[i] = used_desc[r - 1 + i]
    BY <1>2
  <2>2. i \in Nat /\ r \in Nat /\ r >= 1
    BY <1>2
  <2>3. r - 1 + i > 1 /\ r < r - 1 + i
    BY <1>9, <2>2
  <2>4. ASSUME NEW b \in Desc, BeforeIn(used_desc, used_desc'[i], b)
        PROVE  BeforeIn(used_desc', used_desc'[i], b) /\ desc'[b].cookie = desc[b].cookie
    <3>1. BeforeIn(used_desc, phys, used_desc'[i])
      <4>1. r <= r - 1 + i /\ r \in DOMAIN used_desc
        BY <1>2, <2>2, <2>3
      <4>2. QED
        BY <1>2, <2>1, <4>1 DEF BeforeIn
    <3>2. BeforeIn(used_desc', used_desc'[i], b)
      BY <1>3, <2>4, <3>1
    <3>3. used_desc'[i] # 0
      BY <1>1, <1>z, <2>1, ElementOfSeq, <1>2
    <3>4. PICK k, l \in DOMAIN used_desc : k <= l /\ used_desc[k] = used_desc'[i] /\ used_desc[l] = b
      BY <2>4, <3>3 DEF BeforeIn
    <3>5. k = r - 1 + i
      BY <1>1, <2>1, <3>4 DEF Distinct
    <3>6. ~(l <= r)
      BY <1>2, <2>2, <2>3, <3>4, <3>5
    <3>7. QED
      BY <1>2, <3>2, <3>4, <3>6
  <2>5. QED
    BY <2>1, <2>3, <2>4
<1>10. QED
  BY <1>4, <1>7, <1>8, <1>9

\* A transaction is completed when it is copied, and what is open stays in front of its cookie.
LEMMA OpenStep ==
  ASSUME Healthy, SteadyInv, CopyInv, [Next]_vars
  PROVE  OpenInv' /\ CompletedMeansCopied'
<1>0. /\ ListInv /\ CookieInv /\ WaitInv /\ CalmInv /\ GoesOn /\ Passed /\ OpenInv /\ CompletedMeansCopied
  BY DEF SteadyInv, CopyInv
<1>1. /\ TypeOK /\ DownInv /\ LeftInv /\ used_desc \in Seq(Desc) /\ Distinct(used_desc)
      /\ cookie \in Nat /\ completed_cookie \in Nat
  BY <1>0, CookieFacts, OneListIs DEF ListInv, TypeOK, OneList
<1>p. Len(parts) = cookie /\ parts \in Seq(1..MaxParts)
  BY <1>0, <1>1 DEF OpenInv, TypeOK
<1>z. \A d \in Desc : d # 0
  BY DescAssumption DEF Desc
<1>2. CASE alloc_chan_resources
  <2>1. /\ UNCHANGED <<cookie, completed_cookie, parts, executed>> /\ used_desc' = <<1>> /\ desccount = 0 /\ allocs < MaxAllocs
    BY <1>2 DEF alloc_chan_resources, cookies
  <2>2. completed_cookie = cookie
    <3>1. allocs \in Nat /\ MaxAllocs \in Nat
      BY <1>0, CookieFacts
    <3>2. allocs = 0 \/ MaxAllocs > 1
      BY <2>1, <3>1
    <3>3. QED
      BY <1>1, <2>1, <3>2 DEF LeftInv, Up
  <2>3. \A k : k \notin (completed_cookie' + 1)..cookie'
    BY <1>1, <2>1, <2>2
  <2>4. \A i \in DOMAIN used_desc' : ~(i > 1)
    BY <2>1
  <2>5. OpenInv'
    BY <1>p, <2>1, <2>3, <2>4 DEF OpenInv
  <2>6. CompletedMeansCopied'
    BY <1>0, <2>1 DEF CompletedMeansCopied
  <2>7. QED
    BY <2>5, <2>6
<1>3. CASE free_chan_resources
  <2>1. completed_cookie' = completed_cookie
    BY <1>0, <1>3, FreeLeaves
  <2>2. UNCHANGED <<cookie, parts, executed>> /\ desccount' = 0
    BY <1>3 DEF free_chan_resources, history
  <2>3. QED
    BY <1>0, <2>1, <2>2 DEF OpenInv, CompletedMeansCopied, Up
\* More is copied, and nothing else changes.
<1>s. ASSUME UNCHANGED <<used_desc, cookie, completed_cookie, desccount, parts>>, executed \subseteq executed',
             \A d \in Desc : desc'[d].cookie = desc[d].cookie /\ desc'[d].part = desc[d].part
      PROVE  OpenInv' /\ CompletedMeansCopied'
  <2>1. CompletedMeansCopied'
    BY <1>0, <1>s DEF CompletedMeansCopied
  <2>2. ASSUME Up, NEW k \in (completed_cookie + 1)..cookie, NEW n \in 1..parts[k]
        PROVE  \/ <<k, n>> \in executed'
               \/ \E a, b \in Desc : BeforeIn(used_desc', a, b) /\ desc'[a].part = <<k, n>> /\ desc'[b].cookie = k
    <3>1. \/ <<k, n>> \in executed
          \/ \E a, b \in Desc : BeforeIn(used_desc, a, b) /\ desc[a].part = <<k, n>> /\ desc[b].cookie = k
      BY <1>0, <2>2 DEF OpenInv, Before
    <3>2. QED
      BY ONLY <1>s, <3>1
  <2>3. ASSUME Up PROVE
          \A i \in DOMAIN used_desc' : i > 1 =>
             \E b \in Desc : BeforeIn(used_desc', used_desc'[i], b) /\ desc'[b].cookie = desc'[used_desc'[i]].part[1]
    <3>1. \A i \in DOMAIN used_desc : used_desc[i] \in Desc
      BY <1>1, UsedType
    <3>2. QED
      BY <1>0, <1>s, <2>3, <3>1 DEF OpenInv, Before
  <2>4. OpenInv'
    <3>1. Len(parts') = cookie'
      BY <1>p, <1>s
    <3>2. CASE ~Up
      BY <1>s, <3>1, <3>2 DEF OpenInv, Up
    <3>3. CASE Up
      BY <1>s, <2>2, <2>3, <3>1, <3>3 DEF OpenInv, Before
    <3>4. QED
      BY <3>2, <3>3
  <2>5. QED
    BY <2>1, <2>4
<1>4. CASE hw_execute
  BY <1>4, <1>s DEF hw_execute, lists, counters, cookies
<1>5. CASE hw_reads_append
  BY <1>5, <1>s DEF hw_reads_append, lists, counters, cookies, history
<1>6. CASE Rests
  BY <1>6, <1>s DEF Rests
<1>7. ASSUME NEW c \in Clients, tx_submit(c) PROVE OpenInv' /\ CompletedMeansCopied'
  <2>1. PICK ds, n, m : Appends(c, ds, n, m)
    BY <1>0, <1>7, SubmitFacts DEF ListInv
  <2>2. /\ UNCHANGED <<completed_cookie, executed>> /\ parts' = Append(parts, n)
        /\ cookie' = cookie + 1
    BY <1>7, <2>1 DEF tx_submit, Appends
  <2>3. n \in 1..MaxParts /\ m \in Nat \ {0} /\ n \in Nat \ {0}
    <3>1. n \in 1..MaxParts /\ m \in Nat \ {0}
      BY <2>1 DEF Appends
    <3>2. QED
      BY <3>1, BoundsAssumption
  <2>4. /\ Len(parts') = cookie' /\ \A k \in 1..cookie : parts'[k] = parts[k]
        /\ parts'[cookie'] = n
    BY <1>p, <2>2, <2>3, AppendProperties
  <2>5. completed_cookie <= cookie /\ Up
    <3>1. Up
      BY <2>1 DEF Appends, Up
    <3>2. QED
      BY <1>0, <3>1, CookieFacts DEF Up
  <2>6. CompletedMeansCopied'
    <3>1. \A k \in 1..completed_cookie : k \in 1..cookie
      BY <1>1, <2>5
    <3>2. QED
      BY <1>0, <2>2, <2>4, <3>1 DEF CompletedMeansCopied
  <2>7. /\ DOMAIN used_desc = 1..m /\ DOMAIN used_desc' = 1..(m + n)
        /\ \A i \in 1..m : used_desc'[i] = used_desc[i]
        /\ \A i \in 1..n : used_desc'[m + i] = ds[i] /\ ds[i] \in Desc
        /\ \A i \in 1..(m + n) : i \in 1..m \/ i - m \in 1..n
        /\ Elems(used_desc) \intersect Elems(ds) = {}
        /\ \A d \in Desc : d \notin Elems(ds) => desc'[d].cookie = desc[d].cookie /\ desc'[d].part = desc[d].part
        /\ \A i \in 1..n : desc'[ds[i]].part = <<cookie + 1, i>>
        /\ n \in 1..n => desc'[ds[n]].cookie = cookie + 1
    BY <2>1 DEF Appends
  <2>8. \A a, b : BeforeIn(used_desc, a, b) => BeforeIn(used_desc', a, b)
    <3>1. DOMAIN used_desc \subseteq DOMAIN used_desc' /\ \A i \in DOMAIN used_desc : used_desc'[i] = used_desc[i]
      BY <2>3, <2>7
    <3>2. QED
      BY ONLY <3>1, Grow
  <2>9. \A d \in Elems(used_desc) : d \in Desc => desc'[d].cookie = desc[d].cookie /\ desc'[d].part = desc[d].part
    BY <2>7
  <2>10. n \in 1..n /\ \A i \in 1..n : BeforeIn(used_desc', ds[i], ds[n])
    <3>1. n \in 1..n
      BY <2>3
    <3>2. ASSUME NEW i \in 1..n PROVE BeforeIn(used_desc', ds[i], ds[n])
      <4>1. m + i \in DOMAIN used_desc' /\ m + n \in DOMAIN used_desc' /\ m + i <= m + n
        BY <2>3, <2>7
      <4>2. QED
        BY <2>7, <3>1, <4>1 DEF BeforeIn
    <3>3. QED
      BY <3>1, <3>2
  <2>11. ASSUME NEW k \in (completed_cookie + 1)..(cookie + 1), NEW q \in 1..parts'[k]
         PROVE  \/ <<k, q>> \in executed
                \/ \E a, b \in Desc : BeforeIn(used_desc', a, b) /\ desc'[a].part = <<k, q>> /\ desc'[b].cookie = k
    <3>1. CASE k = cookie + 1
      <4>1. q \in 1..n
        BY <2>2, <2>4, <2>11, <3>1
      <4>2. ds[q] \in Desc /\ ds[n] \in Desc /\ desc'[ds[q]].part = <<k, q>> /\ desc'[ds[n]].cookie = k
        BY <2>7, <2>10, <3>1, <4>1
      <4>3. QED
        BY <2>10, <4>1, <4>2
    <3>2. CASE k # cookie + 1
      <4>1. k \in (completed_cookie + 1)..cookie /\ k \in 1..cookie
        BY <1>1, <2>5, <3>2
      <4>2. q \in 1..parts[k]
        BY <2>4, <2>11, <4>1
      <4>3. \/ <<k, q>> \in executed
            \/ \E a, b \in Desc : BeforeIn(used_desc, a, b) /\ desc[a].part = <<k, q>> /\ desc[b].cookie = k
        BY <1>0, <2>5, <4>1, <4>2 DEF OpenInv, Before
      <4>4. ASSUME NEW a \in Desc, NEW b \in Desc, BeforeIn(used_desc, a, b), desc[a].part = <<k, q>>, desc[b].cookie = k
            PROVE  BeforeIn(used_desc', a, b) /\ desc'[a].part = <<k, q>> /\ desc'[b].cookie = k
        <5>1. a \in Elems(used_desc) /\ b \in Elems(used_desc)
          BY <1>1, <1>z, <4>4, Neighbours
        <5>2. QED
          BY <2>8, <2>9, <4>4, <5>1
      <4>5. QED
        BY <4>3, <4>4
    <3>3. QED
      BY <3>1, <3>2
  <2>12. ASSUME NEW i \in DOMAIN used_desc', i > 1
         PROVE  \E b \in Desc : BeforeIn(used_desc', used_desc'[i], b) /\ desc'[b].cookie = desc'[used_desc'[i]].part[1]
    <3>1. CASE i \in 1..m
      <4>1. used_desc'[i] = used_desc[i] /\ i \in DOMAIN used_desc
        BY <2>7, <3>1
      <4>2. used_desc[i] \in Desc /\ used_desc[i] \in Elems(used_desc)
        BY <1>1, <4>1, UsedType DEF Elems
      <4>3. PICK b \in Desc : BeforeIn(used_desc, used_desc[i], b) /\ desc[b].cookie = desc[used_desc[i]].part[1]
        BY <1>0, <2>5, <2>12, <4>1 DEF OpenInv, Before
      <4>4. b \in Elems(used_desc)
        BY <1>1, <1>z, <4>2, <4>3, Neighbours
      <4>5. QED
        BY <2>8, <2>9, <4>1, <4>2, <4>3, <4>4
    <3>2. CASE i - m \in 1..n
      <4>1. used_desc'[i] = ds[i - m]
        <5>1. m + (i - m) = i
          BY <2>3, <2>7
        <5>2. QED
          BY <2>7, <3>2, <5>1
      <4>2. desc'[used_desc'[i]].part[1] = cookie + 1
        BY <2>7, <3>2, <4>1
      <4>3. QED
        BY <2>7, <2>10, <3>2, <4>1, <4>2
    <3>3. QED
      BY <2>7, <3>1, <3>2
  <2>13. OpenInv'
    BY <2>2, <2>4, <2>11, <2>12 DEF OpenInv, Before
  <2>14. QED
    BY <2>6, <2>13
<1>8. ASSUME NEW phys, NEW r, Cleans(phys, r), CleanFrame(phys) PROVE OpenInv' /\ CompletedMeansCopied'
  <2>0. Up /\ InOrder(Ck, completed_cookie, cookie) /\ TypeOK'
    BY <1>0, <1>8, CookieFacts, TypeStep DEF CleanFrame, Up
  <2>1. completed_cookie <= completed_cookie' /\ completed_cookie' \in Nat /\ completed_cookie' <= cookie
    <3>1. InOrder(Ck', completed_cookie', cookie) /\ completed_cookie <= completed_cookie' /\ completed_cookie' \in Nat
      BY <1>1, <1>8, <2>0, CleanOrder
    <3>2. QED
      BY <3>1 DEF InOrder
  <2>2. UNCHANGED <<cookie, parts, executed>> /\ \A d \in Desc : desc'[d].part = desc[d].part
    BY <1>8 DEF CleanFrame, history, Cleans
  <2>3. /\ \A a \in Desc : BeforeIn(used_desc, a, phys) => desc[a].part \in executed
        /\ \A a, b \in Desc : BeforeIn(used_desc, a, b) /\ desc[b].cookie # 0 /\ desc[b].cookie <= completed_cookie'
                                => BeforeIn(used_desc, a, phys)
        /\ \A a, b \in Desc : BeforeIn(used_desc, a, b) /\ desc[b].cookie # 0 /\ desc[b].cookie > completed_cookie'
                                => \/ BeforeIn(used_desc, a, phys)
                                   \/ BeforeIn(used_desc', a, b) /\ desc'[b].cookie = desc[b].cookie
        /\ \A i \in DOMAIN used_desc' : i > 1 => /\ r - 1 + i \in DOMAIN used_desc /\ r - 1 + i > 1
                                                 /\ used_desc'[i] = used_desc[r - 1 + i]
                                                 /\ \A b \in Desc : BeforeIn(used_desc, used_desc'[i], b)
                                                      => BeforeIn(used_desc', used_desc'[i], b) /\ desc'[b].cookie = desc[b].cookie
    BY <1>0, <1>8, <2>1, CleanOpen
  \* The parts of an open transaction.
  <2>4. ASSUME NEW k \in (completed_cookie + 1)..cookie, NEW q \in 1..parts[k]
        PROVE  \/ <<k, q>> \in executed
               \/ \E a, b \in Desc : BeforeIn(used_desc, a, b) /\ desc[a].part = <<k, q>> /\ desc[b].cookie = k
    BY <1>0, <2>0 DEF OpenInv, Before
  <2>5. ASSUME NEW k \in (completed_cookie + 1)..completed_cookie', NEW q \in 1..parts[k] PROVE <<k, q>> \in executed
    <3>1. k \in (completed_cookie + 1)..cookie /\ k # 0 /\ k <= completed_cookie'
      BY <1>1, <2>1
    <3>2. ASSUME NEW a \in Desc, NEW b \in Desc, BeforeIn(used_desc, a, b), desc[a].part = <<k, q>>, desc[b].cookie = k
          PROVE  <<k, q>> \in executed
      <4>1. BeforeIn(used_desc, a, phys)
        BY <2>3, <3>1, <3>2
      <4>2. QED
        BY <2>3, <3>2, <4>1
    <3>3. QED
      BY <2>4, <2>5, <3>1, <3>2
  <2>6. ASSUME NEW k \in (completed_cookie' + 1)..cookie, NEW q \in 1..parts[k]
        PROVE  \/ <<k, q>> \in executed
               \/ \E a, b \in Desc : BeforeIn(used_desc', a, b) /\ desc'[a].part = <<k, q>> /\ desc'[b].cookie = k
    <3>1. k \in (completed_cookie + 1)..cookie /\ k # 0 /\ k > completed_cookie'
      <4>1. \A x, y, z \in Nat : x <= y => \A i \in (y + 1)..z : i \in (x + 1)..z /\ i # 0 /\ i > y
        OBVIOUS
      <4>2. QED
        BY <1>1, <2>1, <4>1
    <3>2. ASSUME NEW a \in Desc, NEW b \in Desc, BeforeIn(used_desc, a, b), desc[a].part = <<k, q>>, desc[b].cookie = k
          PROVE  \/ <<k, q>> \in executed
                 \/ BeforeIn(used_desc', a, b) /\ desc'[a].part = <<k, q>> /\ desc'[b].cookie = k
      <4>1. \/ BeforeIn(used_desc, a, phys)
            \/ BeforeIn(used_desc', a, b) /\ desc'[b].cookie = desc[b].cookie
        BY <2>3, <3>1, <3>2
      <4>2. QED
        BY <2>2, <2>3, <3>2, <4>1
    <3>3. QED
      BY <2>4, <2>6, <3>1, <3>2
  <2>7. ASSUME NEW i \in DOMAIN used_desc', i > 1
        PROVE  \E b \in Desc : BeforeIn(used_desc', used_desc'[i], b) /\ desc'[b].cookie = desc'[used_desc'[i]].part[1]
    <3>1. r - 1 + i \in DOMAIN used_desc /\ r - 1 + i > 1 /\ used_desc'[i] = used_desc[r - 1 + i]
      BY <2>3, <2>7
    <3>2. used_desc'[i] \in Desc
      BY <1>1, <3>1, UsedType
    <3>3. PICK b \in Desc : BeforeIn(used_desc, used_desc'[i], b) /\ desc[b].cookie = desc[used_desc'[i]].part[1]
      BY <1>0, <2>0, <3>1 DEF OpenInv, Before
    <3>4. BeforeIn(used_desc', used_desc'[i], b) /\ desc'[b].cookie = desc[b].cookie
      BY <2>3, <2>7, <3>3
    <3>5. QED
      BY <2>2, <3>2, <3>3, <3>4
  <2>8. CompletedMeansCopied'
    <3>1. \A k \in 1..completed_cookie' : k \in 1..completed_cookie \/ k \in (completed_cookie + 1)..completed_cookie'
      BY <1>1, <2>1
    <3>2. QED
      BY <1>0, <2>2, <2>5, <3>1 DEF CompletedMeansCopied
  <2>9. OpenInv'
    BY <1>p, <2>2, <2>6, <2>7 DEF OpenInv, Before
  <2>10. QED
    BY <2>8, <2>9
<1>9. QED
  BY <1>0, <1>2, <1>3, <1>4, <1>5, <1>6, <1>7, <1>8, CopyKinds

\* The engine works on a copy whose cookie is still to come, or on the null descriptor.
LEMMA CopyOpen == SteadyInv /\ CopyInv => NoCopyAfterCompletion
<1> SUFFICES ASSUME SteadyInv, CopyInv, hw_state = "run"
             PROVE  desc[hw_cur].part[1] = 0 \/ desc[hw_cur].part[1] > completed_cookie
  BY DEF NoCopyAfterCompletion
<1>0. ListInv /\ CookieInv /\ GoesOn /\ OpenInv
  BY DEF SteadyInv, CopyInv
<1>1. Up
  BY <1>0 DEF ListInv, DownInv, Up
<1>2. /\ used_desc \in Seq(Desc) /\ Distinct(used_desc) /\ TypeOK /\ completed_cookie \in Nat
      /\ InOrder(Ck, completed_cookie, cookie)
  BY <1>0, <1>1, CookieFacts, OneListIs DEF ListInv, TypeOK, OneList, Up
<1>3. Len(used_desc) \in Nat /\ DOMAIN used_desc = 1..Len(used_desc) /\ \A i \in DOMAIN used_desc : used_desc[i] \in Desc /\ used_desc[i] # 0
  BY <1>2, UsedType
<1>4. CASE hw_last = 0
  BY <1>0, <1>1, <1>4 DEF GoesOn
<1>5. CASE hw_last # 0
  <2>1. PICK j \in DOMAIN used_desc : j + 1 \in DOMAIN used_desc /\ used_desc[j + 1] = hw_cur
    BY <1>0, <1>1, <1>5 DEF GoesOn, NextTo
  <2>2. j + 1 > 1
    BY <1>3, <2>1
  <2>3. PICK b \in Desc : Before(hw_cur, b) /\ desc[b].cookie = desc[hw_cur].part[1]
    BY <1>0, <1>1, <2>1, <2>2 DEF OpenInv
  <2>4. PICK l \in DOMAIN used_desc : used_desc[l] = b
    BY <1>3, <2>1, <2>3 DEF Before, BeforeIn
  <2>5. Ck[l] # 0 => Ck[l] \in (completed_cookie + 1)..cookie
    <3>1. DOMAIN Ck = DOMAIN used_desc
      BY DEF Ck
    <3>2. QED
      BY <1>2, <3>1 DEF InOrder
  <2>6. Ck[l] = desc[hw_cur].part[1]
    BY <2>3, <2>4 DEF Ck
  <2>7. Ck[l] = 0 \/ Ck[l] > completed_cookie
    BY <1>2, <2>5
  <2>8. QED
    BY <2>6, <2>7
<1>6. QED
  BY <1>4, <1>5

\* The invariant of the copies.
LEMMA CopySafe ==
  ASSUME Healthy
  PROVE  Spec => [](SteadyInv /\ CopyInv)
<1> DEFINE I == SteadyInv /\ CopyInv
<1>1. Init => I
  <2> SUFFICES ASSUME Init PROVE CopyInv
    BY SteadyStart
  <2>1. desccount = 0 /\ cookie = 0 /\ completed_cookie = 0 /\ parts = <<>>
    BY DEF Init
  <2>2. Len(parts) = 0 /\ \A k : k \notin 1..0
    BY <2>1
  <2>3. QED
    BY <2>1, <2>2 DEF CopyInv, GoesOn, Passed, OpenInv, CompletedMeansCopied, Up
<1>2. I /\ [Next]_vars => I'
  <2> SUFFICES ASSUME I, [Next]_vars PROVE I'
    OBVIOUS
  <2>1. SteadyInv'
    BY SteadyStep
  <2>2. GoesOn' /\ Passed'
    BY GoesOnStep, PassedStep DEF SteadyInv, CopyInv
  <2>3. OpenInv' /\ CompletedMeansCopied'
    BY OpenStep
  <2>4. QED
    BY <2>1, <2>2, <2>3 DEF CopyInv
<1>3. QED
  BY <1>1, <1>2, PTL DEF Spec

\* With a healthy engine a transaction is completed, in the eyes of dma_sync_wait, only when
\* the engine has made all its copies (dma.c:__cleanup, ioat_cleanup_preamble).
THEOREM CopiesDone ==
  ASSUME Healthy
  PROVE  Spec => []CompletedMeansCopied
<1>1. SteadyInv /\ CopyInv => CompletedMeansCopied
  BY DEF CopyInv
<1>2. QED
  BY <1>1, CopySafe, PTL

\* Nor does the engine then start on a copy of a transaction that is completed, whose pages
\* may have been released, however descriptors are recycled.
THEOREM NoneLate ==
  ASSUME Healthy
  PROVE  Spec => []NoCopyAfterCompletion
<1>1. SteadyInv /\ CopyInv => NoCopyAfterCompletion
  BY CopyOpen
<1>2. QED
  BY <1>1, CopySafe, PTL
=============================================================================
