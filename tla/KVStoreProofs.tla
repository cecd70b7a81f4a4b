------------------------------ MODULE KVStoreProofs ---------------------------
(***************************************************************************)
(* For any number of keys, any capacity and any clock: map and list of the *)
(* cache agree, start-up ends, and the cache is a least-recently-used one. *)
(***************************************************************************)
EXTENDS KVStore, SequenceTheorems, FiniteSetTheorems, TLAPS

Elems(s) == {s[i] : i \in 1..Len(s)}
Shorter(s) == SubSeq(s, 1, Len(s) - 1)
LastOf(s) == s[Len(s)]
Distinct(s) == \A i, j \in 1..Len(s) : s[i] = s[j] => i = j

-----------------------------------------------------------------------------
(* The places of a set of positions, counted from the first *)
Rank(P, p) == Cardinality({m \in P : m <= p})

LEMMA Less ==
    ASSUME NEW a \in Nat, NEW b \in Nat, a <= b, a # b
    PROVE  a < b
OBVIOUS

LEMMA OneTo ==
    ASSUME NEW a \in Nat, NEW b \in Nat, a <= b, a # 0
    PROVE  a \in 1..b
OBVIOUS

LEMMA RankOrder ==
    ASSUME NEW n \in Nat, NEW P \in SUBSET (1..n)
    PROVE  /\ IsFiniteSet(P) /\ Cardinality(P) \in Nat /\ \A p \in P : p \in Nat
           /\ \A p \in P : Rank(P, p) \in 1..Cardinality(P)
           /\ \A p, q \in P : p < q => Rank(P, p) < Rank(P, q)
<1>1. IsFiniteSet(P) /\ Cardinality(P) \in Nat /\ \A p \in P : p \in Nat
  <2>1. IsFiniteSet(1..n)
    BY FS_Interval
  <2>2. IsFiniteSet(P)
    BY <2>1, FS_Subset
  <2> QED BY <2>2, FS_CardinalityType
<1>2. ASSUME NEW p \in P
      PROVE  /\ IsFiniteSet({m \in P : m <= p}) /\ Rank(P, p) \in Nat /\ Rank(P, p) <= Cardinality(P)
             /\ Rank(P, p) # 0
  <2>1. IsFiniteSet({m \in P : m <= p}) /\ Rank(P, p) <= Cardinality(P)
    BY <1>1, FS_Subset DEF Rank
  <2>2. p \in {m \in P : m <= p}
    OBVIOUS
  <2> QED BY <2>1, <2>2, FS_EmptySet, FS_CardinalityType DEF Rank
<1>3. ASSUME NEW p \in P, NEW q \in P, p < q PROVE Rank(P, p) < Rank(P, q)
  <2> DEFINE A == {m \in P : m <= p}
             B == {m \in P : m <= q}
  <2>1. A \in SUBSET B /\ q \in B /\ q \notin A
    <3>1. p \in Nat /\ q \in Nat /\ \A m \in P : m \in Nat
      BY <1>1
    <3>2. \A m \in P : m <= p => m <= q
      BY <1>3, <3>1
    <3>3. q <= q /\ ~(q <= p)
      BY <1>3, <3>1
    <3> QED BY <3>2, <3>3
  <2>2. IsFiniteSet(B) /\ Rank(P, p) \in Nat /\ Rank(P, q) \in Nat
    BY <1>2
  <2>3. Rank(P, p) = Cardinality(A) /\ Rank(P, q) = Cardinality(B)
    BY DEF Rank
  <2> HIDE DEF A, B
  <2>4. Rank(P, p) <= Rank(P, q) /\ Rank(P, p) # Rank(P, q)
    BY <2>1, <2>2, <2>3, FS_Subset
  <2> QED BY <2>2, <2>4, Less
<1>4. \A p \in P : Rank(P, p) \in 1..Cardinality(P)
  BY <1>1, <1>2, OneTo
<1> QED BY <1>1, <1>3, <1>4

LEMMA NthFacts ==
    ASSUME NEW n \in Nat, NEW P \in SUBSET (1..n)
    PROVE  /\ Cardinality(P) \in Nat
           /\ \A j \in 1..Cardinality(P) : Nth(P, j) \in P
           /\ \A i, j \in 1..Cardinality(P) : i < j => Nth(P, i) < Nth(P, j)
           /\ \A p \in P : \E j \in 1..Cardinality(P) : Nth(P, j) = p
<1>1. /\ IsFiniteSet(P) /\ Cardinality(P) \in Nat
      /\ \A p \in P : Rank(P, p) \in 1..Cardinality(P)
      /\ \A p, q \in P : p < q => Rank(P, p) < Rank(P, q)
      /\ \A p \in P : p \in Nat
  BY RankOrder
<1>2. \A p, q \in P : Rank(P, p) = Rank(P, q) => p = q
  <2> SUFFICES ASSUME NEW p \in P, NEW q \in P, Rank(P, p) = Rank(P, q), p # q PROVE FALSE
    OBVIOUS
  <2>1. p < q \/ q < p
    OBVIOUS
  <2> QED BY <1>1, <2>1
<1>3. \A j \in 1..Cardinality(P) : \E p \in P : Rank(P, p) = j
  <2> DEFINE f == [p \in P |-> Rank(P, p)]
  <2>1. f \in Injection(P, 1..Cardinality(P))
    BY <1>1, <1>2 DEF Injection, IsInjective
  <2>2. IsFiniteSet(1..Cardinality(P)) /\ Cardinality(1..Cardinality(P)) = Cardinality(P)
    BY <1>1, FS_Interval
  <2>3. f \in Surjection(P, 1..Cardinality(P))
    BY <2>1, <2>2, FS_Injection
  <2> QED BY <2>3 DEF Surjection
<1>4. \A j \in 1..Cardinality(P) : Nth(P, j) \in P /\ Rank(P, Nth(P, j)) = j
  BY <1>3 DEF Nth, Rank
<1>5. \A p \in P : Nth(P, Rank(P, p)) = p
  BY <1>1, <1>2, <1>4
<1>6. ASSUME NEW i \in 1..Cardinality(P), NEW j \in 1..Cardinality(P), i < j PROVE Nth(P, i) < Nth(P, j)
  <2>1. Nth(P, i) \in P /\ Nth(P, j) \in P /\ Rank(P, Nth(P, i)) = i /\ Rank(P, Nth(P, j)) = j
    BY <1>4
  <2>2. CASE Nth(P, j) < Nth(P, i)
    <3>1. j < i
      BY <1>1, <2>1, <2>2
    <3> QED BY <1>6, <3>1
  <2>3. CASE Nth(P, i) = Nth(P, j)
    BY <1>6, <2>1, <2>3
  <2>4. Nth(P, i) \in Nat /\ Nth(P, j) \in Nat
    BY <1>1, <2>1
  <2> QED BY <2>2, <2>3, <2>4
<1> QED BY <1>1, <1>4, <1>5, <1>6

(* Kept takes keys out and changes nothing else. *)
LEMMA KeptFacts ==
    ASSUME NEW S, NEW s \in Seq(S), Distinct(s), NEW K
    PROVE  /\ Kept(s, K) \in Seq(S) /\ Distinct(Kept(s, K))
           /\ Elems(Kept(s, K)) = Elems(s) \cap K
           /\ \A a, b : Before(Kept(s, K), a, b) <=> Before(s, a, b) /\ a \in K /\ b \in K
<1> DEFINE P == {i \in 1..Len(s) : s[i] \in K}
           n == Cardinality(P)
           t == Kept(s, K)
<1>1. /\ n \in Nat /\ \A j \in 1..n : Nth(P, j) \in P
      /\ \A i, j \in 1..n : i < j => Nth(P, i) < Nth(P, j)
      /\ \A p \in P : \E j \in 1..n : Nth(P, j) = p
  <2>1. Len(s) \in Nat /\ P \in SUBSET (1..Len(s))
    OBVIOUS
  <2> QED BY <2>1, NthFacts
<1>2. t = [j \in 1..n |-> s[Nth(P, j)]]
  BY DEF Kept
<1>3. \A p \in P : p \in 1..Len(s) /\ s[p] \in K /\ s[p] \in S
  OBVIOUS
<1>4. \A i \in 1..Len(s) : s[i] \in K => i \in P
  OBVIOUS
<1> HIDE DEF P, n, t
<1>5. t \in Seq(S) /\ Len(t) = n /\ \A j \in 1..n : t[j] = s[Nth(P, j)]
  <2>1. t \in [1..n -> S]
    BY <1>1, <1>2, <1>3
  <2> QED BY <1>1, <1>2, <2>1, SeqDef
<1>6. Distinct(t)
  <2> SUFFICES ASSUME NEW i \in 1..n, NEW j \in 1..n, t[i] = t[j], i # j PROVE FALSE
    BY <1>5 DEF Distinct
  <2>1. Nth(P, i) = Nth(P, j)
    BY <1>1, <1>3, <1>5 DEF Distinct
  <2>2. i < j \/ j < i
    BY <1>1
  <2>3. Nth(P, i) \in Nat /\ Nth(P, j) \in Nat
    BY <1>1, <1>3
  <2> QED BY <1>1, <2>1, <2>2, <2>3
<1>7. Elems(t) = Elems(s) \cap K
  <2>1. ASSUME NEW x \in Elems(t) PROVE x \in Elems(s) \cap K
    BY <1>1, <1>3, <1>5 DEF Elems
  <2>2. ASSUME NEW x \in Elems(s) \cap K PROVE x \in Elems(t)
    <3>1. PICK i \in 1..Len(s) : s[i] = x
      BY DEF Elems
    <3>2. PICK j \in 1..n : Nth(P, j) = i
      BY <1>1, <1>4, <3>1
    <3> QED BY <1>5, <3>1, <3>2 DEF Elems
  <2> QED BY <2>1, <2>2
<1>8. ASSUME NEW a, NEW b, Before(t, a, b) PROVE Before(s, a, b) /\ a \in K /\ b \in K
  <2>1. PICK i, j \in 1..n : i < j /\ t[i] = a /\ t[j] = b
    BY <1>5, <1>8 DEF Before
  <2>2. Nth(P, i) \in 1..Len(s) /\ Nth(P, j) \in 1..Len(s) /\ Nth(P, i) < Nth(P, j)
    BY <1>1, <1>3, <2>1
  <2>3. s[Nth(P, i)] = a /\ s[Nth(P, j)] = b /\ a \in K /\ b \in K
    BY <1>1, <1>3, <1>5, <2>1
  <2> QED BY <2>2, <2>3 DEF Before
<1>9. ASSUME NEW a \in K, NEW b \in K, Before(s, a, b) PROVE Before(t, a, b)
  <2>1. PICK i, j \in 1..Len(s) : i < j /\ s[i] = a /\ s[j] = b
    BY <1>9 DEF Before
  <2>2. PICK p, q \in 1..n : Nth(P, p) = i /\ Nth(P, q) = j
    BY <1>1, <1>4, <2>1
  <2>3. p < q
    <3>1. CASE q < p
      BY <1>1, <2>1, <2>2, <3>1
    <3>2. CASE q = p
      BY <2>1, <2>2, <3>2
    <3> QED BY <1>1, <3>1, <3>2
  <2> QED BY <1>5, <2>1, <2>2, <2>3 DEF Before
<1> QED BY <1>5, <1>6, <1>7, <1>8, <1>9 DEF t

LEMMA ConsFacts ==
    ASSUME NEW S, NEW s \in Seq(S), Distinct(s), NEW k \in S, k \notin Elems(s), NEW t, t = <<k>> \o s
    PROVE  /\ t \in Seq(S) /\ Distinct(t) /\ Len(t) = Len(s) + 1 /\ Elems(t) = {k} \cup Elems(s)
           /\ \A a, b : Before(t, a, b) <=> (a = k /\ b \in Elems(s)) \/ Before(s, a, b)
<1>1. t \in Seq(S) /\ Len(s) \in Nat /\ Len(t) = Len(s) + 1
  OBVIOUS
<1>2. t[1] = k /\ \A i \in 1..Len(s) : i + 1 \in 2..Len(t) /\ t[i + 1] = s[i]
  BY <1>1
<1>3. ASSUME NEW i \in 1..Len(t) PROVE i = 1 \/ (i - 1 \in 1..Len(s) /\ t[i] = s[i - 1])
  <2>1. i = 1 \/ (i - 1 \in 1..Len(s) /\ (i - 1) + 1 = i)
    BY <1>1
  <2> QED BY <1>2, <2>1
<1>4. Elems(t) = {k} \cup Elems(s)
  <2>1. ASSUME NEW x \in Elems(t) PROVE x \in {k} \cup Elems(s)
    <3>1. PICK i \in 1..Len(t) : t[i] = x
      BY DEF Elems
    <3>2. CASE i = 1
      BY <1>2, <3>1, <3>2
    <3>3. CASE i # 1
      <4>1. i - 1 \in 1..Len(s) /\ s[i - 1] = x
        BY <1>3, <3>1, <3>3
      <4> QED BY <4>1 DEF Elems
    <3> QED BY <3>2, <3>3
  <2>2. ASSUME NEW x \in {k} \cup Elems(s) PROVE x \in Elems(t)
    <3>1. CASE x = k
      <4>1. 1 \in 1..Len(t) /\ t[1] = x
        BY <1>1, <1>2, <3>1
      <4> QED BY <4>1 DEF Elems
    <3>2. CASE x # k
      <4>1. PICK i \in 1..Len(s) : s[i] = x
        BY <3>2 DEF Elems
      <4>2. i + 1 \in 1..Len(t) /\ t[i + 1] = x
        BY <1>1, <1>2, <4>1
      <4> QED BY <4>2 DEF Elems
    <3> QED BY <3>1, <3>2
  <2> QED BY <2>1, <2>2
<1>5. Distinct(t)
  <2> SUFFICES ASSUME NEW i \in 1..Len(t), NEW j \in 1..Len(t), t[i] = t[j] PROVE i = j
    BY DEF Distinct
  <2>1. \A x \in 1..Len(s) : s[x] # k
    BY DEF Elems
  <2>2. CASE i = 1 /\ j = 1
    BY <2>2
  <2>3. CASE i - 1 \in 1..Len(s) /\ j - 1 \in 1..Len(s)
    <3>1. s[i - 1] = s[j - 1]
      BY <1>2, <1>3, <2>3
    <3> QED BY <2>3, <3>1 DEF Distinct
  <2> QED BY <1>2, <1>3, <2>1, <2>2, <2>3
<1>6. ASSUME NEW a, NEW b, Before(t, a, b) PROVE (a = k /\ b \in Elems(s)) \/ Before(s, a, b)
  <2>1. PICK i, j \in 1..Len(t) : i < j /\ t[i] = a /\ t[j] = b
    BY <1>6 DEF Before
  <2>2. j - 1 \in 1..Len(s) /\ s[j - 1] = b
    BY <1>1, <1>3, <2>1
  <2>3. CASE i = 1
    BY <1>2, <2>1, <2>2, <2>3 DEF Elems
  <2>4. CASE i # 1
    <3>1. i - 1 \in 1..Len(s) /\ s[i - 1] = a /\ i - 1 < j - 1
      BY <1>3, <2>1, <2>4
    <3> QED BY <2>2, <3>1 DEF Before
  <2> QED BY <2>3, <2>4
<1>7. ASSUME NEW b \in Elems(s) PROVE Before(t, k, b)
  <2>1. PICK j \in 1..Len(s) : s[j] = b
    BY DEF Elems
  <2>2. j + 1 \in 1..Len(t) /\ t[j + 1] = b /\ 1 < j + 1 /\ 1 \in 1..Len(t)
    BY <1>1, <1>2, <2>1
  <2> QED BY <1>2, <2>2 DEF Before
<1>8. ASSUME NEW a, NEW b, Before(s, a, b) PROVE Before(t, a, b)
  <2>1. PICK i, j \in 1..Len(s) : i < j /\ s[i] = a /\ s[j] = b
    BY <1>8 DEF Before
  <2>2. i + 1 \in 1..Len(t) /\ j + 1 \in 1..Len(t) /\ i + 1 < j + 1 /\ t[i + 1] = a /\ t[j + 1] = b
    BY <1>1, <1>2, <2>1
  <2> QED BY <2>2 DEF Before
<1> QED BY <1>1, <1>4, <1>5, <1>6, <1>7, <1>8

LEMMA Prefix ==
    ASSUME NEW S, NEW s \in Seq(S), NEW m \in Nat, Len(s) = m + 1
    PROVE  /\ SubSeq(s, 1, m) \in Seq(S) /\ Len(SubSeq(s, 1, m)) = m
           /\ \A i \in 1..m : SubSeq(s, 1, m)[i] = s[i]
<1>1. \A i \in 1..m : s[i] \in S
  OBVIOUS
<1>2. SubSeq(s, 1, m) \in Seq(S)
  BY <1>1, SubSeqProperties
<1>3. Len(SubSeq(s, 1, m)) = m
  <2>1. CASE m = 0
    BY <2>1, SubSeqEmpty, EmptySeq
  <2>2. CASE m # 0
    <3>1. 1 <= m /\ m - 1 + 1 = m
      BY <2>2
    <3> QED BY <1>1, <3>1, SubSeqProperties
  <2> QED BY <2>1, <2>2
<1>4. \A i \in 1..m : SubSeq(s, 1, m)[i] = s[i]
  OBVIOUS
<1> QED BY <1>2, <1>3, <1>4

LEMMA ButLastFacts ==
    ASSUME NEW S, NEW s \in Seq(S), Distinct(s), s # <<>>
    PROVE  /\ Shorter(s) \in Seq(S) /\ Distinct(Shorter(s)) /\ LastOf(s) \in Elems(s)
           /\ Elems(Shorter(s)) = Elems(s) \ {LastOf(s)}
           /\ \A a, b : Before(Shorter(s), a, b) <=> Before(s, a, b) /\ b # LastOf(s)
           /\ \A a \in Elems(Shorter(s)) : Before(s, a, LastOf(s))
           /\ \A a : ~Before(s, LastOf(s), a)
<1> DEFINE t == Shorter(s)
<1>1. /\ Len(s) \in Nat \ {0} /\ t \in Seq(S) /\ Len(t) = Len(s) - 1
      /\ \A i \in 1..Len(t) : i \in 1..Len(s) /\ i # Len(s) /\ t[i] = s[i]
  <2>1. Len(s) \in Nat \ {0}
    BY EmptySeq
  <2>2. PICK m \in Nat : m = Len(s) - 1 /\ Len(s) = m + 1
    BY <2>1
  <2>3. t = SubSeq(s, 1, m)
    BY <2>2 DEF Shorter
  <2>4. t \in Seq(S) /\ Len(t) = m /\ \A i \in 1..m : t[i] = s[i]
    BY <2>2, <2>3, Prefix
  <2> QED BY <2>1, <2>2, <2>4
<1> HIDE DEF t
<1>2. \A i \in 1..Len(s) : i = Len(s) \/ i \in 1..Len(t)
  BY <1>1
<1>3. Distinct(t)
  BY <1>1 DEF Distinct
<1>4. s[Len(s)] \in Elems(s) /\ \A i \in 1..Len(s) : s[i] = s[Len(s)] => i = Len(s)
  BY <1>1 DEF Elems, Distinct
<1>5. Elems(t) = Elems(s) \ {s[Len(s)]}
  <2>1. ASSUME NEW x \in Elems(t) PROVE x \in Elems(s) \ {s[Len(s)]}
    BY <1>1, <1>4 DEF Elems
  <2>2. ASSUME NEW x \in Elems(s) \ {s[Len(s)]} PROVE x \in Elems(t)
    <3>1. PICK i \in 1..Len(s) : s[i] = x
      BY DEF Elems
    <3> QED BY <1>1, <1>2, <3>1 DEF Elems
  <2> QED BY <2>1, <2>2
<1>6. ASSUME NEW a, NEW b, Before(t, a, b) PROVE Before(s, a, b) /\ b # s[Len(s)]
  <2>1. PICK i, j \in 1..Len(t) : i < j /\ t[i] = a /\ t[j] = b
    BY <1>6 DEF Before
  <2> QED BY <1>1, <1>4, <2>1 DEF Before
<1>7. ASSUME NEW a, NEW b, Before(s, a, b), b # s[Len(s)] PROVE Before(t, a, b)
  <2>1. PICK i, j \in 1..Len(s) : i < j /\ s[i] = a /\ s[j] = b
    BY <1>7 DEF Before
  <2>2. j \in 1..Len(t) /\ i \in 1..Len(t)
    BY <1>1, <1>2, <1>7, <2>1
  <2> QED BY <1>1, <2>1, <2>2 DEF Before
<1>8. ASSUME NEW a \in Elems(t) PROVE Before(s, a, s[Len(s)])
  <2>1. PICK i \in 1..Len(t) : t[i] = a
    BY DEF Elems
  <2>2. i \in 1..Len(s) /\ Len(s) \in 1..Len(s) /\ i < Len(s) /\ s[i] = a
    BY <1>1, <2>1
  <2> QED BY <2>2 DEF Before
<1>9. ASSUME NEW a, Before(s, s[Len(s)], a) PROVE FALSE
  <2>1. PICK i, j \in 1..Len(s) : i < j /\ s[i] = s[Len(s)] /\ s[j] = a
    BY <1>9 DEF Before
  <2> QED BY <1>4, <2>1
<1> QED BY <1>1, <1>3, <1>4, <1>5, <1>6, <1>7, <1>8, <1>9 DEF t, LastOf

LEMMA DistinctLength ==
    ASSUME NEW S, NEW s \in Seq(S), Distinct(s)
    PROVE  IsFiniteSet(Elems(s)) /\ Cardinality(Elems(s)) = Len(s)
<1> DEFINE f == [i \in 1..Len(s) |-> s[i]]
<1>1. Len(s) \in Nat /\ IsFiniteSet(1..Len(s)) /\ Cardinality(1..Len(s)) = Len(s)
  <2>1. Len(s) \in Nat
    OBVIOUS
  <2>2. IsFiniteSet(1..Len(s)) /\ Cardinality(1..Len(s)) = IF 1 > Len(s) THEN 0 ELSE Len(s) - 1 + 1
    BY <2>1, FS_Interval
  <2> QED BY <2>1, <2>2
<1>2. f \in Bijection(1..Len(s), Elems(s))
  <2>1. f \in [1..Len(s) -> Elems(s)]
    BY DEF Elems
  <2>2. \A i, j \in 1..Len(s) : f[i] = f[j] => i = j
    BY DEF Distinct
  <2>3. \A x \in Elems(s) : \E i \in 1..Len(s) : f[i] = x
    BY DEF Elems
  <2> HIDE DEF f
  <2> QED BY <2>1, <2>2, <2>3 DEF Bijection, Injection, Surjection, IsInjective
<1>3. ExistsBijection(1..Len(s), Elems(s))
  BY <1>2 DEF ExistsBijection
<1> QED BY <1>1, <1>3, FS_Bijection

-----------------------------------------------------------------------------
(* Map and list *)
ContentsInv ==
    /\ Cached \subseteq Keys /\ store \in [Cached -> Entries]
    /\ access_order \in Seq(Keys) /\ used \in Keys \cup {NoTask}
    /\ Elems(access_order) = Cached /\ Distinct(access_order)
    /\ Cardinality(Cached) <= Capacity
ThreadsInv ==
    /\ now \in 0..MaxTime
    /\ task_queue \in Seq(Keys \X Values)
    /\ worker \in {"testing", "asleep", "running"}
    /\ task \in (Keys \X Values) \cup {NoTask} /\ (worker = "running" => task # NoTask)
    /\ notifying \in 0..MaxQueue
    /\ DOMAIN file \subseteq Keys /\ file \in [DOMAIN file -> Entries]
    /\ phase \in {"starting", "serving"}
UsedAfter == {p \in Cached \X Cached : Before(access_order, p[1], p[2])}

LEMMA CachedFinite ==
    ASSUME ContentsInv
    PROVE  /\ IsFiniteSet(Cached) /\ Cardinality(Cached) \in Nat
           /\ \A K \in SUBSET Cached :
                 IsFiniteSet(K) /\ Cardinality(K) \in Nat /\ Cardinality(K) <= Cardinality(Cached)
<1>1. IsFiniteSet(Cached)
  BY KVAssumption, FS_Subset DEF ContentsInv
<1>2. ASSUME NEW K \in SUBSET Cached
      PROVE  IsFiniteSet(K) /\ Cardinality(K) \in Nat /\ Cardinality(K) <= Cardinality(Cached)
  BY <1>1, FS_Subset, FS_CardinalityType
<1> QED BY <1>1, <1>2, FS_CardinalityType

LEMMA FrontFacts ==
    ASSUME ContentsInv, NEW k \in Keys
    PROVE  /\ Front(k) \in Seq(Keys) /\ Distinct(Front(k)) /\ Elems(Front(k)) = Cached \cup {k}
           /\ Front(k) # <<>>
           /\ \A a, b : Before(Front(k), a, b) <=>
                 \/ a = k /\ b \in Cached \ {k}
                 \/ Before(access_order, a, b) /\ a \in Cached \ {k} /\ b \in Cached \ {k}
<1> DEFINE rest == Kept(access_order, Cached \ {k})
<1>1. /\ rest \in Seq(Keys) /\ Distinct(rest) /\ Elems(rest) = Cached \ {k}
      /\ \A a, b : Before(rest, a, b) <=> Before(access_order, a, b) /\ a \in Cached \ {k} /\ b \in Cached \ {k}
  BY KeptFacts DEF ContentsInv
<1>2. Front(k) = <<k>> \o rest /\ k \notin Elems(rest)
  BY <1>1 DEF Front
<1> HIDE DEF rest
<1>3. /\ Front(k) \in Seq(Keys) /\ Distinct(Front(k)) /\ Len(Front(k)) = Len(rest) + 1
      /\ Elems(Front(k)) = {k} \cup Elems(rest)
      /\ \A a, b : Before(Front(k), a, b) <=> (a = k /\ b \in Elems(rest)) \/ Before(rest, a, b)
  BY <1>1, <1>2, ConsFacts
<1>4. Front(k) # <<>>
  <2>1. k \in Elems(Front(k)) /\ Elems(<<>>) = {}
    BY <1>3 DEF Elems
  <2> QED BY <2>1
<1> QED BY <1>1, <1>3, <1>4

LEMMA DiscardStep ==
    ASSUME ContentsInv, NEW K \in SUBSET Keys, Discard(K)
    PROVE  ContentsInv' /\ LRU!Remove(K)
<1>1. /\ Cached' = Cached \ K /\ store' \in [Cached' -> Entries] /\ used' = used
      /\ access_order' = Kept(access_order, Cached \ K)
  BY DEF Discard, Only, ContentsInv, Cached
<1>2. /\ access_order' \in Seq(Keys) /\ Distinct(access_order')
      /\ Elems(access_order') = Elems(access_order) \cap (Cached \ K)
      /\ \A a, b : Before(access_order', a, b) <=>
            Before(access_order, a, b) /\ a \in Cached \ K /\ b \in Cached \ K
  BY <1>1, KeptFacts DEF ContentsInv
<1>3. Cardinality(Cached') <= Capacity
  <2>1. Cardinality(Cached') \in Nat /\ Cardinality(Cached') <= Cardinality(Cached) /\ Cardinality(Cached) \in Nat
    BY <1>1, CachedFinite
  <2> QED BY <2>1, KVAssumption DEF ContentsInv
<1>4. ContentsInv'
  BY <1>1, <1>2, <1>3 DEF ContentsInv, Elems, Distinct
<1>5. UsedAfter' = {p \in UsedAfter : p[1] \in Cached' /\ p[2] \in Cached'}
  BY <1>1, <1>2 DEF UsedAfter
<1> QED BY <1>1, <1>4, <1>5 DEF LRU!Remove, LRU!Among, UsedAfter

LEMMA HitStep ==
    ASSUME ContentsInv, NEW k \in Keys, GetHit(k)
    PROVE  ContentsInv' /\ LRU!Touch(k)
<1>1. k \in Cached /\ UNCHANGED store /\ access_order' = Front(k) /\ used' = k /\ Cached' = Cached
  BY DEF GetHit, Cached
<1>2. /\ access_order' \in Seq(Keys) /\ Distinct(access_order') /\ Elems(access_order') = Cached
      /\ \A a, b : Before(access_order', a, b) <=>
            \/ a = k /\ b \in Cached \ {k}
            \/ Before(access_order, a, b) /\ a \in Cached \ {k} /\ b \in Cached \ {k}
  <2>1. Cached \cup {k} = Cached
    BY <1>1
  <2>2. /\ Front(k) \in Seq(Keys) /\ Distinct(Front(k)) /\ Elems(Front(k)) = Cached
        /\ \A a, b : Before(Front(k), a, b) <=>
              \/ a = k /\ b \in Cached \ {k}
              \/ Before(access_order, a, b) /\ a \in Cached \ {k} /\ b \in Cached \ {k}
    BY <2>1, FrontFacts
  <2> QED BY <1>1, <2>2
<1>3. ContentsInv'
  BY <1>1, <1>2 DEF ContentsInv, Elems, Distinct
<1>4. UsedAfter' = {p \in UsedAfter : p[1] \in Cached \ {k} /\ p[2] \in Cached \ {k}}
                   \cup {<<k, x>> : x \in Cached \ {k}}
  <2>1. ASSUME NEW p \in UsedAfter'
        PROVE  p \in {q \in UsedAfter : q[1] \in Cached \ {k} /\ q[2] \in Cached \ {k}}
                     \cup {<<k, x>> : x \in Cached \ {k}}
    BY <1>1, <1>2 DEF UsedAfter
  <2>2. ASSUME NEW p \in {q \in UsedAfter : q[1] \in Cached \ {k} /\ q[2] \in Cached \ {k}}
                         \cup {<<k, x>> : x \in Cached \ {k}}
        PROVE  p \in UsedAfter'
    BY <1>1, <1>2 DEF UsedAfter
  <2> QED BY <2>1, <2>2
<1> QED BY <1>1, <1>3, <1>4 DEF LRU!Touch, LRU!UsedNow, UsedAfter

LEMMA SameCount ==
    ASSUME NEW S
    PROVE  LRU!Cardinality(S) = Cardinality(S)
BY DEF LRU!Cardinality, Cardinality

(* A set in a store with room, or one that takes the place of the last key *)
LEMMA GrowStep ==
    ASSUME ContentsInv, NEW k \in Keys, NEW e \in Entries, used' = k, access_order' = Front(k),
           store' = [x \in Cached \cup {k} |-> IF x = k THEN e ELSE store[x]],
           Cardinality(Cached \cup {k}) <= Capacity
    PROVE  ContentsInv' /\ LRU!Put(k)
<1>1. Cached' = Cached \cup {k} /\ store' \in [Cached' -> Entries]
  BY DEF ContentsInv, Cached
<1>2. /\ access_order' \in Seq(Keys) /\ Distinct(access_order') /\ Elems(access_order') = Cached'
      /\ \A a, b : Before(access_order', a, b) <=>
            \/ a = k /\ b \in Cached' \ {k}
            \/ Before(access_order, a, b) /\ a \in Cached \ {k} /\ b \in Cached \ {k}
  BY <1>1, FrontFacts
<1>3. ContentsInv'
  BY <1>1, <1>2 DEF ContentsInv, Elems, Distinct
<1>4. UsedAfter' = {p \in UsedAfter : p[1] \in Cached' \ {k} /\ p[2] \in Cached' \ {k}}
                   \cup {<<k, x>> : x \in Cached' \ {k}}
  <2>1. ASSUME NEW p \in UsedAfter'
        PROVE  p \in {q \in UsedAfter : q[1] \in Cached' \ {k} /\ q[2] \in Cached' \ {k}}
                     \cup {<<k, x>> : x \in Cached' \ {k}}
    BY <1>1, <1>2 DEF UsedAfter
  <2>2. ASSUME NEW p \in {q \in UsedAfter : q[1] \in Cached' \ {k} /\ q[2] \in Cached' \ {k}}
                         \cup {<<k, x>> : x \in Cached' \ {k}}
        PROVE  p \in UsedAfter'
    BY <1>1, <1>2 DEF UsedAfter
  <2> QED BY <2>1, <2>2
<1>5. LRU!UsedNow(k, Cached') = UsedAfter'
  BY <1>4 DEF LRU!UsedNow, UsedAfter
<1> QED BY <1>1, <1>3, <1>5, SameCount DEF LRU!Put, UsedAfter

LEMMA ReplaceStep ==
    ASSUME ContentsInv, NEW k \in Keys, NEW e \in Entries, NEW order, order = Front(k),
           NEW last, last = LastOf(order),
           used' = k, access_order' = Shorter(order),
           store' = [x \in (Cached \cup {k}) \ {last} |-> IF x = k THEN e ELSE store[x]],
           ~(Cardinality(Cached \cup {k}) <= Capacity)
    PROVE  ContentsInv' /\ last \in Keys /\ LRU!PutInsteadOf(k, last)
<1>1. k \notin Cached /\ Cardinality(Cached) = Capacity /\ Capacity \in Nat \ {0}
  <2>1. IsFiniteSet(Cached) /\ Cardinality(Cached) \in Nat /\ Cardinality(Cached) <= Capacity /\ Capacity \in Nat \ {0}
    BY CachedFinite, KVAssumption DEF ContentsInv
  <2>2. Cardinality(Cached \cup {k}) = IF k \in Cached THEN Cardinality(Cached) ELSE Cardinality(Cached) + 1
    BY <2>1, FS_AddElement
  <2>3. k \notin Cached
    BY <2>1, <2>2
  <2>4. ~(Cardinality(Cached) + 1 <= Capacity)
    BY <2>2, <2>3
  <2> QED BY <2>1, <2>3, <2>4
<1>2. /\ access_order' \in Seq(Keys) /\ Distinct(access_order') /\ last \in Cached \cup {k}
      /\ Elems(access_order') = (Cached \cup {k}) \ {last}
      /\ \A a, b : Before(access_order', a, b) <=> Before(order, a, b) /\ b # last
      /\ \A a \in (Cached \cup {k}) \ {last} : Before(order, a, last)
      /\ \A a : ~Before(order, last, a)
  <2>1. order \in Seq(Keys) /\ Distinct(order) /\ Elems(order) = Cached \cup {k} /\ order # <<>>
    BY FrontFacts
  <2> QED BY <2>1, ButLastFacts
<1>3. \A a, b : Before(order, a, b) <=>
          \/ a = k /\ b \in Cached
          \/ Before(access_order, a, b) /\ a \in Cached /\ b \in Cached
  <2>1. Cached \ {k} = Cached
    BY <1>1
  <2> QED BY <2>1, FrontFacts
<1>4. last # k /\ last \in Cached
  <2>1. Cached # {}
    BY <1>1, FS_EmptySet
  <2>2. PICK x \in Cached : TRUE
    BY <2>1
  <2>3. Before(order, k, x)
    BY <1>3, <2>2
  <2> QED BY <1>2, <2>3
<1>5. Cached' = (Cached \cup {k}) \ {last} /\ store' \in [Cached' -> Entries]
  BY <1>4 DEF ContentsInv, Cached
<1>6. Cardinality(Cached') <= Capacity
  <2>1. IsFiniteSet(Cached \ {last}) /\ Cardinality(Cached \ {last}) = Cardinality(Cached) - 1
    BY <1>4, CachedFinite, FS_RemoveElement
  <2>2. Cached' = (Cached \ {last}) \cup {k} /\ k \notin Cached \ {last}
    BY <1>1, <1>4, <1>5
  <2>3. Cardinality(Cached') = Cardinality(Cached \ {last}) + 1
    BY <2>1, <2>2, FS_AddElement
  <2> QED BY <1>1, <2>1, <2>3
<1>7. ContentsInv'
  BY <1>2, <1>4, <1>5, <1>6 DEF ContentsInv, Elems, Distinct
<1>8. UsedAfter' = {p \in UsedAfter : p[1] \in Cached' \ {k} /\ p[2] \in Cached' \ {k}}
                   \cup {<<k, x>> : x \in Cached' \ {k}}
  <2>1. ASSUME NEW p \in UsedAfter'
        PROVE  p \in {q \in UsedAfter : q[1] \in Cached' \ {k} /\ q[2] \in Cached' \ {k}}
                     \cup {<<k, x>> : x \in Cached' \ {k}}
    BY <1>1, <1>2, <1>3, <1>4, <1>5 DEF UsedAfter
  <2>2. ASSUME NEW p \in {q \in UsedAfter : q[1] \in Cached' \ {k} /\ q[2] \in Cached' \ {k}}
                         \cup {<<k, x>> : x \in Cached' \ {k}}
        PROVE  p \in UsedAfter'
    BY <1>1, <1>2, <1>3, <1>4, <1>5 DEF UsedAfter
  <2> QED BY <2>1, <2>2
<1>9. \A x \in Cached \ {last} : <<x, last>> \in UsedAfter
  BY <1>1, <1>2, <1>3, <1>4 DEF UsedAfter
<1>10. LRU!UsedNow(k, Cached') = UsedAfter'
  BY <1>8 DEF LRU!UsedNow, UsedAfter
<1>11. LRU!PutInsteadOf(k, last)
  BY <1>1, <1>4, <1>5, <1>9, <1>10, SameCount DEF LRU!PutInsteadOf, UsedAfter
<1> QED BY <1>4, <1>7, <1>11 DEF ContentsInv

LEMMA StoreStep ==
    ASSUME ContentsInv, now \in 0..MaxTime, NEW k \in Keys, NEW v \in Values, Store(k, v)
    PROVE  ContentsInv' /\ (LRU!Put(k) \/ \E old \in Keys : LRU!PutInsteadOf(k, old))
<1> DEFINE e == [value |-> v, expire |-> now + TTL]
           grown == [x \in Cached \cup {k} |-> IF x = k THEN e ELSE store[x]]
           order == Front(k)
           last == LastOf(order)
<1>1. e \in Entries
  BY KVAssumption DEF Entries
<1>2. /\ used' = k
      /\ IF Cardinality(Cached \cup {k}) > Capacity
         THEN /\ store' = Only(grown, (Cached \cup {k}) \ {last})
              /\ access_order' = Shorter(order)
         ELSE store' = grown /\ access_order' = order
  BY DEF Store, LastOf, Shorter
<1>3. Cardinality(Cached \cup {k}) \in Nat /\ Capacity \in Nat
  <2>1. IsFiniteSet(Cached \cup {k})
    BY CachedFinite, FS_AddElement
  <2> QED BY <2>1, KVAssumption, FS_CardinalityType
<1>4. CASE Cardinality(Cached \cup {k}) <= Capacity
  <2>1. store' = grown /\ access_order' = order
    BY <1>2, <1>3, <1>4
  <2> QED BY <1>1, <1>2, <1>4, <2>1, GrowStep
<1>5. CASE ~(Cardinality(Cached \cup {k}) <= Capacity)
  <2>1. store' = Only(grown, (Cached \cup {k}) \ {last}) /\ access_order' = Shorter(order)
    BY <1>2, <1>3, <1>5
  <2>2. store' = [x \in (Cached \cup {k}) \ {last} |-> IF x = k THEN e ELSE store[x]]
    BY <2>1 DEF Only
  <2> QED BY <1>1, <1>2, <1>5, <2>1, <2>2, ReplaceStep
<1> QED BY <1>4, <1>5

LEMMA NothingLoads == Loadable = {}
<1>1. ASSUME NEW k, NEW l \in Lines(k) PROVE Len(l) = 2
  <2>1. \A a, b : Len(<<a, b>>) = 2
    OBVIOUS
  <2> QED BY <1>1, <2>1 DEF Lines
<1> QED BY <1>1 DEF Loadable

-----------------------------------------------------------------------------
CacheInv == ContentsInv /\ ThreadsInv

LEMMA CacheInit == Init => CacheInv /\ LRU!Init
<1> SUFFICES ASSUME Init PROVE CacheInv /\ LRU!Init
  OBVIOUS
<1>1. Cached = {} /\ store \in [Cached -> Entries] /\ file \in [DOMAIN file -> Entries] /\ DOMAIN file = {}
  BY DEF Init, Empty, Cached
<1>2. access_order = <<>> /\ Elems(access_order) = {} /\ Distinct(access_order)
  BY DEF Init, Elems, Distinct
<1>3. Cardinality(Cached) <= Capacity
  BY <1>1, FS_EmptySet, KVAssumption
<1>4. ThreadsInv
  BY <1>1, KVAssumption DEF Init, ThreadsInv
<1> QED BY <1>1, <1>2, <1>3, <1>4 DEF Init, CacheInv, ContentsInv, LRU!Init

(* A step that leaves the contents alone *)
LEMMA Apart ==
    ASSUME ContentsInv, UNCHANGED contents
    PROVE  ContentsInv' /\ UNCHANGED LRU!vars
BY DEF contents, ContentsInv, Cached, Elems, Distinct, LRU!vars, Before

(* What each step does to the contents: a step of the LRU cache, or nothing *)
LEMMA ContentsStep ==
    ASSUME CacheInv, [Next]_vars
    PROVE  ContentsInv' /\ (LRU!Next \/ UNCHANGED LRU!vars)
<1>0. ContentsInv /\ now \in 0..MaxTime /\ (worker = "running" => task \in Keys \X Values)
  BY DEF CacheInv, ThreadsInv
<1>1. ASSUME NEW k \in Keys, GetHit(k) PROVE ContentsInv' /\ LRU!Next
  BY <1>0, <1>1, HitStep DEF LRU!Next
<1>2. ASSUME NEW k \in Keys, GetExpired(k) PROVE ContentsInv' /\ LRU!Next
  <2>1. Discard({k}) /\ {k} \in SUBSET Keys
    BY <1>2 DEF GetExpired
  <2> QED BY <1>0, <2>1, DiscardStep DEF LRU!Next
<1>3. CASE deleteKeysWithPrefix
  <2>1. Discard(Cached) /\ Cached \in SUBSET Keys
    BY <1>0, <1>3 DEF deleteKeysWithPrefix, ContentsInv
  <2> QED BY <1>0, <2>1, DiscardStep DEF LRU!Next
<1>4. CASE cleanExpiredKeys
  <2>1. Discard({k \in Cached : Expired(k)}) /\ {k \in Cached : Expired(k)} \in SUBSET Keys
    BY <1>0, <1>4 DEF cleanExpiredKeys, ContentsInv
  <2> QED BY <1>0, <2>1, DiscardStep DEF LRU!Next
<1>5. ASSUME NEW k \in Keys, NEW v \in Values, Store(k, v) PROVE ContentsInv' /\ LRU!Next
  BY <1>0, <1>5, StoreStep DEF LRU!Next
<1>6. ASSUME NEW k \in Keys, NEW v \in Values, Set(k, v) PROVE ContentsInv' /\ LRU!Next
  BY <1>5, <1>6 DEF Set
<1>7. CASE RunTask
  <2>1. task[1] \in Keys /\ task[2] \in Values /\ Store(task[1], task[2])
    BY <1>0, <1>7 DEF RunTask
  <2> QED BY <1>5, <2>1
<1>8. CASE Crash
  <2>1. Cached' = {} /\ store' \in [Cached' -> Entries] /\ access_order' = <<>> /\ used' = NoTask
    BY <1>8 DEF Crash, Cached, Empty
  <2>2. Elems(access_order') = {} /\ Distinct(access_order')
    BY <2>1 DEF Elems, Distinct
  <2>3. Cardinality(Cached') <= Capacity
    BY <2>1, FS_EmptySet, KVAssumption
  <2>4. ContentsInv'
    BY <2>1, <2>2, <2>3 DEF ContentsInv, Elems, Distinct
  <2> QED BY <2>1, <2>4 DEF LRU!Next, LRU!Restart
<1>9. CASE UNCHANGED contents
  BY <1>0, <1>9, Apart
<1>10. ASSUME \/ \E k \in Keys, v \in Values : asyncSet(k, v)
              \/ Notify \/ TakeTask \/ SpuriousWakeup \/ persistToFile \/ loadFromFile \/ Tick
              \/ UNCHANGED vars
       PROVE  UNCHANGED contents
  BY <1>10 DEF asyncSet, Notify, TakeTask, SpuriousWakeup, persistToFile, loadFromFile, Tick, vars, contents
<1> QED BY <1>1, <1>2, <1>3, <1>4, <1>6, <1>7, <1>8, <1>9, <1>10 DEF Next

LEMMA ThreadsStep ==
    ASSUME CacheInv, [Next]_vars
    PROVE  ThreadsInv'
<1>0. ThreadsInv /\ store \in [Cached -> Entries] /\ Cached \subseteq Keys
  BY DEF CacheInv, ContentsInv
<1>1. CASE UNCHANGED <<now, queueing, file, phase>>
  BY <1>0, <1>1 DEF queueing, ThreadsInv
<1>2. ASSUME NEW k \in Keys, NEW v \in Values, asyncSet(k, v) PROVE ThreadsInv'
  <2>1. notifying' \in 0..MaxQueue
    BY <1>0, <1>2, KVAssumption DEF asyncSet, ThreadsInv
  <2> QED BY <1>0, <1>2, <2>1 DEF asyncSet, ThreadsInv
<1>3. CASE Notify
  <2>1. notifying' \in 0..MaxQueue
    BY <1>0, <1>3, KVAssumption DEF Notify, ThreadsInv
  <2> QED BY <1>0, <1>3, <2>1 DEF Notify, ThreadsInv
<1>4. CASE TakeTask
  <2>1. CASE task_queue = <<>>
    BY <1>0, <1>4, <2>1 DEF TakeTask, ThreadsInv
  <2>2. CASE task_queue # <<>>
    <3>1. task' \in Keys \X Values /\ task_queue' \in Seq(Keys \X Values) /\ worker' = "running"
      <4>1. worker' = "running" /\ task' = Head(task_queue) /\ task_queue' = Tail(task_queue)
        BY <1>4, <2>2 DEF TakeTask
      <4>2. task_queue \in Seq(Keys \X Values)
        BY <1>0 DEF ThreadsInv
      <4>3. Head(task_queue) \in Keys \X Values /\ Tail(task_queue) \in Seq(Keys \X Values)
        BY <2>2, <4>2, HeadTailProperties
      <4> QED BY <4>1, <4>3
    <3>2. task' # NoTask
      BY <3>1, KVAssumption
    <3> QED BY <1>0, <1>4, <3>1, <3>2 DEF TakeTask, ThreadsInv
  <2> QED BY <2>1, <2>2
<1>5. CASE RunTask
  BY <1>0, <1>5 DEF RunTask, ThreadsInv
<1>6. CASE SpuriousWakeup
  BY <1>0, <1>6 DEF SpuriousWakeup, ThreadsInv
<1>7. CASE persistToFile
  BY <1>0, <1>7 DEF persistToFile, ThreadsInv, queueing, Cached
<1>8. CASE loadFromFile
  <2>1. phase' = "serving"
    BY <1>8, NothingLoads DEF loadFromFile
  <2> QED BY <1>0, <1>8, <2>1 DEF loadFromFile, ThreadsInv, queueing
<1>9. CASE Tick
  <2>1. now' \in 0..MaxTime
    BY <1>0, <1>9, KVAssumption DEF Tick, ThreadsInv
  <2> QED BY <1>0, <1>9, <2>1 DEF Tick, ThreadsInv, queueing
<1>10. CASE Crash
  <2>1. DOMAIN file' \subseteq Keys /\ file' \in [DOMAIN file' -> Entries]
    <3>1. CASE file' = file
      BY <1>0, <3>1 DEF ThreadsInv
    <3>2. CASE file' \in PartsOf(store)
      <4>1. PICK K \in SUBSET DOMAIN store : file' = [k \in K |-> store[k]]
        BY <3>2 DEF PartsOf, Only
      <4> QED BY <1>0, <4>1 DEF Cached
    <3> QED BY <1>10, <3>1, <3>2 DEF Crash
  <2> QED BY <1>0, <1>10, <2>1, KVAssumption DEF Crash, ThreadsInv
<1>11. ASSUME \/ \E k \in Keys : GetHit(k) \/ GetExpired(k) \/ \E v \in Values : Set(k, v)
              \/ deleteKeysWithPrefix \/ cleanExpiredKeys \/ UNCHANGED vars
       PROVE  UNCHANGED <<now, queueing, file, phase>>
  BY <1>11 DEF GetHit, GetExpired, Set, deleteKeysWithPrefix, cleanExpiredKeys, vars, queueing
<1> QED BY <1>1, <1>2, <1>3, <1>4, <1>5, <1>6, <1>7, <1>8, <1>9, <1>10, <1>11 DEF Next

LEMMA Invariance == Spec => []CacheInv
<1>1. Init => CacheInv
  BY CacheInit
<1>2. CacheInv /\ [Next]_vars => CacheInv'
  BY ContentsStep, ThreadsStep DEF CacheInv
<1> QED BY <1>1, <1>2, PTL DEF Spec

(* The list of last uses has every key of the map once and no other, so the
   iterators that the entries keep are valid when set, get and the cleaner erase
   by them. *)
THEOREM MapAndListAgree == Spec => []OrderMatchesStore
<1>1. CacheInv => OrderMatchesStore
  <2> SUFFICES ASSUME CacheInv PROVE OrderMatchesStore
    OBVIOUS
  <2>1. TypeOK
    BY DEF CacheInv, ContentsInv, ThreadsInv, TypeOK
  <2>2. Elems(access_order) = Cached /\ Len(access_order) = Cardinality(Cached)
    BY DistinctLength DEF CacheInv, ContentsInv
  <2> QED BY <2>1, <2>2 DEF OrderMatchesStore, Elems
<1> QED BY <1>1, Invariance, PTL

(* loadFromFile finds no line with three fields in anything that persistToFile can
   have written, so it never calls set under the mutex and start-up ends. *)
THEOREM NeverStuck == Spec => []StartsUp
<1>1. CacheInv => StartsUp
  BY DEF CacheInv, ThreadsInv, StartsUp
<1> QED BY <1>1, Invariance, PTL

(* A set that is queued by asyncSet, with any number of callers and any length of
   the queue, has the worker awake or a notification on its way. *)
LEMMA NoTaskLostStep ==
    ASSUME CacheInv, NoTaskLost, [Next]_vars
    PROVE  NoTaskLost'
<1>0. notifying \in Nat
  BY KVAssumption DEF CacheInv, ThreadsInv
<1>1. ASSUME NEW k \in Keys, NEW v \in Values, asyncSet(k, v) PROVE NoTaskLost'
  <2>1. notifying' > 0
    BY <1>0, <1>1 DEF asyncSet
  <2> QED BY <2>1 DEF NoTaskLost
<1>2. ASSUME Notify \/ RunTask \/ SpuriousWakeup \/ Crash PROVE worker' # "asleep"
  BY <1>2 DEF Notify, RunTask, SpuriousWakeup, Crash
<1>3. CASE TakeTask
  BY <1>3 DEF TakeTask, NoTaskLost
<1>4. ASSUME \/ \E k \in Keys : GetHit(k) \/ GetExpired(k) \/ \E v \in Values : Set(k, v)
             \/ deleteKeysWithPrefix \/ cleanExpiredKeys
             \/ persistToFile \/ loadFromFile \/ Tick \/ UNCHANGED vars
      PROVE  NoTaskLost'
  <2>1. UNCHANGED queueing
    BY <1>4 DEF GetHit, GetExpired, Set, deleteKeysWithPrefix, cleanExpiredKeys,
                persistToFile, loadFromFile, Tick, vars, queueing
  <2> QED BY <2>1 DEF NoTaskLost, queueing
<1> QED BY <1>1, <1>2, <1>3, <1>4 DEF Next, NoTaskLost

THEOREM WorkerWakes == Spec => []NoTaskLost
<1>1. Init => NoTaskLost
  BY DEF Init, NoTaskLost
<1>2. CacheInv /\ NoTaskLost /\ [Next]_vars => NoTaskLost'
  BY NoTaskLostStep
<1> QED BY <1>1, <1>2, Invariance, PTL DEF Spec

(* Every critical section is a step of the least-recently-used cache of Capacity
   keys, or leaves it as it is. *)
THEOREM Refinement == Spec => ImplementsLRUCache
<1>1. Init => LRU!Init
  BY CacheInit
<1>2. CacheInv /\ [Next]_vars => [LRU!Next]_(LRU!vars)
  BY ContentsStep
<1> QED BY <1>1, <1>2, Invariance, PTL DEF Spec, ImplementsLRUCache, LRU!Spec
=============================================================================
