---------------------------- MODULE WlListProofs ----------------------------
EXTENDS WlList, SequenceTheorems, FiniteSetTheorems, WellFoundedInduction, TLAPS

\* Numbers: with the least of a set, what holds of all numbers is proved by
\* looking at the first that it fails for.
LEMMA LeastOf ==
  ASSUME NEW R, IsWellFoundedOn(R, Nat), \A x, y \in Nat : x < y => <<x, y>> \in R,
         NEW T, T \subseteq Nat, T # {}
  PROVE  \E n \in T : \A m \in T : n <= m
<1>1. PICK x \in T : \A y \in T : ~ (<<y, x>> \in R)
  BY WFMin
<1>2. \A y \in T : ~(y < x)
  BY <1>1
<1> QED BY <1>2

\* A set of numbers has a least one.
LEMMA LeastNat ==
  ASSUME NEW T, T \subseteq Nat, T # {}
  PROVE  \E n \in T : \A m \in T : n <= m
<1>1. \A x, y \in Nat : x < y => <<x, y>> \in OpToRel(<, Nat)
  BY DEF OpToRel
<1> QED BY <1>1, NatLessThanWellFounded, LeastOf, Zenon

LEMMA RankExists ==
  ASSUME NEW I, I \subseteq Nat, IsFiniteSet(I),
         NEW n \in Nat, n < Cardinality(I)
  PROVE  /\ Nth(I, n) \in I
         /\ Cardinality({j \in I : j < Nth(I, n)}) = n
<1> DEFINE rank == [i \in I |-> Cardinality({j \in I : j < i})]
           below(i) == {j \in I : j < i}
<1>1. ASSUME NEW i \in I
      PROVE  /\ IsFiniteSet(below(i))
             /\ Cardinality(below(i)) \in 0..Cardinality(I) - 1
  <2>1. below(i) \in SUBSET I /\ i \notin below(i) /\ below(i) # I
    OBVIOUS
  <2>2. /\ IsFiniteSet(below(i))
        /\ Cardinality(below(i)) <= Cardinality(I)
        /\ Cardinality(below(i)) # Cardinality(I)
    BY <2>1, FS_Subset
  <2>3. Cardinality(below(i)) \in Nat /\ Cardinality(I) \in Nat
    BY <2>2, FS_CardinalityType
  <2> QED BY <2>2, <2>3
<1>2. ASSUME NEW i \in I, NEW k \in I, i < k
      PROVE  Cardinality(below(i)) < Cardinality(below(k))
  <2>1. below(i) \in SUBSET below(k) /\ i \in below(k) /\ i \notin below(i)
    <3>1. \A j \in I : j < i => j < k
      BY <1>2
    <3>2. ~(i < i)
      OBVIOUS
    <3> QED BY <1>2, <3>1, <3>2
  <2>2. Cardinality(below(i)) <= Cardinality(below(k)) /\ Cardinality(below(i)) # Cardinality(below(k))
    BY <1>1, <2>1, FS_Subset
  <2> QED BY <1>1, <2>2
<1> DEFINE T == 0..Cardinality(I) - 1
<1>3. Cardinality(I) \in Nat
  BY FS_CardinalityType
<1>4. IsFiniteSet(T) /\ Cardinality(T) = Cardinality(I)
  <2>1. 0 \in Int /\ Cardinality(I) - 1 \in Int /\ 0 <= Cardinality(I) - 1
    BY <1>3
  <2> QED BY <1>3, <2>1, FS_Interval
<1>5. rank \in Injection(I, T)
  <2>1. rank \in [I -> T]
    BY <1>1
  <2>2. ASSUME NEW i \in I, NEW k \in I, rank[i] = rank[k] PROVE i = k
    <3>1. i < k \/ k < i \/ i = k
      OBVIOUS
    <3> QED BY <1>1, <1>2, <2>2, <3>1
  <2> QED BY <2>1, <2>2 DEF Injection, IsInjective
<1>6. rank \in Surjection(I, T)
  BY <1>4, <1>5, FS_Injection
<1>7. \E i \in I : Cardinality(below(i)) = n
  <2>1. n \in T
    BY <1>3
  <2>2. \E i \in I : rank[i] = n
    BY <1>6, <2>1, Zenon DEF Surjection
  <2> QED BY <2>2
<1> QED BY <1>7 DEF Nth

LEMMA RankUnique ==
  ASSUME NEW I, I \subseteq Nat, IsFiniteSet(I), NEW i \in I
  PROVE  /\ Cardinality({j \in I : j < i}) \in 0..Cardinality(I) - 1
         /\ Nth(I, Cardinality({j \in I : j < i})) = i
<1> DEFINE below(k) == {j \in I : j < k}
<1>1. ASSUME NEW k \in I PROVE IsFiniteSet(below(k)) /\ Cardinality(below(k)) \in Nat
  <2>1. below(k) \in SUBSET I
    OBVIOUS
  <2> QED BY <2>1, FS_Subset, FS_CardinalityType
<1>2. Cardinality(below(i)) < Cardinality(I)
  <2>1. below(i) \in SUBSET I /\ below(i) # I
    OBVIOUS
  <2>2. Cardinality(below(i)) <= Cardinality(I) /\ Cardinality(below(i)) # Cardinality(I)
    BY <2>1, FS_Subset
  <2> QED BY <1>1, <2>2, FS_CardinalityType
<1> DEFINE k == Nth(I, Cardinality(below(i)))
<1>3. k \in I /\ Cardinality(below(k)) = Cardinality(below(i))
  BY <1>1, <1>2, RankExists
<1>4. ASSUME NEW p \in I, NEW q \in I, p < q
      PROVE  Cardinality(below(p)) # Cardinality(below(q))
  <2>1. below(p) \in SUBSET below(q) /\ p \in below(q) /\ p \notin below(p)
    <3>1. \A j \in I : j < p => j < q
      BY <1>4
    <3>2. ~(p < p)
      OBVIOUS
    <3> QED BY <1>4, <3>1, <3>2
  <2> QED BY <1>1, <2>1, FS_Subset
<1>5. k = i
  <2> HIDE DEF k
  <2>1. k < i \/ i < k \/ k = i
    BY <1>3
  <2> QED BY <1>3, <1>4, <2>1
<1> QED BY <1>1, <1>2, <1>5, FS_CardinalityType

LEMMA AtProperties ==
  ASSUME NEW S, NEW s \in Seq(S), NEW I, I \subseteq DOMAIN s
  PROVE  /\ At(s, I) \in Seq(S)
         /\ IsFiniteSet(I)
         /\ Len(At(s, I)) = Cardinality(I)
         /\ Range(At(s, I)) = {s[i] : i \in I}
         /\ IsInjective(s) => IsInjective(At(s, I))
<1>1. Len(s) \in Nat /\ DOMAIN s = 1..Len(s) /\ s \in [DOMAIN s -> S]
  BY LenProperties
<1>2. I \subseteq Nat /\ I \subseteq 1..Len(s)
  BY <1>1
<1>3. IsFiniteSet(I)
  BY <1>1, <1>2, FS_Interval, FS_Subset
<1>4. Cardinality(I) \in Nat
  BY <1>3, FS_CardinalityType
<1> DEFINE c == Cardinality(I)
           at(n) == Nth(I, n - 1)
<1>5. ASSUME NEW n \in 1..c
      PROVE  /\ at(n) \in I
             /\ Cardinality({j \in I : j < at(n)}) = n - 1
  <2>1. n - 1 \in Nat /\ n - 1 < Cardinality(I)
    BY <1>4
  <2> QED BY <1>2, <1>3, <2>1, RankExists
<1>6. At(s, I) = [n \in 1..c |-> s[at(n)]]
  BY DEF At
<1>7. ASSUME NEW n \in 1..c PROVE s[at(n)] \in S
  BY <1>1, <1>5
<1>8. At(s, I) \in [1..c -> S]
  BY <1>6, <1>7
<1>9. At(s, I) \in Seq(S) /\ Len(At(s, I)) = c
  BY <1>4, <1>8, SeqDef, LenProperties
<1>10. Range(At(s, I)) \subseteq {s[i] : i \in I}
  BY <1>5, <1>6 DEF Range
<1>11. ASSUME NEW i \in I PROVE s[i] \in Range(At(s, I))
  <2> DEFINE r == Cardinality({j \in I : j < i})
  <2>1. r \in 0..c - 1 /\ Nth(I, r) = i
    BY <1>2, <1>3, RankUnique
  <2>2. r + 1 \in 1..c /\ at(r + 1) = i
    BY <1>4, <2>1
  <2>3. At(s, I)[r + 1] = s[i]
    BY <1>6, <2>2
  <2> QED BY <1>6, <2>2, <2>3 DEF Range
<1>12. ASSUME IsInjective(s) PROVE IsInjective(At(s, I))
  <2> SUFFICES ASSUME NEW m \in 1..c, NEW n \in 1..c, s[at(m)] = s[at(n)]
               PROVE  m = n
    BY <1>6, Zenon DEF IsInjective
  <2>1. at(m) = at(n)
    BY <1>5, <1>12 DEF IsInjective
  <2>2. m - 1 = n - 1
    BY <1>5, <2>1
  <2> QED BY <1>4, <2>2
<1> QED BY <1>3, <1>9, <1>10, <1>11, <1>12

LEMMA WithoutProperties ==
  ASSUME NEW S, NEW s \in Seq(S), NEW x
  PROVE  /\ Without(s, x) \in Seq(S)
         /\ Range(Without(s, x)) = Range(s) \ {x}
         /\ IsInjective(s) => IsInjective(Without(s, x))
<1> DEFINE I == {i \in DOMAIN s : s[i] # x}
<1>1. I \subseteq DOMAIN s
  OBVIOUS
<1>2. {s[i] : i \in I} = Range(s) \ {x}
  BY DEF Range
<1> QED BY <1>1, <1>2, AtProperties DEF Without

LEMMA InsertProperties ==
  ASSUME NEW S, NEW s \in Seq(S), NEW x \in S, NEW i \in 1..Len(s) + 1
  PROVE  /\ InsertAt(s, i, x) \in Seq(S)
         /\ Range(InsertAt(s, i, x)) = Range(s) \cup {x}
         /\ IsInjective(s) /\ x \notin Range(s) => IsInjective(InsertAt(s, i, x))
<1> DEFINE t == InsertAt(s, i, x)
           p == SubSeq(s, 1, i - 1)
           q == SubSeq(s, i, Len(s))
<1>1. Len(s) \in Nat /\ DOMAIN s = 1..Len(s) /\ \A j \in 1..Len(s) : s[j] \in S
  BY LenProperties, ElementOfSeq
<1>2. /\ p \in Seq(S) /\ Len(p) = i - 1
      /\ \A j \in 1..i - 1 : p[j] = s[j]
  <2>1. \A j \in 1..i - 1 : s[j] \in S
    BY <1>1
  <2>2. 1 \in Int /\ i - 1 \in Int
    BY <1>1
  <2> HIDE DEF p
  <2>3. /\ p \in Seq(S) /\ Len(p) = IF 1 <= i - 1 THEN i - 1 - 1 + 1 ELSE 0
        /\ \A j \in 1..i - 1 - 1 + 1 : p[j] = s[1 + j - 1]
    BY <2>1, <2>2, SubSeqProperties DEF p
  <2> QED BY <1>1, <2>3
<1>3. /\ q \in Seq(S) /\ Len(q) = Len(s) - i + 1
      /\ \A j \in 1..Len(s) - i + 1 : q[j] = s[i + j - 1]
  <2>1. \A j \in i..Len(s) : s[j] \in S
    BY <1>1
  <2>2. i \in Int /\ Len(s) \in Int
    BY <1>1
  <2> HIDE DEF q
  <2>3. /\ q \in Seq(S) /\ Len(q) = IF i <= Len(s) THEN Len(s) - i + 1 ELSE 0
        /\ \A j \in 1..Len(s) - i + 1 : q[j] = s[i + j - 1]
    BY <2>1, <2>2, SubSeqProperties DEF q
  <2> QED BY <1>1, <2>3
<1>4. <<x>> \in Seq(S) /\ Len(<<x>>) = 1 /\ <<x>>[1] = x
  OBVIOUS
<1> DEFINE px == p \o <<x>>
<1>5. /\ px \in Seq(S) /\ Len(px) = i
      /\ \A j \in 1..i : px[j] = IF j < i THEN s[j] ELSE x
  <2> HIDE DEF p
  <2>1. /\ px \in Seq(S) /\ Len(px) = Len(p) + 1
        /\ \A j \in 1..Len(p) + 1 : px[j] = IF j <= Len(p) THEN p[j] ELSE <<x>>[j - Len(p)]
    BY <1>2, <1>4, ConcatProperties
  <2> HIDE DEF px
  <2>2. Len(px) = i
    BY <1>1, <1>2, <2>1
  <2>3. ASSUME NEW j \in 1..i PROVE px[j] = IF j < i THEN s[j] ELSE x
    <3>1. CASE j < i
      BY <1>1, <1>2, <2>1, <3>1
    <3>2. CASE j = i
      <4>1. j - Len(p) = 1 /\ ~(j <= Len(p)) /\ j \in 1..Len(p) + 1
        BY <1>1, <1>2, <3>2
      <4> QED BY <1>4, <2>1, <3>2, <4>1
    <3> QED BY <1>1, <3>1, <3>2
  <2> QED BY <2>1, <2>2, <2>3
<1>6. /\ t \in Seq(S) /\ Len(t) = Len(s) + 1
      /\ \A j \in 1..Len(s) + 1 : t[j] = IF j <= i THEN px[j] ELSE q[j - i]
  <2> HIDE DEF px, q
  <2>1. t = px \o q
    BY DEF InsertAt, px, p, q
  <2> HIDE DEF t
  <2>2. /\ t \in Seq(S) /\ Len(t) = Len(px) + Len(q)
        /\ \A j \in 1..Len(px) + Len(q) : t[j] = IF j <= Len(px) THEN px[j] ELSE q[j - Len(px)]
    BY <1>3, <1>5, <2>1, ConcatProperties
  <2>3. Len(px) + Len(q) = Len(s) + 1
    BY <1>1, <1>3, <1>5
  <2> QED BY <1>5, <2>2, <2>3
<1>7. \A j \in 1..Len(s) + 1 :
        t[j] = IF j < i THEN s[j] ELSE IF j = i THEN x ELSE s[j - 1]
  <2> HIDE DEF t, px, q
  <2> TAKE j \in 1..Len(s) + 1
  <2>1. CASE j <= i
    BY <1>1, <1>5, <1>6, <2>1
  <2>2. CASE j > i
    <3>1. j - i \in 1..Len(s) - i + 1 /\ i + (j - i) - 1 = j - 1
      BY <1>1, <2>2
    <3>2. q[j - i] = s[j - 1]
      BY <1>3, <3>1
    <3> QED BY <1>1, <1>6, <2>2, <3>2
  <2> QED BY <1>1, <2>1, <2>2
<1>8. DOMAIN t = 1..Len(s) + 1
  BY <1>6, LenProperties
<1>9. Range(t) = Range(s) \cup {x}
  <2> HIDE DEF t
  <2>1. \A j \in 1..Len(s) + 1 : t[j] \in Range(s) \cup {x}
    BY <1>1, <1>7 DEF Range
  <2>2. t[i] = x
    BY <1>1, <1>7
  <2>3. ASSUME NEW k \in 1..Len(s) PROVE \E j \in 1..Len(s) + 1 : t[j] = s[k]
    <3>1. CASE k < i
      BY <1>1, <1>7, <3>1
    <3>2. CASE k >= i
      <4>1. k + 1 \in 1..Len(s) + 1 /\ ~(k + 1 < i) /\ k + 1 # i /\ k + 1 - 1 = k
        BY <1>1, <3>2
      <4>2. t[k + 1] = s[k + 1 - 1]
        BY <1>7, <4>1
      <4> QED BY <4>1, <4>2
    <3> QED BY <1>1, <3>1, <3>2
  <2> QED BY <1>1, <1>8, <2>1, <2>2, <2>3 DEF Range
<1>10. ASSUME IsInjective(s), x \notin Range(s) PROVE IsInjective(t)
  <2> HIDE DEF t
  <2> SUFFICES ASSUME NEW j \in 1..Len(s) + 1, NEW k \in 1..Len(s) + 1, t[j] = t[k]
               PROVE  j = k
    BY <1>8 DEF IsInjective
  <2>1. \A m \in 1..Len(s) : s[m] # x
    BY <1>1, <1>10 DEF Range
  <2>2. \A m, n \in 1..Len(s) : s[m] = s[n] => m = n
    BY <1>1, <1>10 DEF IsInjective
  <2> QED BY <1>1, <1>7, <2>1, <2>2
<1> QED BY <1>6, <1>9, <1>10

LEMMA ConsProperties ==
  ASSUME NEW S, NEW s \in Seq(S), NEW x \in S
  PROVE  /\ <<x>> \o s \in Seq(S)
         /\ Range(<<x>> \o s) = Range(s) \cup {x}
         /\ IsInjective(s) /\ x \notin Range(s) => IsInjective(<<x>> \o s)
<1>1. SubSeq(s, 1, 1 - 1) = <<>> /\ SubSeq(s, 1, Len(s)) = s
  BY SubSeqEmpty, SubSeqFull
<1>2. <<>> \o <<x>> = <<x>>
  OBVIOUS
<1>3. InsertAt(s, 1, x) = <<x>> \o s
  BY <1>1, <1>2 DEF InsertAt
<1>4. 1 \in 1..Len(s) + 1
  BY LenProperties
<1> DEFINE t == InsertAt(s, 1, x)
<1>5. /\ t \in Seq(S)
      /\ Range(t) = Range(s) \cup {x}
      /\ IsInjective(s) /\ x \notin Range(s) => IsInjective(t)
  BY <1>4, InsertProperties
<1> QED BY <1>3, <1>5, Zenon

LEMMA AppendList ==
  ASSUME NEW S, NEW s \in Seq(S), NEW x \in S
  PROVE  /\ Append(s, x) \in Seq(S)
         /\ Range(Append(s, x)) = Range(s) \cup {x}
         /\ IsInjective(s) /\ x \notin Range(s) => IsInjective(Append(s, x))
<1>1. Len(s) \in Nat /\ DOMAIN s = 1..Len(s)
  BY LenProperties
<1>2. /\ Append(s, x) \in Seq(S) /\ Len(Append(s, x)) = Len(s) + 1
      /\ \A i \in 1..Len(s) : Append(s, x)[i] = s[i]
      /\ Append(s, x)[Len(s) + 1] = x
  BY AppendProperties
<1>3. DOMAIN Append(s, x) = 1..Len(s) + 1
  BY <1>2, LenProperties
<1> DEFINE t == Append(s, x)
<1> HIDE DEF t
<1>4. Range(t) = Range(s) \cup {x}
  BY <1>1, <1>2, <1>3 DEF Range, t
<1>5. IsInjective(s) /\ x \notin Range(s) => IsInjective(t)
  BY <1>1, <1>2, <1>3 DEF Range, IsInjective, t
<1> QED BY <1>2, <1>4, <1>5 DEF t

LEMMA ConcatList ==
  ASSUME NEW S, NEW s \in Seq(S), NEW t \in Seq(S)
  PROVE  /\ s \o t \in Seq(S)
         /\ Range(s \o t) = Range(s) \cup Range(t)
         /\ IsInjective(s) /\ IsInjective(t) /\ Range(s) \cap Range(t) = {} => IsInjective(s \o t)
<1> DEFINE u == s \o t
<1>1. /\ Len(s) \in Nat /\ DOMAIN s = 1..Len(s)
      /\ Len(t) \in Nat /\ DOMAIN t = 1..Len(t)
  BY LenProperties
<1>2. /\ u \in Seq(S) /\ Len(u) = Len(s) + Len(t)
      /\ \A i \in 1..Len(s) + Len(t) : u[i] = IF i <= Len(s) THEN s[i] ELSE t[i - Len(s)]
  BY ConcatProperties
<1>3. DOMAIN u = 1..Len(s) + Len(t)
  BY <1>2, LenProperties
<1> HIDE DEF u
<1>4. ASSUME NEW i \in DOMAIN u
      PROVE  \/ i \in DOMAIN s /\ u[i] = s[i]
             \/ i - Len(s) \in DOMAIN t /\ u[i] = t[i - Len(s)]
  BY <1>1, <1>2, <1>3
<1>5. ASSUME NEW i \in DOMAIN s PROVE i \in DOMAIN u /\ u[i] = s[i]
  BY <1>1, <1>2, <1>3
<1>6. ASSUME NEW i \in DOMAIN t PROVE i + Len(s) \in DOMAIN u /\ u[i + Len(s)] = t[i]
  <2>1. /\ i + Len(s) \in 1..Len(s) + Len(t) /\ ~(i + Len(s) <= Len(s))
        /\ i + Len(s) - Len(s) = i
    BY <1>1
  <2> QED BY <1>2, <1>3, <2>1
<1>7. Range(u) = Range(s) \cup Range(t)
  <2>1. Range(u) \subseteq Range(s) \cup Range(t)
    BY <1>4 DEF Range
  <2>2. Range(s) \subseteq Range(u)
    BY <1>5 DEF Range
  <2>3. Range(t) \subseteq Range(u)
    BY <1>6 DEF Range
  <2> QED BY <2>1, <2>2, <2>3
<1>8. ASSUME IsInjective(s), IsInjective(t), Range(s) \cap Range(t) = {}
      PROVE  IsInjective(u)
  <2> SUFFICES ASSUME NEW i \in DOMAIN u, NEW k \in DOMAIN u, u[i] = u[k] PROVE i = k
    BY DEF IsInjective
  <2>1. CASE i \in DOMAIN s /\ u[i] = s[i] /\ k \in DOMAIN s /\ u[k] = s[k]
    BY <1>8, <2>1 DEF IsInjective
  <2>2. CASE /\ i - Len(s) \in DOMAIN t /\ u[i] = t[i - Len(s)]
             /\ k - Len(s) \in DOMAIN t /\ u[k] = t[k - Len(s)]
    <3>1. i - Len(s) = k - Len(s)
      BY <1>8, <2>2 DEF IsInjective
    <3> QED BY <1>1, <1>3, <3>1
  <2>3. ASSUME NEW a \in DOMAIN s, NEW b \in DOMAIN t PROVE s[a] # t[b]
    BY <1>8 DEF Range
  <2> QED BY <1>4, <2>1, <2>2, <2>3
<1> QED BY <1>2, <1>7, <1>8 DEF u

\* Moving the elements at I to the tail, in their order.
LEMMA TailProperties ==
  ASSUME NEW S, NEW s \in Seq(S), NEW I, I \subseteq DOMAIN s
  PROVE  /\ At(s, DOMAIN s \ I) \o At(s, I) \in Seq(S)
         /\ Range(At(s, DOMAIN s \ I) \o At(s, I)) = Range(s)
         /\ IsInjective(s) => IsInjective(At(s, DOMAIN s \ I) \o At(s, I))
<1> DEFINE J == DOMAIN s \ I
           a == At(s, J)
           b == At(s, I)
<1>1. /\ a \in Seq(S) /\ Range(a) = {s[i] : i \in J}
      /\ IsInjective(s) => IsInjective(a)
  BY AtProperties
<1>2. /\ b \in Seq(S) /\ Range(b) = {s[i] : i \in I}
      /\ IsInjective(s) => IsInjective(b)
  BY AtProperties
<1> HIDE DEF a, b
<1>3. Range(a) \cup Range(b) = Range(s)
  BY <1>1, <1>2 DEF Range
<1>4. IsInjective(s) => Range(a) \cap Range(b) = {}
  BY <1>1, <1>2 DEF IsInjective
<1> DEFINE u == a \o b
<1>5. /\ u \in Seq(S) /\ Range(u) = Range(a) \cup Range(b)
      /\ IsInjective(a) /\ IsInjective(b) /\ Range(a) \cap Range(b) = {} => IsInjective(u)
  BY <1>1, <1>2, ConcatList
<1> HIDE DEF u, J
<1>6. u \in Seq(S) /\ Range(u) = Range(s) /\ (IsInjective(s) => IsInjective(u))
  BY <1>1, <1>2, <1>3, <1>4, <1>5, Zenon
<1> QED BY <1>6 DEF u, a, b, J

LEMMA LeastIndex ==
  ASSUME NEW I, I \subseteq Nat, IsFiniteSet(I), I # {}
  PROVE  Min(I) \in I
<1>1. Cardinality(I) \in Nat /\ Cardinality(I) # 0
  BY FS_CardinalityType, FS_EmptySet
<1>2. /\ Nth(I, 0) \in I
      /\ Cardinality({j \in I : j < Nth(I, 0)}) = 0
  <2>1. 0 \in Nat /\ 0 < Cardinality(I)
    BY <1>1
  <2> QED BY <2>1, RankExists
<1> DEFINE k == Nth(I, 0)
<1>3. IsFiniteSet({j \in I : j < k})
  BY FS_Subset
<1>4. {j \in I : j < k} = {}
  BY <1>2, <1>3, FS_EmptySet
<1> HIDE DEF k
<1>5. k \in I /\ \A j \in I : k <= j
  <2>1. k \in I
    BY <1>2 DEF k
  <2>2. \A j \in I : ~(j < k)
    BY <1>4
  <2> QED BY <2>1, <2>2
<1> QED BY <1>5 DEF Min

LEMMA GreatestIndex ==
  ASSUME NEW I, I \subseteq Nat, IsFiniteSet(I), I # {}
  PROVE  Max(I) \in I
<1>1. Cardinality(I) \in Nat /\ Cardinality(I) - 1 \in Nat
  BY FS_CardinalityType, FS_EmptySet
<1> DEFINE below(i) == {j \in I : j < i}
           k == Nth(I, Cardinality(I) - 1)
<1>2. k \in I /\ Cardinality(below(k)) = Cardinality(I) - 1
  <2>1. Cardinality(I) - 1 < Cardinality(I)
    BY <1>1
  <2> QED BY <1>1, <2>1, RankExists
<1> HIDE DEF k
<1>3. ASSUME NEW i \in I, k < i PROVE FALSE
  <2>1. below(k) \cup {k} \in SUBSET below(i)
    <3>1. \A j \in I : j < k => j < i
      BY <1>2, <1>3
    <3> QED BY <1>2, <1>3, <3>1
  <2>2. IsFiniteSet(below(i)) /\ IsFiniteSet(below(k)) /\ k \notin below(k)
    <3>1. below(i) \in SUBSET I /\ below(k) \in SUBSET I /\ k \notin below(k)
      BY <1>2
    <3> QED BY <3>1, FS_Subset
  <2>3. Cardinality(below(k) \cup {k}) = Cardinality(I)
    <3>1. Cardinality(below(k) \cup {k}) = Cardinality(below(k)) + 1
      BY <2>2, FS_AddElement
    <3> QED BY <1>1, <1>2, <3>1
  <2>4. Cardinality(I) <= Cardinality(below(i))
    BY <2>1, <2>2, <2>3, FS_Subset
  <2>5. Cardinality(below(i)) \in 0..Cardinality(I) - 1
    BY RankUnique
  <2> QED BY <1>1, <2>4, <2>5
<1>4. \A j \in I : k >= j
  BY <1>2, <1>3
<1> QED BY <1>2, <1>4 DEF Max

-----------------------------------------------------------------------------
(* Lists taken apart and put together: what At, Drop, Without and InsertAt *)
(* make of a list given as a concatenation.                                *)

\* e goes through the k indices of I in order.
Enumerates(e, k, I) ==
  /\ k \in Nat
  /\ e \in [1..k -> I]
  /\ \A a, b \in 1..k : a < b => e[a] < e[b]
  /\ \A i \in I : \E a \in 1..k : e[a] = i

\* There is one way to do so, and Nth takes it.
LEMMA NthBy ==
  ASSUME NEW I, I \subseteq Nat, NEW k, NEW e, Enumerates(e, k, I)
  PROVE  /\ IsFiniteSet(I) /\ Cardinality(I) = k
         /\ \A n \in 1..k : Nth(I, n - 1) = e[n]
<1> USE DEF Enumerates
<1>0. k \in Nat /\ \A a \in 1..k : e[a] \in Nat
  OBVIOUS
<1>1. \A a, b \in 1..k : e[a] = e[b] => a = b
  <2> SUFFICES ASSUME NEW a \in 1..k, NEW b \in 1..k, e[a] = e[b] PROVE a = b
    OBVIOUS
  <2>1. ~(a < b) /\ ~(b < a)
    BY <1>0
  <2> QED BY <2>1
<1>2. \A a, b \in 1..k : e[a] < e[b] => a < b
  <2> SUFFICES ASSUME NEW a \in 1..k, NEW b \in 1..k, e[a] < e[b] PROVE a < b
    OBVIOUS
  <2>1. ~(b < a) /\ a # b
    BY <1>0
  <2> QED BY <2>1
<1>3. IsFiniteSet(1..k) /\ Cardinality(1..k) = k
  <2>1. 1 \in Int /\ k \in Int
    OBVIOUS
  <2> QED BY <2>1, FS_Interval
<1>4. e \in Bijection(1..k, I)
  BY <1>1 DEF Bijection, Injection, Surjection, IsInjective
<1>5. IsFiniteSet(I) /\ Cardinality(I) = k
  BY <1>3, <1>4, FS_Bijection DEF ExistsBijection
<1>6. ASSUME NEW n \in 1..k
      PROVE  Nth(I, n - 1) = e[n]
  <2> DEFINE below == {j \in I : j < e[n]}
             g == [a \in 1..n - 1 |-> e[a]]
  <2>1. g \in Bijection(1..n - 1, below)
    <3>1. \A a \in 1..n - 1 : a \in 1..k /\ g[a] = e[a] /\ e[a] \in below
      OBVIOUS
    <3>2. \A j \in below : \E a \in 1..n - 1 : g[a] = j
      <4> SUFFICES ASSUME NEW j \in below PROVE \E a \in 1..n - 1 : g[a] = j
        OBVIOUS
      <4>1. PICK a \in 1..k : e[a] = j
        OBVIOUS
      <4>2. a < n
        BY <1>2, <4>1
      <4> QED BY <4>1, <4>2
    <3>3. g \in [1..n - 1 -> below]
      BY <3>1
    <3> HIDE DEF g, below
    <3>4. \A a, b \in 1..n - 1 : g[a] = g[b] => a = b
      BY <1>1, <3>1
    <3>5. DOMAIN g = 1..n - 1
      BY <3>3
    <3> QED BY <3>2, <3>3, <3>4, <3>5 DEF Bijection, Injection, Surjection, IsInjective
  <2>2. IsFiniteSet(1..n - 1) /\ Cardinality(1..n - 1) = n - 1
    <3>1. 1 \in Int /\ n - 1 \in Int
      OBVIOUS
    <3> QED BY <3>1, FS_Interval
  <2>3. Cardinality(below) = n - 1
    <3> HIDE DEF below, g
    <3> QED BY <2>1, <2>2, FS_Bijection DEF ExistsBijection
  <2>4. e[n] \in I
    OBVIOUS
  <2> QED BY <1>5, <2>3, <2>4, RankUnique
<1> QED BY <1>5, <1>6

LEMMA NthIncreases ==
  ASSUME NEW I, I \subseteq Nat, IsFiniteSet(I), NEW a \in Nat, NEW b \in Nat,
         a < b, b < Cardinality(I)
  PROVE  Nth(I, a) < Nth(I, b)
<1> DEFINE p == Nth(I, a)
           q == Nth(I, b)
           below(i) == {j \in I : j < i}
<1>0. Cardinality(I) \in Nat
  BY FS_CardinalityType
<1>1. p \in I /\ Cardinality(below(p)) = a /\ q \in I /\ Cardinality(below(q)) = b
  <2>1. a < Cardinality(I)
    BY <1>0
  <2> QED BY <2>1, RankExists
<1> HIDE DEF p, q
<1>2. q # p
  BY <1>1
<1>3. ASSUME q < p PROVE FALSE
  <2>1. below(q) \in SUBSET below(p) /\ below(p) \in SUBSET I
    <3>1. \A j \in I : j < q => j < p
      BY <1>1, <1>3
    <3> QED BY <3>1
  <2>2. IsFiniteSet(below(p))
    BY <2>1, FS_Subset
  <2>3. b <= a
    BY <1>1, <2>1, <2>2, FS_Subset
  <2> QED BY <2>3
<1>4. p < q
  BY <1>1, <1>2, <1>3
<1> QED BY <1>4 DEF p, q

\* At, by any strictly increasing enumeration of the indices.
LEMMA AtBy ==
  ASSUME NEW S, NEW s \in Seq(S), NEW I, I \subseteq DOMAIN s,
         NEW k, NEW e, Enumerates(e, k, I)
  PROVE  /\ At(s, I) \in Seq(S) /\ Len(At(s, I)) = k
         /\ \A n \in 1..k : At(s, I)[n] = s[e[n]]
<1>1. DOMAIN s = 1..Len(s) /\ Len(s) \in Nat
  BY LenProperties
<1>2. I \subseteq Nat
  BY <1>1
<1>3. Cardinality(I) = k /\ \A n \in 1..k : Nth(I, n - 1) = e[n]
  BY <1>2, NthBy
<1>4. At(s, I) \in Seq(S) /\ Len(At(s, I)) = k
  BY <1>3, AtProperties
<1>5. At(s, I) = [n \in 1..k |-> s[Nth(I, n - 1)]]
  BY <1>3 DEF At
<1> QED BY <1>3, <1>4, <1>5

\* The first k elements.
LEMMA AtPrefix ==
  ASSUME NEW S, NEW s \in Seq(S), NEW k \in 0..Len(s)
  PROVE  /\ At(s, 1..k) \in Seq(S) /\ Len(At(s, 1..k)) = k
         /\ \A n \in 1..k : At(s, 1..k)[n] = s[n]
<1> DEFINE e == [n \in 1..k |-> n]
<1>1. DOMAIN s = 1..Len(s) /\ Len(s) \in Nat
  BY LenProperties
<1>2. 1..k \subseteq DOMAIN s /\ k \in Nat
  BY <1>1
<1>3. e \in [1..k -> 1..k] /\ \A n \in 1..k : e[n] = n
  OBVIOUS
<1> HIDE DEF e
<1>4. \A a, b \in 1..k : a < b => e[a] < e[b]
  BY <1>3
<1>5. \A i \in 1..k : \E a \in 1..k : e[a] = i
  BY <1>3
<1> DEFINE t == At(s, 1..k)
<1>6. t \in Seq(S) /\ Len(t) = k /\ \A n \in 1..k : t[n] = s[e[n]]
  <2>1. Enumerates(e, k, 1..k)
    BY <1>2, <1>3, <1>4, <1>5 DEF Enumerates
  <2> QED BY <1>2, <2>1, AtBy
<1> HIDE DEF t
<1>7. \A n \in 1..k : t[n] = s[n]
  BY <1>3, <1>6
<1> QED BY <1>6, <1>7 DEF t

\* The indices I of a list of length n, and the indices J of one behind it.
Joint(I, J, n) == I \cup {n + j : j \in J}

\* Concatenation: the indices in s, then those in t.
LEMMA AtConcat ==
  ASSUME NEW S, NEW s \in Seq(S), NEW t \in Seq(S),
         NEW I, I \subseteq DOMAIN s, NEW J, J \subseteq DOMAIN t
  PROVE  At(s \o t, Joint(I, J, Len(s))) = At(s, I) \o At(t, J)
<1> DEFINE u == s \o t
           K == Joint(I, J, Len(s))
           p == Cardinality(I)
           q == Cardinality(J)
           e == [n \in 1..p + q |-> IF n <= p THEN Nth(I, n - 1) ELSE Len(s) + Nth(J, n - p - 1)]
<1>1. /\ Len(s) \in Nat /\ DOMAIN s = 1..Len(s) /\ Len(t) \in Nat /\ DOMAIN t = 1..Len(t)
  BY LenProperties
<1>18. K = I \cup {Len(s) + j : j \in J}
  BY DEF Joint
<1> HIDE DEF K
<1>19. /\ K \subseteq 1..Len(s) + Len(t)
       /\ \A i \in I : i \in K
       /\ \A j \in J : Len(s) + j \in K
       /\ \A i \in K : i \in I \/ \E j \in J : i = Len(s) + j
  <2>1. \A i \in I : i \in 1..Len(s) + Len(t)
    BY <1>1
  <2>2. \A j \in J : Len(s) + j \in 1..Len(s) + Len(t)
    BY <1>1
  <2> QED BY <1>18, <2>1, <2>2
<1>2. /\ u \in Seq(S) /\ Len(u) = Len(s) + Len(t)
      /\ \A i \in 1..Len(s) + Len(t) : u[i] = IF i <= Len(s) THEN s[i] ELSE t[i - Len(s)]
  BY ConcatProperties
<1>3. DOMAIN u = 1..Len(s) + Len(t)
  BY <1>2, LenProperties
<1>4. /\ At(s, I) \in Seq(S) /\ IsFiniteSet(I) /\ Len(At(s, I)) = p
      /\ At(t, J) \in Seq(S) /\ IsFiniteSet(J) /\ Len(At(t, J)) = q
  BY AtProperties
<1>5. p \in Nat /\ q \in Nat /\ I \subseteq Nat /\ J \subseteq Nat
  BY <1>1, <1>4, FS_CardinalityType
<1>6. /\ \A n \in 1..p : At(s, I)[n] = s[Nth(I, n - 1)] /\ Nth(I, n - 1) \in I
      /\ \A n \in 1..q : At(t, J)[n] = t[Nth(J, n - 1)] /\ Nth(J, n - 1) \in J
  <2>1. \A n \in 1..p : n - 1 \in Nat /\ n - 1 < p
    BY <1>5
  <2>2. \A n \in 1..q : n - 1 \in Nat /\ n - 1 < q
    BY <1>5
  <2>3. \A n \in 1..p : Nth(I, n - 1) \in I
    BY <1>4, <1>5, <2>1, RankExists
  <2>4. \A n \in 1..q : Nth(J, n - 1) \in J
    BY <1>4, <1>5, <2>2, RankExists
  <2> QED BY <2>3, <2>4 DEF At
<1> HIDE DEF p, q
<1>7. ASSUME NEW n \in 1..p + q
      PROVE  /\ n <= p => n \in 1..p /\ e[n] = Nth(I, n - 1) /\ e[n] \in I /\ e[n] \in 1..Len(s)
             /\ ~(n <= p) => /\ n - p \in 1..q /\ e[n] = Len(s) + Nth(J, n - p - 1)
                             /\ Nth(J, n - p - 1) \in J
                             /\ e[n] > Len(s) /\ e[n] - Len(s) = Nth(J, n - p - 1)
  <2>1. CASE n <= p
    BY <1>1, <1>5, <1>6, <2>1
  <2>2. CASE ~(n <= p)
    <3>1. n - p \in 1..q
      BY <1>5, <2>2
    <3>2. Nth(J, n - p - 1) \in J
      BY <1>6, <3>1
    <3>3. e[n] = Len(s) + Nth(J, n - p - 1)
      BY <2>2
    <3> HIDE DEF e
    <3> DEFINE y == Nth(J, n - p - 1)
    <3>4. y \in 1..Len(t)
      BY <1>1, <3>2
    <3> HIDE DEF y
    <3> QED BY <1>1, <2>2, <3>1, <3>2, <3>3, <3>4 DEF y
  <2> QED BY <2>1, <2>2
<1>8. /\ \A n \in 1..p : n \in 1..p + q /\ e[n] = Nth(I, n - 1)
      /\ \A n \in 1..q : p + n \in 1..p + q /\ e[p + n] = Len(s) + Nth(J, n - 1)
  <2>1. \A n \in 1..p : n \in 1..p + q /\ n <= p
    BY <1>5
  <2>2. \A n \in 1..q : p + n \in 1..p + q /\ ~(p + n <= p) /\ p + n - p - 1 = n - 1
    BY <1>5
  <2>3. \A n \in 1..p : n \in 1..p + q /\ e[n] = Nth(I, n - 1)
    BY <2>1
  <2>4. ASSUME NEW n \in 1..q PROVE p + n \in 1..p + q /\ e[p + n] = Len(s) + Nth(J, n - 1)
    <3>1. ASSUME NEW r \in 1..p + q, ~(r <= p), r = p + n PROVE e[r] = Len(s) + Nth(J, n - 1)
      <4>1. r - p - 1 = n - 1
        BY <1>5, <3>1
      <4>2. e[r] = Len(s) + Nth(J, r - p - 1)
        BY <3>1
      <4> QED BY <4>1, <4>2
    <3> HIDE DEF e
    <3> QED BY <2>2, <3>1
  <2> QED BY <2>3, <2>4
<1>17. DOMAIN e = 1..p + q
  OBVIOUS
<1>9. K \subseteq DOMAIN u
  BY <1>3, <1>19
<1>10. e \in [1..p + q -> K]
  <2>1. ASSUME NEW n \in 1..p + q PROVE e[n] \in K
    <3> HIDE DEF e
    <3>1. CASE n <= p
      BY <1>7, <1>19, <3>1
    <3>2. CASE ~(n <= p)
      BY <1>7, <1>19, <3>2
    <3> QED BY <3>1, <3>2
  <2> QED BY <2>1
<1> HIDE DEF e
<1>11. ASSUME NEW a \in 1..p + q, NEW b \in 1..p + q, a < b
       PROVE  e[a] < e[b]
  <2>1. CASE b <= p
    <3>1. a - 1 \in Nat /\ b - 1 \in Nat /\ a - 1 < b - 1 /\ b - 1 < p /\ a <= p
      BY <1>5, <1>11, <2>1
    <3>2. Nth(I, a - 1) < Nth(I, b - 1)
      BY <1>4, <1>5, <3>1, NthIncreases DEF p
    <3> QED BY <1>7, <2>1, <3>1, <3>2
  <2>2. CASE a <= p /\ ~(b <= p)
    BY <1>1, <1>7, <2>2
  <2>3. CASE ~(a <= p)
    <3>1. /\ a - p - 1 \in Nat /\ b - p - 1 \in Nat /\ a - p - 1 < b - p - 1
          /\ b - p - 1 < q /\ ~(b <= p)
      BY <1>5, <1>11, <2>3
    <3>2. Nth(J, a - p - 1) < Nth(J, b - p - 1)
      BY <1>4, <1>5, <3>1, NthIncreases DEF q
    <3>3. Nth(J, a - p - 1) \in Nat /\ Nth(J, b - p - 1) \in Nat
      BY <1>5, <1>7, <2>3, <3>1
    <3> QED BY <1>1, <1>7, <2>3, <3>1, <3>2, <3>3
  <2> QED BY <1>5, <2>1, <2>2, <2>3
<1>12. ASSUME NEW i \in K
       PROVE  \E a \in 1..p + q : e[a] = i
  <2>1. CASE i \in I
    <3> DEFINE r == Cardinality({j \in I : j < i})
    <3>1. r \in 0..p - 1 /\ Nth(I, r) = i
      BY <1>4, <1>5, <2>1, RankUnique DEF p
    <3> HIDE DEF r
    <3>2. r + 1 \in 1..p /\ r + 1 - 1 = r
      BY <1>5, <3>1
    <3> QED BY <1>8, <3>1, <3>2
  <2>2. ASSUME NEW j \in J, i = Len(s) + j PROVE \E a \in 1..p + q : e[a] = i
    <3> DEFINE r == Cardinality({k \in J : k < j})
    <3>1. r \in 0..q - 1 /\ Nth(J, r) = j
      BY <1>4, <1>5, RankUnique DEF q
    <3> HIDE DEF r
    <3>2. r + 1 \in 1..q /\ r + 1 - 1 = r
      BY <1>5, <3>1
    <3>3. e[p + (r + 1)] = i /\ p + (r + 1) \in 1..p + q
      BY <1>8, <2>2, <3>1, <3>2
    <3> QED BY <3>3
  <2> QED BY <1>19, <2>1, <2>2
<1> DEFINE a == At(u, K)
           b == At(s, I)
           c == At(t, J)
<1>13. a \in Seq(S) /\ Len(a) = p + q /\ \A n \in 1..p + q : a[n] = u[e[n]]
  <2> DEFINE k == p + q
  <2>1. k \in Nat
    BY <1>5
  <2>2. Enumerates(e, k, K)
    BY <1>10, <1>11, <1>12, <2>1 DEF Enumerates
  <2> HIDE DEF u, k
  <2>3. a \in Seq(S) /\ Len(a) = k /\ \A n \in 1..k : a[n] = u[e[n]]
    <3>1. u \in Seq(S) /\ K \subseteq DOMAIN u
      BY <1>2, <1>9
    <3> QED BY <2>2, <3>1, AtBy
  <2> QED BY <2>3 DEF k
<1>14. /\ b \o c \in Seq(S) /\ Len(b \o c) = p + q
       /\ \A n \in 1..p + q : (b \o c)[n] = IF n <= p THEN b[n] ELSE c[n - p]
  <2> HIDE DEF b, c
  <2>1. b \in Seq(S) /\ c \in Seq(S) /\ Len(b) = p /\ Len(c) = q
    BY <1>4 DEF b, c
  <2> QED BY <2>1, ConcatProperties
<1>15. ASSUME NEW n \in 1..p + q
       PROVE  a[n] = (b \o c)[n]
  <2>1. CASE n <= p
    <3>1. a[n] = u[e[n]] /\ e[n] = Nth(I, n - 1) /\ e[n] \in 1..Len(s) /\ n \in 1..p
      BY <1>7, <1>13, <2>1
    <3>2. u[e[n]] = s[e[n]]
      BY <1>1, <1>2, <3>1
    <3>3. b[n] = s[Nth(I, n - 1)]
      BY <1>6, <3>1
    <3> QED BY <1>14, <2>1, <3>1, <3>2, <3>3
  <2>2. CASE ~(n <= p)
    <3>1. /\ a[n] = u[e[n]] /\ e[n] > Len(s) /\ n - p \in 1..q
          /\ e[n] - Len(s) = Nth(J, n - p - 1) /\ e[n] \in K
      BY <1>7, <1>10, <1>13, <2>2
    <3>2. e[n] \in 1..Len(s) + Len(t)
      BY <1>3, <1>9, <3>1
    <3>3. u[e[n]] = t[e[n] - Len(s)]
      BY <1>1, <1>2, <3>1, <3>2
    <3>4. c[n - p] = t[Nth(J, n - p - 1)]
      BY <1>6, <3>1
    <3> QED BY <1>14, <2>2, <3>1, <3>3, <3>4
  <2> QED BY <2>1, <2>2
<1> HIDE DEF a, b, c
<1>16. a = b \o c
  BY <1>13, <1>14, <1>15, SeqEqual
<1> QED BY <1>16 DEF a, b, c, K

LEMMA DropProperties ==
  ASSUME NEW S, NEW s \in Seq(S), NEW D
  PROVE  /\ Drop(s, D) \in Seq(S)
         /\ Range(Drop(s, D)) = Range(s) \ D
         /\ IsInjective(s) => IsInjective(Drop(s, D))
<1> DEFINE I == {i \in DOMAIN s : s[i] \notin D}
<1>1. I \subseteq DOMAIN s
  OBVIOUS
<1>2. {s[i] : i \in I} = Range(s) \ D
  BY DEF Range
<1> QED BY <1>1, <1>2, AtProperties DEF Drop

LEMMA WithoutIsDrop ==
  ASSUME NEW s, NEW x
  PROVE  Without(s, x) = Drop(s, {x})
<1>1. {i \in DOMAIN s : s[i] # x} = {i \in DOMAIN s : s[i] \notin {x}}
  OBVIOUS
<1> QED BY <1>1 DEF Without, Drop

LEMMA AtWhole ==
  ASSUME NEW S, NEW s \in Seq(S)
  PROVE  At(s, DOMAIN s) = s
<1>1. DOMAIN s = 1..Len(s) /\ Len(s) \in 0..Len(s)
  BY LenProperties
<1> DEFINE t == At(s, 1..Len(s))
<1>2. t \in Seq(S) /\ Len(t) = Len(s) /\ \A n \in 1..Len(s) : t[n] = s[n]
  BY <1>1, AtPrefix
<1> HIDE DEF t
<1>3. t = s
  BY <1>2, SeqEqual
<1> QED BY <1>1, <1>3 DEF t

LEMMA DropNone ==
  ASSUME NEW S, NEW s \in Seq(S), NEW D, Range(s) \cap D = {}
  PROVE  Drop(s, D) = s
<1>1. {i \in DOMAIN s : s[i] \notin D} = DOMAIN s
  BY DEF Range
<1> QED BY <1>1, AtWhole DEF Drop

LEMMA DropConcat ==
  ASSUME NEW S, NEW s \in Seq(S), NEW t \in Seq(S), NEW D
  PROVE  Drop(s \o t, D) = Drop(s, D) \o Drop(t, D)
<1> DEFINE u == s \o t
           I == {i \in DOMAIN s : s[i] \notin D}
           J == {j \in DOMAIN t : t[j] \notin D}
           K == {k \in DOMAIN u : u[k] \notin D}
<1>1. /\ Len(s) \in Nat /\ DOMAIN s = 1..Len(s) /\ Len(t) \in Nat /\ DOMAIN t = 1..Len(t)
  BY LenProperties
<1>2. /\ u \in Seq(S) /\ Len(u) = Len(s) + Len(t)
      /\ \A i \in 1..Len(s) + Len(t) : u[i] = IF i <= Len(s) THEN s[i] ELSE t[i - Len(s)]
  BY ConcatProperties
<1>3. DOMAIN u = 1..Len(s) + Len(t)
  BY <1>2, LenProperties
<1> HIDE DEF u
<1>4. ASSUME NEW i \in I PROVE i \in K
  BY <1>1, <1>2, <1>3
<1>5. ASSUME NEW j \in J PROVE Len(s) + j \in K
  <2>1. /\ Len(s) + j \in 1..Len(s) + Len(t) /\ ~(Len(s) + j <= Len(s)) /\ Len(s) + j - Len(s) = j
    BY <1>1
  <2>2. u[Len(s) + j] = t[j]
    BY <1>2, <2>1
  <2> QED BY <1>3, <2>1, <2>2
<1>6. ASSUME NEW k \in K PROVE k \in I \/ \E j \in J : k = Len(s) + j
  <2>1. CASE k <= Len(s)
    BY <1>1, <1>2, <1>3, <2>1
  <2>2. CASE ~(k <= Len(s))
    <3>1. k - Len(s) \in 1..Len(t) /\ k = Len(s) + (k - Len(s)) /\ u[k] = t[k - Len(s)]
      BY <1>1, <1>2, <1>3, <2>2
    <3>2. k - Len(s) \in J
      BY <1>1, <3>1
    <3> QED BY <3>1, <3>2
  <2> QED BY <2>1, <2>2
<1>7. K = Joint(I, J, Len(s))
  BY <1>4, <1>5, <1>6 DEF Joint
<1>8. I \subseteq DOMAIN s /\ J \subseteq DOMAIN t
  OBVIOUS
<1> HIDE DEF I, J, K
<1>9. At(u, K) = At(s, I) \o At(t, J)
  <2>1. At(s \o t, Joint(I, J, Len(s))) = At(s, I) \o At(t, J)
    BY <1>8, AtConcat
  <2> QED BY <1>7, <2>1 DEF u
<1> QED BY <1>9 DEF Drop, I, J, K, u

LEMMA DropSingle ==
  ASSUME NEW S, NEW x \in S, NEW D
  PROVE  Drop(<<x>>, D) = IF x \in D THEN <<>> ELSE <<x>>
<1>1. <<x>> \in Seq(S) /\ Range(<<x>>) = {x} /\ DOMAIN <<x>> = {1} /\ <<x>>[1] = x
  <2>1. <<x>> \in Seq(S) /\ Len(<<x>>) = 1 /\ DOMAIN <<x>> = 1..1 /\ <<x>>[1] = x
    OBVIOUS
  <2> QED BY <2>1 DEF Range
<1>2. CASE x \notin D
  BY <1>1, <1>2, DropNone
<1>3. CASE x \in D
  <2>1. {i \in DOMAIN <<x>> : <<x>>[i] \notin D} = {}
    BY <1>1, <1>3
  <2>2. At(<<x>>, {}) = <<>>
    <3>1. Len(At(<<x>>, {})) = 0 /\ At(<<x>>, {}) \in Seq(S)
      BY <1>1, AtProperties, FS_EmptySet
    <3> QED BY <3>1, EmptySeq
  <2> QED BY <1>3, <2>1, <2>2 DEF Drop
<1> QED BY <1>2, <1>3

\* What is not in the list need not be dropped.
LEMMA DropSame ==
  ASSUME NEW s, NEW D, NEW F, Range(s) \cap D = Range(s) \cap F
  PROVE  Drop(s, D) = Drop(s, F)
<1>1. \A i \in DOMAIN s : s[i] \in D <=> s[i] \in F
  BY DEF Range
<1>2. {i \in DOMAIN s : s[i] \notin D} = {i \in DOMAIN s : s[i] \notin F}
  BY <1>1
<1> QED BY <1>2 DEF Drop

\* The last element stays or goes.
LEMMA DropAppend ==
  ASSUME NEW S, NEW s \in Seq(S), NEW x \in S, NEW D
  PROVE  Drop(Append(s, x), D) = IF x \in D THEN Drop(s, D) ELSE Append(Drop(s, D), x)
<1>1. Drop(s, D) \in Seq(S) /\ <<x>> \in Seq(S)
  BY DropProperties
<1>2. Drop(s \o <<x>>, D) = Drop(s, D) \o Drop(<<x>>, D)
  <2> DEFINE o == <<x>>
  <2>1. o \in Seq(S)
    BY <1>1
  <2> HIDE DEF o
  <2>2. Drop(s \o o, D) = Drop(s, D) \o Drop(o, D)
    BY <2>1, DropConcat
  <2> QED BY <2>2 DEF o
<1>3. Append(s, x) = s \o <<x>>
  BY AppendIsConcat
<1> DEFINE t == Drop(s, D)
<1> HIDE DEF t
<1>4. t \in Seq(S) => t \o <<>> = t /\ t \o <<x>> = Append(t, x)
  <2> SUFFICES ASSUME t \in Seq(S) PROVE t \o <<>> = t /\ t \o <<x>> = Append(t, x)
    OBVIOUS
  <2>1. t \o <<>> = t
    BY ConcatEmptySeq
  <2>2. Append(t, x) = t \o <<x>>
    BY AppendIsConcat
  <2> QED BY <2>1, <2>2
<1>5. CASE x \in D
  <2>1. Drop(<<x>>, D) = <<>>
    BY <1>5, DropSingle
  <2>2. t \o <<>> = t
    BY <1>1, <1>4 DEF t
  <2> QED BY <1>2, <1>3, <1>5, <2>1, <2>2 DEF t
<1>6. CASE x \notin D
  <2>1. Drop(<<x>>, D) = <<x>>
    BY <1>6, DropSingle
  <2>2. t \o <<x>> = Append(t, x)
    BY <1>1, <1>4 DEF t
  <2> QED BY <1>2, <1>3, <1>6, <2>1, <2>2 DEF t
<1> QED BY <1>5, <1>6

\* What is dropped in two rounds may be dropped in one.
LEMMA DropTwice ==
  ASSUME NEW S, NEW s \in Seq(S), NEW D, NEW F
  PROVE  Drop(Drop(s, D), F) = Drop(s, D \cup F)
<1> DEFINE I == {i \in DOMAIN s : s[i] \notin D}
           k == Cardinality(I)
           t == At(s, I)
           J == {n \in DOMAIN t : t[n] \notin F}
           m == Cardinality(J)
           K == {i \in DOMAIN s : s[i] \notin D \cup F}
           e == [a \in 1..m |-> Nth(I, Nth(J, a - 1) - 1)]
<1>1. Len(s) \in Nat /\ DOMAIN s = 1..Len(s) /\ I \subseteq DOMAIN s /\ I \subseteq Nat
  BY LenProperties
<1>2. IsFiniteSet(I) /\ k \in Nat /\ t \in Seq(S) /\ Len(t) = k /\ DOMAIN t = 1..k
  <2>1. IsFiniteSet(I) /\ t \in Seq(S) /\ Len(t) = k
    BY <1>1, AtProperties
  <2>2. DOMAIN t = 1..Len(t)
    BY <2>1, LenProperties
  <2> QED BY <2>1, <2>2, FS_CardinalityType
<1>3. \A n \in 1..k : t[n] = s[Nth(I, n - 1)]
  BY <1>2 DEF At
<1>4. ASSUME NEW n \in 1..k PROVE Nth(I, n - 1) \in I
  <2> DEFINE p == n - 1
  <2>1. p \in Nat /\ p < Cardinality(I)
    BY <1>2
  <2> HIDE DEF p
  <2>2. Nth(I, p) \in I
    BY <1>1, <1>2, <2>1, RankExists
  <2> QED BY <2>2 DEF p
<1>5. ASSUME NEW a \in 1..k, NEW b \in 1..k, a < b PROVE Nth(I, a - 1) < Nth(I, b - 1)
  <2> DEFINE p == a - 1
             q == b - 1
  <2>1. p \in Nat /\ q \in Nat /\ p < q /\ q < Cardinality(I)
    BY <1>2, <1>5
  <2> HIDE DEF p, q
  <2>2. Nth(I, p) < Nth(I, q)
    BY <1>1, <1>2, <2>1, NthIncreases
  <2> QED BY <2>2 DEF p, q
<1>6. ASSUME NEW i \in I PROVE \E n \in 1..k : Nth(I, n - 1) = i
  <2> DEFINE r == Cardinality({j \in I : j < i})
  <2>1. r \in 0..k - 1 /\ Nth(I, r) = i
    BY <1>1, <1>2, RankUnique
  <2> HIDE DEF r, k
  <2>2. r + 1 \in 1..k /\ (r + 1) - 1 = r
    BY <1>2, <2>1
  <2> QED BY <2>1, <2>2
<1> HIDE DEF t
<1>7. J \subseteq DOMAIN t /\ J \subseteq Nat /\ J \subseteq 1..k
  BY <1>2
<1>8. IsFiniteSet(J) /\ m \in Nat /\ At(t, J) \in Seq(S) /\ Len(At(t, J)) = m
  <2>1. IsFiniteSet(J) /\ At(t, J) \in Seq(S) /\ Len(At(t, J)) = m
    BY <1>2, <1>7, AtProperties
  <2> QED BY <2>1, FS_CardinalityType
<1>9. \A a \in 1..m : At(t, J)[a] = t[Nth(J, a - 1)]
  BY <1>8 DEF At
<1>10. ASSUME NEW a \in 1..m PROVE Nth(J, a - 1) \in J
  <2> DEFINE p == a - 1
  <2>1. p \in Nat /\ p < Cardinality(J)
    BY <1>8
  <2> HIDE DEF p
  <2>2. Nth(J, p) \in J
    BY <1>7, <1>8, <2>1, RankExists
  <2> QED BY <2>2 DEF p
<1>11. ASSUME NEW a \in 1..m, NEW b \in 1..m, a < b PROVE Nth(J, a - 1) < Nth(J, b - 1)
  <2> DEFINE p == a - 1
             q == b - 1
  <2>1. p \in Nat /\ q \in Nat /\ p < q /\ q < Cardinality(J)
    BY <1>8, <1>11
  <2> HIDE DEF p, q
  <2>2. Nth(J, p) < Nth(J, q)
    BY <1>7, <1>8, <2>1, NthIncreases
  <2> QED BY <2>2 DEF p, q
<1>12. ASSUME NEW n \in J PROVE \E a \in 1..m : Nth(J, a - 1) = n
  <2> DEFINE r == Cardinality({j \in J : j < n})
  <2>1. r \in 0..m - 1 /\ Nth(J, r) = n
    BY <1>7, <1>8, RankUnique
  <2> HIDE DEF r, m
  <2>2. r + 1 \in 1..m /\ (r + 1) - 1 = r
    BY <1>8, <2>1
  <2> QED BY <2>1, <2>2
<1> HIDE DEF k, m
<1>13. \A n \in J : n \in 1..k /\ t[n] \notin F
  BY <1>7
<1>14. \A n \in 1..k : t[n] \notin F => n \in J
  BY <1>2
<1>15. \A i \in I : i \in DOMAIN s /\ s[i] \notin D
  OBVIOUS
<1>16. \A i \in DOMAIN s : s[i] \notin D => i \in I
  OBVIOUS
<1>17. \A i \in K : i \in I /\ s[i] \notin F
  OBVIOUS
<1>18. \A i \in I : s[i] \notin F => i \in K
  OBVIOUS
<1>19. K \subseteq DOMAIN s
  OBVIOUS
<1> HIDE DEF I, J, K
<1>20. \A a \in 1..m : e[a] \in K /\ e[a] = Nth(I, Nth(J, a - 1) - 1)
  <2> SUFFICES ASSUME NEW a \in 1..m PROVE e[a] \in K /\ e[a] = Nth(I, Nth(J, a - 1) - 1)
    OBVIOUS
  <2> DEFINE n == Nth(J, a - 1)
  <2>1. n \in J /\ n \in 1..k /\ t[n] \notin F
    BY <1>10, <1>13
  <2> HIDE DEF n
  <2>2. Nth(I, n - 1) \in K
    BY <1>3, <1>4, <1>18, <2>1
  <2> QED BY <2>2 DEF n
<1>21. \A a, b \in 1..m : a < b => e[a] < e[b]
  <2> SUFFICES ASSUME NEW a \in 1..m, NEW b \in 1..m, a < b PROVE e[a] < e[b]
    OBVIOUS
  <2> DEFINE n == Nth(J, a - 1)
             l == Nth(J, b - 1)
  <2>1. n \in 1..k /\ l \in 1..k /\ n < l
    BY <1>10, <1>11, <1>13
  <2>2. e[a] = Nth(I, n - 1) /\ e[b] = Nth(I, l - 1)
    BY <1>20
  <2> HIDE DEF n, l, e
  <2> QED BY <1>5, <2>1, <2>2
<1>22. \A i \in K : \E a \in 1..m : e[a] = i
  <2> SUFFICES ASSUME NEW i \in K PROVE \E a \in 1..m : e[a] = i
    OBVIOUS
  <2>1. i \in I /\ s[i] \notin F
    BY <1>17
  <2>2. PICK n \in 1..k : Nth(I, n - 1) = i
    BY <1>6, <2>1
  <2>3. n \in J
    BY <1>3, <1>14, <2>1, <2>2
  <2>4. PICK a \in 1..m : Nth(J, a - 1) = n
    BY <1>12, <2>3
  <2>5. e[a] = i
    BY <1>20, <2>2, <2>4
  <2> QED BY <2>5
<1>23. Enumerates(e, m, K)
  <2>1. e \in [1..m -> K]
    BY <1>20
  <2> HIDE DEF e
  <2> QED BY <1>8, <1>21, <1>22, <2>1 DEF Enumerates
<1> DEFINE u == At(s, K)
           v == At(t, J)
<1>24. u \in Seq(S) /\ Len(u) = m /\ \A a \in 1..m : u[a] = s[e[a]]
  <2> HIDE DEF e
  <2> QED BY <1>19, <1>23, AtBy
<1>25. \A a \in 1..m : v[a] = s[e[a]]
  <2> SUFFICES ASSUME NEW a \in 1..m PROVE v[a] = s[e[a]]
    OBVIOUS
  <2> DEFINE n == Nth(J, a - 1)
  <2>1. n \in 1..k /\ v[a] = t[n]
    BY <1>9, <1>10, <1>13
  <2>2. e[a] = Nth(I, n - 1)
    BY <1>20
  <2> HIDE DEF n, e, v
  <2> QED BY <1>3, <2>1, <2>2
<1>26. v \in Seq(S) /\ Len(v) = m
  BY <1>8
<1> HIDE DEF u, v, e
<1>27. v = u
  BY <1>24, <1>25, <1>26, SeqEqual
<1> QED BY <1>27 DEF u, v, t, I, J, K, Drop

LEMMA SubList ==
  ASSUME NEW S, NEW s \in Seq(S), NEW a \in 1..Len(s) + 1, NEW b \in 0..Len(s)
  PROVE  /\ SubSeq(s, a, b) \in Seq(S)
         /\ Len(SubSeq(s, a, b)) = IF a <= b THEN b - a + 1 ELSE 0
         /\ \A i \in 1..b - a + 1 : SubSeq(s, a, b)[i] = s[a + i - 1]
         /\ Range(SubSeq(s, a, b)) = {s[i] : i \in a..b}
<1>1. Len(s) \in Nat /\ \A i \in 1..Len(s) : s[i] \in S
  BY LenProperties, ElementOfSeq
<1>2. a \in Int /\ b \in Int /\ \A i \in a..b : s[i] \in S
  BY <1>1
<1> DEFINE t == SubSeq(s, a, b)
<1>3. /\ t \in Seq(S) /\ Len(t) = IF a <= b THEN b - a + 1 ELSE 0
      /\ \A i \in 1..b - a + 1 : t[i] = s[a + i - 1]
  BY <1>2, SubSeqProperties
<1> HIDE DEF t
<1>4. DOMAIN t = 1..b - a + 1
  <2>1. DOMAIN t = 1..Len(t)
    BY <1>3, LenProperties
  <2> QED BY <1>2, <1>3, <2>1
<1>5. \A i \in a..b : i - a + 1 \in 1..b - a + 1 /\ t[i - a + 1] = s[i]
  <2> TAKE i \in a..b
  <2>1. i - a + 1 \in 1..b - a + 1 /\ a + (i - a + 1) - 1 = i
    BY <1>2
  <2> QED BY <1>3, <2>1
<1>6. \A i \in 1..b - a + 1 : a + i - 1 \in a..b
  BY <1>2
<1>7. Range(t) = {s[i] : i \in a..b}
  <2>1. ASSUME NEW x \in Range(t) PROVE x \in {s[i] : i \in a..b}
    BY <1>3, <1>4, <1>6 DEF Range
  <2>2. ASSUME NEW i \in a..b PROVE s[i] \in Range(t)
    BY <1>4, <1>5 DEF Range
  <2> QED BY <2>1, <2>2
<1> QED BY <1>3, <1>7 DEF t

\* The element at k, and what is before and after it.
LEMMA SplitAt ==
  ASSUME NEW S, NEW s \in Seq(S), IsInjective(s), NEW k \in DOMAIN s
  PROVE  /\ s = SubSeq(s, 1, k - 1) \o (<<s[k]>> \o SubSeq(s, k + 1, Len(s)))
         /\ Without(s, s[k]) = SubSeq(s, 1, k - 1) \o SubSeq(s, k + 1, Len(s))
<1>1. Len(s) \in Nat /\ DOMAIN s = 1..Len(s) /\ s[k] \in S
  BY LenProperties, ElementOfSeq
<1> DEFINE n == Len(s)
           p == SubSeq(s, 1, k - 1)
           q == SubSeq(s, k + 1, n)
           x == s[k]
<1>2. /\ 1 \in 1..n + 1 /\ k - 1 \in 0..n /\ k + 1 \in 1..n + 1 /\ n \in 0..n
      /\ 1 \in 1..n /\ k \in 1..n /\ k - 1 \in 1 - 1..n /\ n \in k - 1..n /\ n \in k..n
  BY <1>1
<1>3. p \in Seq(S) /\ Range(p) = {s[i] : i \in 1..k - 1}
  BY <1>2, SubList
<1>4. q \in Seq(S) /\ Range(q) = {s[i] : i \in k + 1..n}
  BY <1>2, SubList
<1>5. x \notin Range(p) /\ x \notin Range(q)
  <2>1. \A i \in 1..k - 1 : i \in DOMAIN s /\ i # k
    BY <1>1
  <2>2. \A i \in k + 1..n : i \in DOMAIN s /\ i # k
    BY <1>1
  <2> HIDE DEF p, q
  <2> QED BY <1>3, <1>4, <2>1, <2>2 DEF IsInjective
<1>6. s = p \o (<<x>> \o q)
  <2>1. SubSeq(s, k, n) = <<x>> \o q
    BY <1>2, SubSeqRecursiveFirst
  <2>2. SubSeq(s, 1, k - 1) \o SubSeq(s, (k - 1) + 1, n) = SubSeq(s, 1, n)
    BY <1>2, ConcatAdjacentSubSeq
  <2>3. (k - 1) + 1 = k
    BY <1>1
  <2>4. SubSeq(s, 1, n) = s
    BY SubSeqFull
  <2> QED BY <2>1, <2>2, <2>3, <2>4
<1> HIDE DEF p, q, x, n
<1>7. Drop(s, {x}) = p \o q
  <2> DEFINE o == <<x>>
             r == o \o q
             D == {x}
  <2>1. Drop(o, D) = <<>>
    BY <1>1, DropSingle DEF x
  <2>2. o \in Seq(S) /\ q \in Seq(S)
    BY <1>1, <1>4 DEF x
  <2> HIDE DEF o
  <2>9. r \in Seq(S)
    BY <2>2, ConcatProperties
  <2>3. Drop(p, D) = p /\ Drop(q, D) = q
    <3>1. Range(p) \cap D = {} /\ Range(q) \cap D = {}
      BY <1>5
    <3> HIDE DEF D
    <3> QED BY <1>3, <1>4, <3>1, DropNone
  <2> HIDE DEF D
  <2>4. Drop(r, D) = Drop(o, D) \o Drop(q, D)
    BY <2>2, DropConcat
  <2> HIDE DEF r
  <2>5. Drop(p \o r, D) = Drop(p, D) \o Drop(r, D)
    BY <1>3, <2>9, DropConcat
  <2>6. <<>> \o q = q
    BY <1>4, ConcatEmptySeq
  <2>7. s = p \o r
    BY <1>6 DEF r, o
  <2>8. Drop(s, D) = p \o q
    BY <2>1, <2>3, <2>4, <2>5, <2>6, <2>7
  <2> QED BY <2>8 DEF D
<1> QED BY <1>6, <1>7, WithoutIsDrop DEF p, q, x, n

\* Linking in between p and q.
LEMMA InsertBetween ==
  ASSUME NEW S, NEW p \in Seq(S), NEW q \in Seq(S), NEW x \in S
  PROVE  InsertAt(p \o q, Len(p) + 1, x) = p \o (<<x>> \o q)
<1> DEFINE u == p \o q
           a == SubSeq(u, 1, Len(p))
           b == SubSeq(u, Len(p) + 1, Len(u))
<1>1. Len(p) \in Nat /\ Len(q) \in Nat
  BY LenProperties
<1>2. /\ u \in Seq(S) /\ Len(u) = Len(p) + Len(q)
      /\ \A i \in 1..Len(p) + Len(q) : u[i] = IF i <= Len(p) THEN p[i] ELSE q[i - Len(p)]
  BY ConcatProperties
<1> HIDE DEF u
<1>3. a = p
  <2>1. 1 \in 1..Len(u) + 1 /\ Len(p) \in 0..Len(u)
    BY <1>1, <1>2
  <2>2. /\ a \in Seq(S) /\ Len(a) = (IF 1 <= Len(p) THEN Len(p) - 1 + 1 ELSE 0)
        /\ \A i \in 1..Len(p) - 1 + 1 : a[i] = u[1 + i - 1]
    BY <1>2, <2>1, SubList
  <2> HIDE DEF a
  <2>3. Len(a) = Len(p)
    BY <1>1, <2>2
  <2>4. ASSUME NEW i \in 1..Len(a) PROVE a[i] = p[i]
    <3>1. i \in 1..Len(p) - 1 + 1 /\ 1 + i - 1 = i /\ i \in 1..Len(p) + Len(q) /\ i <= Len(p)
      BY <1>1, <2>3
    <3>2. a[i] = u[i]
      BY <2>2, <3>1
    <3> QED BY <1>2, <3>1, <3>2
  <2> QED BY <2>2, <2>3, <2>4, SeqEqual
<1>4. b = q
  <2>1. Len(p) + 1 \in 1..Len(u) + 1 /\ Len(u) \in 0..Len(u)
    BY <1>1, <1>2
  <2>2. /\ b \in Seq(S)
        /\ Len(b) = (IF Len(p) + 1 <= Len(u) THEN Len(u) - (Len(p) + 1) + 1 ELSE 0)
        /\ \A i \in 1..Len(u) - (Len(p) + 1) + 1 : b[i] = u[Len(p) + 1 + i - 1]
    BY <1>2, <2>1, SubList
  <2> HIDE DEF b
  <2>3. Len(b) = Len(q)
    BY <1>1, <1>2, <2>2
  <2>4. ASSUME NEW i \in 1..Len(b) PROVE b[i] = q[i]
    <3>1. /\ i \in 1..Len(u) - (Len(p) + 1) + 1 /\ Len(p) + 1 + i - 1 = Len(p) + i
          /\ Len(p) + i \in 1..Len(p) + Len(q) /\ ~(Len(p) + i <= Len(p)) /\ Len(p) + i - Len(p) = i
      BY <1>1, <1>2, <2>3
    <3>2. b[i] = u[Len(p) + i]
      BY <2>2, <3>1
    <3> QED BY <1>2, <3>1, <3>2
  <2> QED BY <2>2, <2>3, <2>4, SeqEqual
<1>5. Len(p) + 1 - 1 = Len(p)
  BY <1>1
<1>6. InsertAt(u, Len(p) + 1, x) = (p \o <<x>>) \o q
  <2>1. \A i : InsertAt(u, i, x) = (SubSeq(u, 1, i - 1) \o <<x>>) \o SubSeq(u, i, Len(u))
    BY DEF InsertAt
  <2> SUFFICES ASSUME NEW i, i = Len(p) + 1, i - 1 = Len(p)
               PROVE  InsertAt(u, i, x) = (p \o <<x>>) \o q
    BY <1>5
  <2>2. SubSeq(u, 1, i - 1) = p /\ SubSeq(u, i, Len(u)) = q
    BY <1>3, <1>4
  <2> QED BY <2>1, <2>2
<1>7. <<x>> \in Seq(S)
  OBVIOUS
<1>8. (p \o <<x>>) \o q = p \o (<<x>> \o q)
  BY <1>7, ConcatAssociative
<1> QED BY <1>6, <1>8 DEF u

\* A list without repetitions is as long as it has members.
LEMMA ListSize ==
  ASSUME NEW S, NEW s \in Seq(S), IsInjective(s)
  PROVE  IsFiniteSet(Range(s)) /\ Cardinality(Range(s)) = Len(s)
<1> DEFINE D == 1..Len(s)
<1>1. Len(s) \in Nat /\ DOMAIN s = D /\ s \in [D -> S]
  BY LenProperties
<1>2. IsFiniteSet(D) /\ Cardinality(D) = Len(s)
  BY <1>1, FS_Interval
<1> HIDE DEF D
<1>3. s \in Surjection(D, Range(s))
  BY <1>1 DEF Surjection, Range
<1>4. s \in Injection(D, Range(s))
  BY <1>1, <1>3 DEF Surjection, Injection, IsInjective
<1> QED BY <1>2, <1>3, <1>4, FS_Surjection

=============================================================================
