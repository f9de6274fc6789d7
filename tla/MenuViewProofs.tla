--------------------------- MODULE MenuViewProofs ---------------------------
(***************************************************************************)
(* For any applications, letters and sizes: the list is what the query     *)
(* finds, the selected row is among those drawn, the menu shows what it    *)
(* would draw now unless it is dirty, and what is drawn goes to the memory *)
(* that is mapped.                                                         *)
(***************************************************************************)
EXTENDS MenuView, WlListProofs

-----------------------------------------------------------------------------
(* The search.  The place of each letter is a function of the one before. *)

Start == [found |-> TRUE, last |-> 0, consecutive |-> 0, score |-> 0]

\* Place number k of m is what the code makes of the one before.
MatchStep(str, q, m, k) == IF k = 0 THEN Start ELSE MatchLetter(str, m[k - 1], q[k])

\* What is defined by recursion is chosen among the functions that fit.
LEMMA MatchingIsChosen ==
  ASSUME NEW str, NEW q
  PROVE  Matching(str, q) = CHOOSE m : m = [k \in 0..Len(q) |-> MatchStep(str, q, m, k)]
BY DEF Matching, MatchStep, Start

\* and there is one: look at the shortest prefix of q without one.
LEMMA MatchingExists ==
  ASSUME NEW str, NEW q, NEW n \in Nat
  PROVE  \E m : m = [k \in 0..n |-> MatchStep(str, q, m, k)]
<1> DEFINE fits(m, i) == m = [k \in 0..i |-> MatchStep(str, q, m, k)]
           T == {i \in Nat : ~ \E m : fits(m, i)}
<1>1. CASE T = {}
  BY <1>1
<1>2. CASE T # {}
  <2>1. PICK i \in T : \A j \in T : i <= j
    BY <1>2, LeastNat
  <2>2. CASE i = 0
    <3> DEFINE m == [k \in 0..0 |-> Start]
    <3>1. fits(m, 0)
      BY DEF MatchStep
    <3> QED BY <3>1, <2>1, <2>2
  <2>3. CASE i # 0
    <3>1. i - 1 \in Nat /\ i - 1 \notin T
      BY <2>1, <2>3
    <3>2. PICK m : fits(m, i - 1)
      BY <3>1
    <3> DEFINE w == [k \in 0..i |-> IF k = i THEN MatchStep(str, q, m, i) ELSE m[k]]
    <3>3. ASSUME NEW k \in 0..i PROVE w[k] = MatchStep(str, q, w, k)
      <4>1. k # 0 => k - 1 \in 0..i - 1 /\ w[k - 1] = m[k - 1]
        BY <3>1
      <4>2. MatchStep(str, q, w, k) = MatchStep(str, q, m, k)
        BY <4>1 DEF MatchStep
      <4>3. k # i => m[k] = MatchStep(str, q, m, k)
        <5>1. ASSUME k # i PROVE k \in 0..i - 1
          BY <5>1, <3>1
        <5> QED BY <5>1, <3>2
      <4> QED BY <4>2, <4>3
    <3>4. fits(w, i)
      BY <3>3
    <3> QED BY <3>4, <2>1
  <2> QED BY <2>2, <2>3
<1> QED BY <1>1, <1>2

LEMMA MatchingIs ==
  ASSUME NEW str, NEW q, Len(q) \in Nat, NEW k \in 0..Len(q)
  PROVE  Matching(str, q)[k] = MatchStep(str, q, Matching(str, q), k)
<1> DEFINE fits(m) == m = [i \in 0..Len(q) |-> MatchStep(str, q, m, i)]
<1>1. \E m : fits(m)
  BY MatchingExists
<1>2. fits(CHOOSE m : fits(m))
  BY <1>1
<1>3. fits(Matching(str, q))
  BY <1>2, MatchingIsChosen
<1> QED BY <1>3

\* The search for one letter.
LEMMA NextMatchIs ==
  ASSUME NEW S, NEW str \in Seq(S), NEW acc, acc.last \in Nat, NEW target
  PROVE  LET idx == NextMatch(str, acc, target)
         IN  /\ idx \in 0..Len(str)
             /\ idx = 0 => \A i \in acc.last + 1..Len(str) : str[i] # target
             /\ idx # 0 => /\ idx > acc.last /\ str[idx] = target
                          /\ \A i \in acc.last + 1..Len(str) : str[i] = target => idx <= i
<1> DEFINE I == {i \in acc.last + 1..Len(str) : str[i] = target}
           idx == NextMatch(str, acc, target)
<1>1. Len(str) \in Nat
  OBVIOUS
<1>2. idx = IF I # {} THEN Min(I) ELSE 0
  BY DEF NextMatch, SelectInSubSeq
<1>3. CASE I = {}
  BY <1>1, <1>2, <1>3
<1>4. CASE I # {}
  <2>1. I \subseteq Nat /\ I \subseteq acc.last + 1..Len(str)
    BY <1>1
  <2>2. PICK n \in I : \A m \in I : n <= m
    BY <2>1, <1>4, LeastNat
  <2> HIDE DEF I
  <2>3. Min(I) \in I /\ \A m \in I : Min(I) <= m
    BY <2>2 DEF Min
  <2>4. idx \in I /\ \A m \in I : idx <= m
    BY <2>3, <1>2, <1>4
  <2> HIDE DEF idx
  <2>5. idx > acc.last /\ idx <= Len(str) /\ str[idx] = target /\ idx \in Nat
    BY <2>4, <2>1, <1>1 DEF I
  <2>6. \A i \in acc.last + 1..Len(str) : str[i] = target => idx <= i
    BY <2>4 DEF I
  <2>7. idx # 0
    BY <2>5
  <2> QED BY <2>5, <2>6, <2>7 DEF idx
<1> QED BY <1>3, <1>4

\* at is where the first k letters of q stand in str.
Placed(at, k, str, q) ==
  /\ at \in [1..k -> DOMAIN str]
  /\ \A i \in 1..k : str[at[i]] = q[i]
  /\ \A i, j \in 1..k : i < j => at[i] < at[j]

Progress == [found : BOOLEAN, last : Nat, consecutive : Nat, score : Nat]

\* Greedy: the letters found stand at some places, and no others end before.
GreedyAt(str, q, k) ==
  LET m == Matching(str, q)
  IN  /\ m[k] \in Progress
      /\ k = 0 => m[k].last = 0
      /\ m[k].found => \E at : Placed(at, k, str, q) /\ (k > 0 => at[k] = m[k].last)
      /\ \A at : Placed(at, k, str, q) => m[k].found /\ (k > 0 => m[k].last <= at[k])

LEMMA GreedyStart ==
  ASSUME NEW S, NEW str \in Seq(S), NEW T, NEW q \in Seq(T)
  PROVE  GreedyAt(str, q, 0)
<1>1. Matching(str, q)[0] = Start
  <2>1. Len(q) \in Nat /\ 0 \in 0..Len(q)
    OBVIOUS
  <2> QED BY <2>1, MatchingIs DEF MatchStep
<1> DEFINE at == [i \in 1..0 |-> 1]
<1>2. Placed(at, 0, str, q)
  BY DEF Placed
<1>3. Start \in Progress /\ Start.found = TRUE /\ Start.last = 0
  BY DEF Start, Progress
<1> HIDE DEF at
<1> QED BY <1>1, <1>2, <1>3 DEF GreedyAt

LEMMA MatchLetterIs ==
  ASSUME NEW S, NEW str \in Seq(S), NEW acc \in Progress, NEW target
  PROVE  LET next == MatchLetter(str, acc, target)
             idx == NextMatch(str, acc, target)
         IN  /\ next \in Progress
             /\ next.found = (acc.found /\ idx # 0)
             /\ next.found => next.last = idx
<1> DEFINE idx == NextMatch(str, acc, target)
           next == MatchLetter(str, acc, target)
<1>1. acc.last \in Nat /\ acc.found \in BOOLEAN /\ acc.score \in Nat /\ acc.consecutive \in Nat
  BY DEF Progress
<1>2. idx \in Nat
  <2>1. idx \in 0..Len(str) /\ Len(str) \in Nat
    BY <1>1, NextMatchIs
  <2> QED BY <2>1
<1> DEFINE run == IF idx = acc.last + 1 /\ acc.last > 0 THEN acc.consecutive + 1 ELSE 0
           starts == idx = 1 \/ str[idx - 1] \in Separator
           gain == IF starts THEN 15 ELSE 0
<1>3. CASE ~acc.found \/ idx = 0
  <2>1. next = [acc EXCEPT !.found = FALSE]
    BY <1>3 DEF MatchLetter
  <2> QED BY <2>1, <1>3, <1>1 DEF Progress
<1>4. CASE ~(~acc.found \/ idx = 0)
  <2>1. next = [found |-> TRUE, last |-> idx, consecutive |-> run,
                score |-> acc.score + 10 + 5 * run + gain]
    BY <1>4 DEF MatchLetter
  <2>2. run \in Nat /\ gain \in Nat
    BY <1>1, <1>2
  <2> HIDE DEF run, gain, idx
  <2>3. acc.score + 10 + 5 * run + gain \in Nat
    BY <2>2, <1>1
  <2> HIDE DEF next
  <2>4. next \in Progress /\ next.found = TRUE /\ next.last = idx
    BY <2>1, <2>2, <2>3, <1>2 DEF Progress
  <2> QED BY <2>4, <1>4 DEF next, idx
<1> QED BY <1>3, <1>4

LEMMA GreedyStep ==
  ASSUME NEW S, NEW str \in Seq(S), NEW T, NEW q \in Seq(T),
         NEW k \in 1..Len(q), GreedyAt(str, q, k - 1)
  PROVE  GreedyAt(str, q, k)
<1> DEFINE acc == Matching(str, q)[k - 1]
           next == Matching(str, q)[k]
           idx == NextMatch(str, acc, q[k])
<1>1. Len(q) \in Nat /\ k \in Nat /\ k > 0 /\ k - 1 \in Nat /\ k \in 0..Len(q)
  OBVIOUS
<1>2. next = MatchLetter(str, acc, q[k])
  BY <1>1, MatchingIs DEF MatchStep
<1>3. /\ acc \in Progress
      /\ k - 1 = 0 => acc.last = 0
      /\ acc.found => \E at : Placed(at, k - 1, str, q) /\ (k - 1 > 0 => at[k - 1] = acc.last)
      /\ \A at : Placed(at, k - 1, str, q) => acc.found /\ (k - 1 > 0 => acc.last <= at[k - 1])
  BY DEF GreedyAt
<1> HIDE DEF acc, next
<1>4. acc.last \in Nat
  BY <1>3 DEF Progress
<1>5. /\ next \in Progress
      /\ next.found = (acc.found /\ idx # 0)
      /\ next.found => next.last = idx
  BY <1>2, <1>3, MatchLetterIs
<1>6. /\ idx \in 0..Len(str) /\ Len(str) \in Nat
      /\ idx = 0 => \A i \in acc.last + 1..Len(str) : str[i] # q[k]
      /\ idx # 0 => /\ idx > acc.last /\ str[idx] = q[k]
                   /\ \A i \in acc.last + 1..Len(str) : str[i] = q[k] => idx <= i
  BY <1>4, NextMatchIs
<1> HIDE DEF idx
<1>7. ASSUME next.found
      PROVE  \E at : Placed(at, k, str, q) /\ at[k] = next.last
  <2>1. PICK at : Placed(at, k - 1, str, q) /\ (k - 1 > 0 => at[k - 1] = acc.last)
    BY <1>7, <1>5, <1>3
  <2>2. idx # 0 /\ next.last = idx
    BY <1>7, <1>5
  <2> DEFINE to == [i \in 1..k |-> IF i = k THEN idx ELSE at[i]]
  <2>3. DOMAIN str = 1..Len(str)
    OBVIOUS
  <2>4. ASSUME NEW i \in 1..k, i # k
        PROVE  i \in 1..k - 1 /\ to[i] = at[i] /\ at[i] \in Nat /\ at[i] <= acc.last
    <3>1. i \in 1..k - 1
      BY <2>4, <1>1
    <3>2. at[i] \in Nat
      BY <3>1, <2>1, <2>3 DEF Placed
    <3>3. k - 1 \in 1..k - 1 /\ k - 1 > 0
      BY <3>1, <1>1
    <3>4. at[i] <= at[k - 1]
      <4>1. CASE i = k - 1
        BY <4>1, <3>2
      <4>2. CASE i < k - 1
        BY <4>2, <3>1, <3>2, <3>3, <2>1, <2>3 DEF Placed
      <4> QED BY <4>1, <4>2, <3>1
    <3> QED BY <3>1, <3>2, <3>3, <3>4, <2>1, <2>4
  <2>5. to \in [1..k -> DOMAIN str]
    <3> SUFFICES ASSUME NEW i \in 1..k PROVE to[i] \in DOMAIN str
      OBVIOUS
    <3>1. CASE i = k
      BY <3>1, <2>2, <2>3, <1>6
    <3>2. CASE i # k
      BY <3>2, <2>4, <2>1 DEF Placed
    <3> QED BY <3>1, <3>2
  <2>6. ASSUME NEW i \in 1..k PROVE str[to[i]] = q[i]
    <3>1. CASE i = k
      BY <3>1, <2>2, <1>6
    <3>2. CASE i # k
      BY <3>2, <2>4, <2>1 DEF Placed
    <3> QED BY <3>1, <3>2
  <2>7. ASSUME NEW i \in 1..k, NEW j \in 1..k, i < j PROVE to[i] < to[j]
    <3>1. i # k
      BY <2>7
    <3>2. i \in 1..k - 1 /\ to[i] = at[i] /\ at[i] \in Nat /\ at[i] <= acc.last
      BY <3>1, <2>4
    <3>3. CASE j = k
      BY <3>2, <3>3, <2>2, <1>6, <1>4
    <3>4. CASE j # k
      BY <3>2, <3>4, <2>4, <2>7, <2>1 DEF Placed
    <3> QED BY <3>3, <3>4
  <2>8. Placed(to, k, str, q) /\ to[k] = next.last
    BY <2>2, <2>5, <2>6, <2>7, <1>1 DEF Placed
  <2> QED BY <2>8
<1>8. ASSUME NEW at, Placed(at, k, str, q)
      PROVE  next.found /\ next.last <= at[k]
  <2> DEFINE before == [i \in 1..k - 1 |-> at[i]]
  <2>1. \A i \in 1..k - 1 : i \in 1..k /\ before[i] = at[i] /\ i < k
    BY <1>1
  <2>2. Placed(before, k - 1, str, q)
    BY <2>1, <1>8 DEF Placed
  <2>3. acc.found /\ (k - 1 > 0 => acc.last <= before[k - 1])
    BY <2>2, <1>3
  <2>4. at[k] \in 1..Len(str) /\ str[at[k]] = q[k]
    BY <1>8, <1>1 DEF Placed
  <2>5. at[k] > acc.last
    <3>1. CASE k - 1 = 0
      BY <3>1, <1>3, <2>4
    <3>2. CASE k - 1 # 0
      <4>1. k - 1 \in 1..k - 1 /\ k - 1 > 0
        BY <3>2, <1>1
      <4>2. acc.last <= at[k - 1]
        BY <4>1, <2>1, <2>3
      <4>3. at[k - 1] < at[k] /\ at[k - 1] \in Nat
        BY <4>1, <2>1, <1>8, <1>1 DEF Placed
      <4> QED BY <4>2, <4>3, <1>4, <2>4
    <3> QED BY <3>1, <3>2
  <2>6. at[k] \in acc.last + 1..Len(str)
    BY <2>4, <2>5, <1>4, <1>6
  <2>7. idx # 0 /\ idx <= at[k]
    BY <2>4, <2>6, <1>6
  <2> QED BY <2>3, <2>7, <1>5
<1> QED BY <1>1, <1>5, <1>7, <1>8 DEF GreedyAt, acc, next

LEMMA Greedy ==
  ASSUME NEW S, NEW str \in Seq(S), NEW T, NEW q \in Seq(T), NEW k \in 0..Len(q)
  PROVE  GreedyAt(str, q, k)
<1> DEFINE U == {i \in 0..Len(q) : ~GreedyAt(str, q, i)}
<1>1. U \subseteq Nat
  OBVIOUS
<1>2. ASSUME U # {} PROVE FALSE
  <2>1. PICK i \in U : \A j \in U : i <= j
    BY <1>1, <1>2, LeastNat
  <2>2. i # 0
    BY <2>1, GreedyStart
  <2>3. i \in 1..Len(q) /\ i - 1 \in 0..Len(q) /\ i - 1 \notin U
    BY <2>1, <2>2
  <2>4. GreedyAt(str, q, i - 1)
    BY <2>3
  <2> QED BY <2>1, <2>3, <2>4, GreedyStep
<1> QED BY <1>2

\* What the greedy search decides.
LEMMA FuzzyMatchIs ==
  ASSUME NEW S, NEW str \in Seq(S), NEW T, NEW q \in Seq(T)
  PROVE  /\ fuzzy_match(str, q).score \in Nat
         /\ fuzzy_match(str, q).found = IsSubsequence(q, str)
<1>1. Len(q) \in 0..Len(q) /\ DOMAIN q = 1..Len(q)
  OBVIOUS
<1>2. GreedyAt(str, q, Len(q))
  BY <1>1, Greedy
<1> DEFINE f == fuzzy_match(str, q)
<1>3. /\ f \in Progress
      /\ f.found => \E at : Placed(at, Len(q), str, q)
      /\ \A at : Placed(at, Len(q), str, q) => f.found
  BY <1>2 DEF GreedyAt, fuzzy_match
<1>4. IsSubsequence(q, str) <=> \E at : Placed(at, Len(q), str, q)
  BY <1>1 DEF IsSubsequence, Placed
<1> HIDE DEF f
<1>5. f.found \in BOOLEAN /\ f.score \in Nat
  BY <1>3 DEF Progress
<1>6. IsSubsequence(q, str) \in BOOLEAN
  BY DEF IsSubsequence
<1> QED BY <1>3, <1>4, <1>5, <1>6 DEF f

-----------------------------------------------------------------------------
(* The sorted list.                                                        *)

LEMMA ScoreIs ==
  ASSUME NEW a \in App, NEW T, NEW q \in Seq(T)
  PROVE  /\ Score(a, q) \in Int
         /\ Score(a, q) >= 0 <=> IsSubsequence(q, Name[a]) \/ IsSubsequence(q, Exec[a])
<1> USE FuzzyAssumption DEF FuzzyAssumption
<1> DEFINE m == fuzzy_match(Name[a], q)
           n == fuzzy_match(Exec[a], q)
<1>1. m.score \in Nat /\ m.found = IsSubsequence(q, Name[a])
  <2>1. Name[a] \in Seq(Range(Name[a]))
    OBVIOUS
  <2> QED BY <2>1, FuzzyMatchIs
<1>2. n.score \in Nat /\ n.found = IsSubsequence(q, Exec[a])
  <2>1. Exec[a] \in Seq(Range(Exec[a]))
    OBVIOUS
  <2> QED BY <2>1, FuzzyMatchIs
<1>3. Score(a, q) = IF m.found THEN m.score ELSE IF n.found THEN n.score \div 2 ELSE -1
  BY DEF Score
<1> HIDE DEF m, n
<1>4. n.score \div 2 \in Nat
  BY <1>2
<1>5. CASE m.found
  BY <1>1, <1>3, <1>5
<1>6. CASE ~m.found /\ n.found
  BY <1>1, <1>2, <1>3, <1>4, <1>6
<1>7. CASE ~m.found /\ ~n.found
  BY <1>1, <1>2, <1>3, <1>7
<1> QED BY <1>5, <1>6, <1>7

LEMMA PlaceIs ==
  ASSUME NEW a \in App
  PROVE  Place(a) \in Nat /\ Place(a) \in DOMAIN Alphabetical /\ Alphabetical[Place(a)] = a
<1> DEFINE I == {i \in 1..Len(Alphabetical) : Alphabetical[i] = a}
<1>1. Alphabetical \in Seq(App) /\ DOMAIN Alphabetical = 1..Len(Alphabetical)
  BY FuzzyAssumption DEF FuzzyAssumption
<1>2. I # {}
  BY FuzzyAssumption, <1>1 DEF FuzzyAssumption, Range
<1>3. I \subseteq Nat
  BY <1>1
<1>4. PICK n \in I : \A k \in I : n <= k
  BY <1>2, <1>3, LeastNat
<1>5. Place(a) = Min(I)
  BY <1>2 DEF Place, SelectInSeq
<1> HIDE DEF I
<1>6. Min(I) \in I
  BY <1>4 DEF Min
<1> QED BY <1>5, <1>6, <1>1, <1>3 DEF I

LEMMA AppsFinite == IsFiniteSet(App)
<1>1. Alphabetical \in Seq(App) /\ Range(Alphabetical) = App /\ IsInjective(Alphabetical)
  BY FuzzyAssumption DEF FuzzyAssumption
<1> QED BY <1>1, ListSize

\* The order of the list is a total one.
LEMMA Order ==
  ASSUME NEW T, NEW q \in Seq(T), NEW a \in App, NEW b \in App
  PROVE  /\ ~compare_apps_fuzzy(a, a, q)
         /\ a # b => compare_apps_fuzzy(a, b, q) \/ compare_apps_fuzzy(b, a, q)
         /\ \A c \in App : compare_apps_fuzzy(a, b, q) /\ compare_apps_fuzzy(b, c, q)
                            => compare_apps_fuzzy(a, c, q)
<1>1. \A c \in App : Score(c, q) \in Int
  BY ScoreIs
<1>2. \A c \in App : Place(c) \in Nat /\ Alphabetical[Place(c)] = c
  BY PlaceIs
<1> QED BY <1>1, <1>2 DEF compare_apps_fuzzy

\* How many of those found come before a.
Rank(a, q) == Cardinality({b \in Found(q) : compare_apps_fuzzy(b, a, q)})

LEMMA RankIs ==
  ASSUME NEW T, NEW q \in Seq(T), NEW a \in Found(q)
  PROVE  /\ Rank(a, q) \in 0..Cardinality(Found(q)) - 1
         /\ \A b \in Found(q) : b # a => Rank(b, q) # Rank(a, q)
<1> DEFINE F == Found(q)
           ahead(c) == {b \in F : compare_apps_fuzzy(b, c, q)}
<1>1. F \subseteq App /\ IsFiniteSet(F) /\ Cardinality(F) \in Nat
  <2>1. F \in SUBSET App
    BY DEF Found
  <2> HIDE DEF F
  <2> QED BY <2>1, AppsFinite, FS_Subset, FS_CardinalityType
<1> HIDE DEF F
<1>2. ASSUME NEW c \in F
      PROVE  /\ IsFiniteSet(ahead(c)) /\ Cardinality(ahead(c)) \in Nat
             /\ Cardinality(ahead(c)) < Cardinality(F)
  <2>1. ahead(c) \in SUBSET F /\ c \notin ahead(c) /\ ahead(c) # F
    BY <1>1, Order
  <2> HIDE DEF ahead
  <2>2. IsFiniteSet(ahead(c)) /\ Cardinality(ahead(c)) <= Cardinality(F)
        /\ Cardinality(ahead(c)) # Cardinality(F)
    BY <2>1, <1>1, FS_Subset
  <2> QED BY <2>2, <1>1, FS_CardinalityType
<1>3. ASSUME NEW b \in F, NEW c \in F, compare_apps_fuzzy(b, c, q)
      PROVE  Cardinality(ahead(b)) < Cardinality(ahead(c))
  <2>1. ahead(b) \in SUBSET ahead(c)
    BY <1>1, <1>3, Order
  <2>2. b \in ahead(c) /\ b \notin ahead(b) /\ ahead(b) # ahead(c)
    BY <1>1, <1>3, Order
  <2>3. IsFiniteSet(ahead(c)) /\ Cardinality(ahead(b)) \in Nat /\ Cardinality(ahead(c)) \in Nat
    BY <1>2
  <2> HIDE DEF ahead
  <2> QED BY <2>1, <2>2, <2>3, FS_Subset
<1>4. ASSUME NEW c \in F PROVE Rank(c, q) = Cardinality(ahead(c))
  BY DEF Rank, F
<1>5. a \in F
  BY DEF F
<1>6. Rank(a, q) \in 0..Cardinality(F) - 1
  <2>1. Cardinality(ahead(a)) \in Nat /\ Cardinality(ahead(a)) < Cardinality(F)
    BY <1>2, <1>5
  <2>2. Rank(a, q) = Cardinality(ahead(a))
    BY <1>4, <1>5
  <2> HIDE DEF ahead
  <2> QED BY <2>1, <2>2, <1>1
<1>7. ASSUME NEW b \in F, b # a PROVE Rank(b, q) # Rank(a, q)
  <2>1. compare_apps_fuzzy(a, b, q) \/ compare_apps_fuzzy(b, a, q)
    BY <1>1, <1>5, <1>7, Order
  <2>2. Cardinality(ahead(a)) # Cardinality(ahead(b))
    <3>1. Cardinality(ahead(a)) \in Nat /\ Cardinality(ahead(b)) \in Nat
      BY <1>2, <1>5
    <3>2. Cardinality(ahead(a)) < Cardinality(ahead(b)) \/ Cardinality(ahead(b)) < Cardinality(ahead(a))
      BY <1>3, <1>5, <2>1
    <3> QED BY <3>1, <3>2
  <2> QED BY <2>2, <1>4, <1>5
<1> QED BY <1>6, <1>7 DEF F

LEMMA FilteredIs ==
  ASSUME NEW T, NEW q \in Seq(T)
  PROVE  /\ Filtered(q) \in Seq(App) /\ Range(Filtered(q)) = Found(q) /\ IsInjective(Filtered(q))
<1> DEFINE F == Found(q)
           n == Cardinality(F)
<1>1. CASE q = <<>>
  <2>1. Filtered(q) = Alphabetical
    BY <1>1 DEF Filtered
  <2>2. ASSUME NEW a \in App PROVE a \in F
    <3>1. IsSubsequence(<<>>, Name[a])
      <4> DEFINE at == [i \in DOMAIN <<>> |-> 1]
      <4>1. at \in [DOMAIN <<>> -> DOMAIN Name[a]] /\ DOMAIN <<>> = {}
        OBVIOUS
      <4> QED BY <4>1 DEF IsSubsequence
    <3> QED BY <3>1, <1>1, ScoreIs DEF Found
  <2>3. F = App
    BY <2>2 DEF Found
  <2> QED BY <2>1, <2>3, FuzzyAssumption DEF FuzzyAssumption
<1>2. CASE q # <<>>
  <2> DEFINE before == {p \in F \X F : compare_apps_fuzzy(p[1], p[2], q)}
             ahead(a) == {b \in F : <<b, a>> \in before}
  <2>1. Filtered(q) = [i \in 1..n |-> CHOOSE a \in F : Cardinality(ahead(a)) = i - 1]
    BY <1>2 DEF Filtered
  <2>0. ASSUME NEW a \in F PROVE Cardinality(ahead(a)) = Rank(a, q)
    <3>1. ahead(a) = {b \in Found(q) : compare_apps_fuzzy(b, a, q)}
      OBVIOUS
    <3> QED BY <3>1 DEF Rank
  <2> HIDE DEF ahead
  <2>2. F \subseteq App /\ IsFiniteSet(F) /\ n \in Nat
    <3>1. F \in SUBSET App
      BY DEF Found
    <3> HIDE DEF F
    <3> QED BY <3>1, AppsFinite, FS_Subset, FS_CardinalityType
  <2>3. \A a \in F : Rank(a, q) \in 0..n - 1
    BY RankIs
  <2>4. \A a, b \in F : a # b => Rank(a, q) # Rank(b, q)
    BY RankIs
  <2> HIDE DEF F, n
  <2>5. \A i \in 1..n : \E a \in F : Rank(a, q) = i - 1
    <3> DEFINE f == [a \in F |-> Rank(a, q) + 1]
    <3>1. f \in [F -> 1..n]
      BY <2>3, <2>2
    <3>2. f \in Injection(F, 1..n)
      BY <3>1, <2>3, <2>4 DEF Injection, IsInjective
    <3>3. IsFiniteSet(1..n) /\ Cardinality(1..n) = n
      BY <2>2, FS_Interval
    <3> HIDE DEF f
    <3>4. f \in Surjection(F, 1..n)
      BY <3>2, <3>3, FS_Injection DEF n
    <3>5. \A i \in 1..n : \E a \in F : f[a] = i
      BY <3>4 DEF Surjection
    <3>6. \A a \in F : f[a] = Rank(a, q) + 1 /\ Rank(a, q) \in Int
      BY <2>3 DEF f
    <3> QED BY <3>5, <3>6
  <2> DEFINE s == Filtered(q)
  <2>6. \A i \in 1..n : s[i] \in F /\ Rank(s[i], q) = i - 1
    <3> SUFFICES ASSUME NEW i \in 1..n PROVE s[i] \in F /\ Rank(s[i], q) = i - 1
      OBVIOUS
    <3>1. s[i] = CHOOSE a \in F : Cardinality(ahead(a)) = i - 1
      BY <2>1
    <3>2. \E a \in F : Cardinality(ahead(a)) = i - 1
      BY <2>5, <2>0
    <3>3. s[i] \in F /\ Cardinality(ahead(s[i])) = i - 1
      BY <3>1, <3>2
    <3> QED BY <3>3, <2>0
  <2>7. s \in [1..n -> F]
    BY <2>1, <2>6
  <2> HIDE DEF s
  <2>8. s \in Seq(App) /\ DOMAIN s = 1..n
    BY <2>2, <2>7
  <2>9. IsInjective(s)
    BY <2>6, <2>8, <2>2 DEF IsInjective
  <2>10. ASSUME NEW a \in F PROVE \E i \in DOMAIN s : s[i] = a
    <3>1. Rank(a, q) + 1 \in 1..n /\ Rank(a, q) \in Int
      BY <2>2, <2>3
    <3>2. s[Rank(a, q) + 1] \in F /\ Rank(s[Rank(a, q) + 1], q) = Rank(a, q)
      BY <3>1, <2>6
    <3>3. s[Rank(a, q) + 1] = a
      BY <3>2, <2>4
    <3> QED BY <3>1, <3>3, <2>8
  <2>11. Range(s) = F
    BY <2>7, <2>8, <2>10 DEF Range
  <2> QED BY <2>8, <2>9, <2>11 DEF s, F
<1> QED BY <1>1, <1>2

-----------------------------------------------------------------------------
(* The list and the selection.                                             *)

\* What filter_apps leaves: the list that belongs to the query.
Filters ==
  /\ query \in Seq(Letter)
  /\ filtered = Filtered(query)

LEMMA FiltersInit == Init => Filters
<1>1. <<>> \in Seq(Letter)
  OBVIOUS
<1> QED BY <1>1 DEF Init, Filters

LEMMA FiltersStep == ASSUME Filters, [Next]_vars PROVE Filters'
<1>1. ASSUME NEW q \in Seq(Letter), Edit(q) PROVE Filters'
  BY <1>1 DEF Edit, Filters
<1>2. CASE UNCHANGED <<query, filtered>>
  BY <1>2 DEF Filters
<1>3. CASE Input
  <2>1. ASSUME NEW c \in Letter, Edit(Append(query, c)) PROVE Filters'
    <3>1. Append(query, c) \in Seq(Letter)
      BY DEF Filters
    <3> QED BY <1>1, <2>1, <3>1
  <2>2. ASSUME query # <<>>, Edit(Front(query)) PROVE Filters'
    <3>1. query \in Seq(Letter) /\ Len(query) \in Nat /\ Len(query) - 1 \in 0..Len(query)
      BY <2>2 DEF Filters
    <3>2. SubSeq(query, 1, Len(query) - 1) \in Seq(Letter)
      BY <3>1
    <3>3. Front(query) \in Seq(Letter)
      BY <3>2 DEF Front
    <3> QED BY <1>1, <2>2, <3>3
  <2>3. ASSUME NEW row, pointer_motion(row) \/ pointer_button(row)
        PROVE  UNCHANGED <<query, filtered>>
    BY <2>3 DEF pointer_motion, pointer_button
  <2>4. ASSUME Escape \/ Return \/ Down \/ Up PROVE UNCHANGED <<query, filtered>>
    BY <2>4 DEF Escape, Return, Down, Up
  <2> QED BY <1>2, <1>3, <2>1, <2>2, <2>3, <2>4 DEF Input
<1>4. ASSUME ~Input PROVE UNCHANGED <<query, filtered>>
  <2>1. ASSUME NEW size, menu_layer_configure(size) PROVE UNCHANGED input
    BY <2>1 DEF menu_layer_configure
  <2>2. ASSUME NEW h, buffer_release(h) PROVE UNCHANGED input
    BY <2>2 DEF buffer_release
  <2>3. ASSUME render PROVE UNCHANGED input
    BY <2>3 DEF render
  <2>4. UNCHANGED input
    BY <1>4, <2>1, <2>2, <2>3 DEF Next, vars
  <2> QED BY <2>4 DEF input
<1> QED BY <1>2, <1>3, <1>4

\* The greedy search misses nothing: the list has, once each, the applications
\* whose name or command has the letters of the query in their order.
THEOREM ListsWhatMatches == Spec => []ListIsFiltered
<1>1. Filters => ListIsFiltered
  <2> SUFFICES ASSUME Filters PROVE ListIsFiltered
    OBVIOUS
  <2>1. /\ query \in Seq(Letter) /\ filtered \in Seq(App)
        /\ Range(filtered) = Found(query) /\ IsInjective(filtered)
    BY FilteredIs DEF Filters
  <2>2. Len(filtered) = Cardinality(Range(filtered))
    BY <2>1, ListSize
  <2>3. Found(query) = {a \in App : IsSubsequence(query, Name[a]) \/ IsSubsequence(query, Exec[a])}
    BY <2>1, ScoreIs DEF Found
  <2> QED BY <2>1, <2>2, <2>3 DEF ListIsFiltered
<1> QED BY <1>1, FiltersInit, FiltersStep, PTL DEF Spec

\* The selection is in a list that has something in it, and in the rows drawn.
Selects ==
  /\ sel \in Int /\ scroll_offset \in Nat
  /\ nfiltered > 0 => sel \in 0..nfiltered - 1
  /\ menu # UNSIZED /\ ~dirty /\ nfiltered > 0
       => sel \in scroll_offset..scroll_offset + MAX_ITEMS - 1

LEMMA ListLength == ASSUME Filters PROVE nfiltered \in Nat
<1>1. filtered \in Seq(App)
  BY FilteredIs DEF Filters
<1> QED BY <1>1 DEF nfiltered

LEMMA SelectsInput ==
  ASSUME Filters, Selects, Input, nfiltered \in Nat, nfiltered' \in Nat
  PROVE  Selects'
<1> USE MenuViewAssumption DEF MenuViewAssumption
<1>1. UNCHANGED <<scroll_offset, menu>>
  BY DEF Input, drawing
<1>2. CASE UNCHANGED <<sel, filtered, dirty>>
  BY <1>1, <1>2 DEF Selects, nfiltered
<1>3. ASSUME dirty' = TRUE, sel' \in Int, nfiltered' > 0 => sel' \in 0..nfiltered' - 1
      PROVE  Selects'
  BY <1>1, <1>3 DEF Selects
<1>4. CASE Escape \/ Return
  BY <1>2, <1>4 DEF Escape, Return
<1>5. CASE Down
  <2>1. UNCHANGED nfiltered /\ dirty' = TRUE
    BY <1>5 DEF Down, nfiltered
  <2>2. sel' = 0 \/ (sel + 1 < nfiltered /\ sel' = sel + 1) \/ sel' = nfiltered - 1
    BY <1>5 DEF Down
  <2> QED BY <2>1, <2>2, <1>3 DEF Selects
<1>6. CASE Up
  <2>1. UNCHANGED nfiltered /\ dirty' = TRUE
    BY <1>6 DEF Up, nfiltered
  <2>2. sel' = sel \/ (sel # 0 /\ sel' = sel - 1)
    BY <1>6 DEF Up
  <2> QED BY <2>1, <2>2, <1>3 DEF Selects
<1>7. ASSUME NEW q, Edit(q) PROVE Selects'
  <2>1. dirty' = TRUE /\ sel' = 0
    BY <1>7 DEF Edit
  <2> DEFINE n == nfiltered'
  <2>2. n \in Nat
    OBVIOUS
  <2> HIDE DEF n
  <2>3. n > 0 => 0 \in 0..n - 1
    BY <2>2
  <2>4. nfiltered' > 0 => sel' \in 0..nfiltered' - 1
    BY <2>1, <2>3 DEF n
  <2>5. sel' \in Int
    BY <2>1
  <2> QED BY <2>1, <2>4, <2>5, <1>3
<1>8. ASSUME NEW row \in -1..(MAX_ITEMS - 1), pointer_motion(row) PROVE Selects'
  <2>1. UNCHANGED nfiltered /\ dirty' = TRUE
    BY <1>8 DEF pointer_motion, nfiltered
  <2>2. sel' = sel \/ (row # -1 /\ sel' = scroll_offset + row /\ sel' < nfiltered)
    BY <1>8 DEF pointer_motion
  <2>3. row # -1 => row >= 0
    OBVIOUS
  <2> QED BY <2>1, <2>2, <2>3, <1>3 DEF Selects
<1>9. ASSUME NEW row, pointer_button(row) PROVE Selects'
  BY <1>2, <1>9 DEF pointer_button
<1> QED BY <1>4, <1>5, <1>6, <1>7, <1>8, <1>9 DEF Input

LEMMA SelectsStep == ASSUME Filters, Selects, [Next]_vars PROVE Selects'
<1> USE MenuViewAssumption DEF MenuViewAssumption
<1>1. nfiltered \in Nat
  BY ListLength
<1>2. nfiltered' \in Nat
  <2>1. Filters'
    BY FiltersStep
  <2>2. filtered' = Filtered(query') /\ query' \in Seq(Letter)
    BY <2>1 DEF Filters
  <2>3. filtered' \in Seq(App)
    BY <2>2, FilteredIs
  <2> QED BY <2>3 DEF nfiltered
<1>3. CASE Input
  BY <1>1, <1>2, <1>3, SelectsInput
<1>4. ASSUME NEW size, menu_layer_configure(size) PROVE Selects'
  BY <1>4 DEF menu_layer_configure, Selects, input, drawing, nfiltered
<1>5. ASSUME NEW h, buffer_release(h) PROVE Selects'
  BY <1>5 DEF buffer_release, Selects, input, drawing, nfiltered
<1>6. CASE render
  <2>1. scroll_offset' = ScrolledTo /\ UNCHANGED <<sel, filtered, menu>> /\ UNCHANGED nfiltered
    BY <1>6 DEF render, input, nfiltered
  <2>2. ScrolledTo \in Nat
    BY DEF ScrolledTo, Selects
  <2>3. sel >= 0 => sel \in ScrolledTo..ScrolledTo + MAX_ITEMS - 1
    BY DEF ScrolledTo, Selects
  <2>4. nfiltered > 0 => sel \in 0..nfiltered - 1 /\ sel >= 0
    BY <1>1 DEF Selects
  <2> QED BY <2>1, <2>2, <2>3, <2>4 DEF Selects
<1>7. CASE UNCHANGED vars
  BY <1>7 DEF vars, input, drawing, Selects, nfiltered
<1> QED BY <1>3, <1>4, <1>5, <1>6, <1>7 DEF Next

\* The selected row is among those that are drawn.
THEOREM DrawsTheSelection == Spec => []SelectionIsDrawn
<1>1. Init => Filters /\ Selects
  <2> SUFFICES ASSUME Init PROVE Filters /\ Selects
    OBVIOUS
  <2>1. Filters
    BY FiltersInit
  <2>2. nfiltered \in Nat
    BY <2>1, ListLength
  <2>3. nfiltered > 0 => 0 \in 0..nfiltered - 1
    BY <2>2
  <2>4. sel = 0 /\ scroll_offset = 0 /\ menu = UNSIZED
    BY DEF Init
  <2> QED BY <2>1, <2>3, <2>4 DEF Selects
<1>2. Filters /\ Selects /\ [Next]_vars => (Filters /\ Selects)'
  BY FiltersStep, SelectsStep
<1>3. Filters /\ Selects => SelectionIsDrawn
  BY DEF Selects, SelectionIsDrawn
<1> QED BY <1>1, <1>2, <1>3, PTL DEF Spec

USE MenuViewAssumption DEF MenuViewAssumption

-----------------------------------------------------------------------------
(* What a step of the user does to what is shown.                          *)

\* Nothing that is seen changes, or the menu gets dirty.
LEMMA InputSeen ==
  ASSUME Input
  PROVE  /\ UNCHANGED <<drawing, menu, map, busy, held>>
         /\ UNCHANGED <<query, focus_zone, sel, filtered, dirty>> \/ dirty' = TRUE
<1>1. UNCHANGED <<drawing, menu, map, busy, held>>
  BY DEF Input
<1>2. UNCHANGED <<query, focus_zone, sel, filtered, dirty>> \/ dirty' = TRUE
  <2>1. ASSUME NEW q, Edit(q) PROVE dirty' = TRUE
    BY <2>1 DEF Edit
  <2>2. ASSUME NEW row, pointer_motion(row) PROVE dirty' = TRUE
    BY <2>2 DEF pointer_motion
  <2>3. ASSUME NEW row, pointer_button(row)
        PROVE  UNCHANGED <<query, focus_zone, sel, filtered, dirty>>
    BY <2>3 DEF pointer_button
  <2>4. CASE Escape \/ Return
    BY <2>4 DEF Escape, Return
  <2>5. CASE Down \/ Up
    BY <2>5 DEF Down, Up
  <2> QED BY <2>1, <2>2, <2>3, <2>4, <2>5 DEF Input
<1> QED BY <1>1, <1>2

\* No key and no movement changes the list, the selection or the zone unseen.
THEOREM FrameStaysCurrent == Spec => []FrameIsCurrent
<1>1. Init => FrameIsCurrent
  BY DEF Init, FrameIsCurrent
<1>2. FrameIsCurrent /\ [Next]_vars => FrameIsCurrent'
  <2> SUFFICES ASSUME FrameIsCurrent, [Next]_vars PROVE FrameIsCurrent'
    OBVIOUS
  <2>1. CASE Input
    BY <2>1, InputSeen DEF FrameIsCurrent, View, drawing
  <2>2. ASSUME NEW size \in Size, menu_layer_configure(size) PROVE FrameIsCurrent'
    BY <2>2 DEF menu_layer_configure, FrameIsCurrent
  <2>3. ASSUME NEW h \in held, buffer_release(h) PROVE FrameIsCurrent'
    BY <2>3 DEF buffer_release, FrameIsCurrent, View, drawing, input
  <2>4. CASE render
    BY <2>4 DEF render, FrameIsCurrent, View, input
  <2>5. CASE UNCHANGED vars
    BY <2>5 DEF vars, drawing, input, FrameIsCurrent, View
  <2> QED BY <2>1, <2>2, <2>3, <2>4, <2>5 DEF Next
<1> QED BY <1>1, <1>2, PTL DEF Spec

-----------------------------------------------------------------------------
(* The memory that is drawn into.                                          *)

\* A cairo surface made for the size the menu has draws into the mapping, and a
\* menu that has been drawn has been drawn at its size.
CairoInv ==
  /\ cairo \in [Buffer -> Nat] /\ map \in Nat
  /\ menu = UNSIZED => cairo_size = UNSIZED
  /\ menu # UNSIZED /\ cairo_size = menu => \A b \in Buffer : cairo[b] \in {0, map}
  /\ menu # UNSIZED /\ ~dirty => cairo_size = menu

LEMMA CairoStep == ASSUME Calm, CairoInv, [Next]_vars PROVE CairoInv'
<1>1. CASE Input
  BY <1>1, InputSeen DEF CairoInv, drawing
<1>2. ASSUME NEW size \in Size, menu_layer_configure(size) PROVE CairoInv'
  <2>1. ~dirty /\ size # UNSIZED /\ menu # size
    BY <1>2 DEF menu_layer_configure
  <2>2. cairo_size # size
    BY <2>1 DEF CairoInv
  <2> QED BY <1>2, <2>1, <2>2 DEF menu_layer_configure, CairoInv, drawing
<1>3. ASSUME NEW h \in held, buffer_release(h) PROVE CairoInv'
  BY <1>3 DEF buffer_release, CairoInv, drawing
<1>4. CASE render
  <2>1. PICK b \in Buffer : ensure_cairo_menu(b)
    BY <1>4 DEF render
  <2>2. menu # UNSIZED /\ UNCHANGED <<menu, map>>
    BY <1>4 DEF render
  <2> QED BY <2>1, <2>2 DEF ensure_cairo_menu, CairoInv
<1>5. CASE UNCHANGED vars
  BY <1>5 DEF vars, drawing, CairoInv
<1> QED BY <1>1, <1>2, <1>3, <1>4, <1>5 DEF Next

\* If the surface is only resized when it has been drawn and its buffers are
\* back, what is drawn goes to the memory that is mapped.
THEOREM DrawsIntoMappingIfCalm == Calm => (Spec => DrawsIntoMapping)
<1> SUFFICES ASSUME Calm PROVE Spec => DrawsIntoMapping
  OBVIOUS
<1> DEFINE Drawn == \A h \in held' \ held : cairo'[h[2]] = h[1]
<1>1. Init => CairoInv
  BY DEF Init, CairoInv, Buffer
<1>2. CairoInv /\ [Next]_vars => CairoInv'
  BY CairoStep
<1>3. CairoInv /\ [Next]_vars => [Drawn]_vars
  <2> SUFFICES ASSUME CairoInv, [Next]_vars PROVE Drawn
    OBVIOUS
  <2>1. CASE UNCHANGED held
    BY <2>1
  <2>2. ASSUME NEW h \in held, buffer_release(h) PROVE Drawn
    BY <2>2 DEF buffer_release
  <2>3. CASE render
    <3>1. PICK b \in Buffer : held' = held \cup {<<map, b>>} /\ ensure_cairo_menu(b)
      BY <2>3 DEF render
    <3>2. menu # UNSIZED
      BY <2>3 DEF render
    <3>3. cairo'[b] = map
      BY <3>1, <3>2 DEF ensure_cairo_menu, CairoInv
    <3> QED BY <3>1, <3>3
  <2>4. ASSUME NEW size \in Size, menu_layer_configure(size) PROVE UNCHANGED held
    BY <2>4 DEF menu_layer_configure
  <2>5. ASSUME Input \/ UNCHANGED vars PROVE UNCHANGED held
    BY <2>5 DEF Input, vars
  <2> QED BY <2>1, <2>2, <2>3, <2>4, <2>5 DEF Next
<1> QED BY <1>1, <1>2, <1>3, PTL DEF Spec, DrawsIntoMapping

=============================================================================
