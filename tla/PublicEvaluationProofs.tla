----------------------- MODULE PublicEvaluationProofs -----------------------
(***************************************************************************)
(* What PublicEvaluation guarantees for any corpus, providers, queries,    *)
(* limits and datasets: the cache, the evidence of an answer, the order of *)
(* the fusion, and the counters of the evaluators.                         *)
(***************************************************************************)
EXTENDS PublicEvaluation, FiniteSetTheorems, TLAPS

-----------------------------------------------------------------------------
(* Sorting *)

StrictOrder(S, before) ==
    /\ \A i \in S : <<i, i>> \notin before
    /\ \A i, j \in S : i # j => <<i, j>> \in before \/ <<j, i>> \in before
    /\ \A i, j, k \in S : <<i, j>> \in before /\ <<j, k>> \in before => <<i, k>> \in before

\* A function on the first n positions is a list of n elements.
LEMMA ListsAre ==
  ASSUME NEW S, NEW n \in Nat, NEW f \in [1 .. n -> S]
  PROVE  f \in Seq(S) /\ Len(f) = n
OBVIOUS

\* Sorted lists every element of a finite set once, in the order given: the
\* number of elements that precede an element grows along the order, so it is
\* an injection of the set into the positions, and therefore onto them.
LEMMA SortedLists ==
  ASSUME NEW S, IsFiniteSet(S), NEW before, StrictOrder(S, before)
  PROVE  /\ Cardinality(S) \in Nat
         /\ Sorted(S, before) \in Seq(S) /\ Len(Sorted(S, before)) = Cardinality(S)
         /\ \A k, m \in 1 .. Cardinality(S) :
               k < m => <<Sorted(S, before)[k], Sorted(S, before)[m]>> \in before
         /\ \A i \in S : \E k \in 1 .. Cardinality(S) : Sorted(S, before)[k] = i
<1> DEFINE n == Cardinality(S)
           ahead(i) == { j \in S : <<j, i>> \in before }
           at == [i \in S |-> Cardinality(ahead(i)) + 1]
           nth == [k \in 1 .. n |-> CHOOSE i \in S : Cardinality(ahead(i)) = k - 1]
<1>1. n \in Nat
  BY FS_CardinalityType
<1>2. ASSUME NEW i \in S
      PROVE  /\ IsFiniteSet(ahead(i)) /\ Cardinality(ahead(i)) \in Nat
             /\ Cardinality(ahead(i)) < n
  <2>1. ahead(i) \in SUBSET (S \ {i})
    BY DEF StrictOrder
  <2>2. IsFiniteSet(S \ {i}) /\ Cardinality(S \ {i}) = n - 1
    BY FS_RemoveElement
  <2>3. IsFiniteSet(ahead(i)) /\ Cardinality(ahead(i)) <= Cardinality(S \ {i})
    BY <2>1, <2>2, FS_Subset
  <2>4. Cardinality(ahead(i)) \in Nat
    BY <2>3, FS_CardinalityType
  <2> QED
    BY <1>1, <2>2, <2>3, <2>4
<1>3. at \in [S -> 1 .. n]
  <2>1. \A i \in S : Cardinality(ahead(i)) + 1 \in 1 .. n
    <3> HIDE DEF ahead, n
    <3> QED
      BY <1>1, <1>2
  <2> HIDE DEF ahead, n
  <2> QED
    BY <2>1
<1>4. ASSUME NEW i \in S, NEW j \in S, <<i, j>> \in before PROVE at[i] < at[j]
  <2>1. i \notin ahead(i) /\ ahead(i) \cup {i} \in SUBSET ahead(j)
    BY <1>4 DEF StrictOrder
  <2>2. Cardinality(ahead(i) \cup {i}) = Cardinality(ahead(i)) + 1
    BY <1>2, <2>1, FS_AddElement
  <2>3. Cardinality(ahead(i) \cup {i}) <= Cardinality(ahead(j))
    BY <1>2, <2>1, FS_Subset
  <2> QED
    BY <1>2, <2>2, <2>3
<1>5. \A i, j \in S : at[i] = at[j] => i = j
  <2> SUFFICES ASSUME NEW i \in S, NEW j \in S, i # j PROVE at[i] # at[j]
    OBVIOUS
  <2>1. at[i] \in Nat /\ at[j] \in Nat
    <3> HIDE DEF at, n
    <3> QED
      BY <1>1, <1>3
  <2> HIDE DEF at
  <2>2. <<i, j>> \in before \/ <<j, i>> \in before
    BY DEF StrictOrder
  <2> QED
    BY <1>4, <2>1, <2>2
<1>6. ASSUME NEW k \in 1 .. n PROVE \E i \in S : at[i] = k
  <2>1. IsFiniteSet(1 .. n) /\ Cardinality(1 .. n) = n
    BY <1>1, FS_Interval
  <2>2. at \in Injection(S, 1 .. n)
    BY <1>3, <1>5 DEF Injection, IsInjective
  <2>3. at \in Surjection(S, 1 .. n)
    BY <2>1, <2>2, FS_Injection
  <2> QED
    BY <2>3 DEF Surjection
<1>7. ASSUME NEW k \in 1 .. n PROVE nth[k] \in S /\ at[nth[k]] = k
  <2>1. \E i \in S : Cardinality(ahead(i)) = k - 1
    <3>1. PICK i \in S : at[i] = k
      BY <1>6
    <3>2. Cardinality(ahead(i)) = k - 1
      <4> HIDE DEF ahead
      <4> QED
        BY <1>2, <3>1
    <3> QED
      BY <3>2
  <2>2. nth[k] \in S /\ Cardinality(ahead(nth[k])) = k - 1
    BY <2>1
  <2> HIDE DEF ahead, nth
  <2> QED
    BY <2>2
<1>8. nth \in Seq(S) /\ Len(nth) = n
  <2> HIDE DEF at, ahead, n
  <2>1. \A k \in 1 .. n : (CHOOSE i \in S : Cardinality(ahead(i)) = k - 1) \in S
    BY <1>7
  <2> QED
    BY <1>1, <2>1
<1>9. Sorted(S, before) = nth
  <2>1. SubSeq(nth, 1, n) = nth
    BY <1>1, <1>8
  <2> QED
    BY <2>1 DEF Sorted
<1> HIDE DEF n, at, nth
<1>10. ASSUME NEW k \in 1 .. n, NEW m \in 1 .. n, k < m PROVE <<nth[k], nth[m]>> \in before
  <2>1. nth[k] # nth[m] /\ <<nth[m], nth[k]>> \notin before
    BY <1>1, <1>4, <1>7, <1>10
  <2> QED
    BY <1>7, <2>1 DEF StrictOrder
<1>11. ASSUME NEW i \in S PROVE \E k \in 1 .. n : nth[k] = i
  BY <1>3, <1>5, <1>7
<1> QED
  BY <1>1, <1>8, <1>9, <1>10, <1>11 DEF n

\* The two orders that the code sorts by.
LEMMA AscendingOrders ==
  ASSUME NEW S \in SUBSET Int
  PROVE  StrictOrder(S, Ascending(S))
BY DEF StrictOrder, Ascending

LEMMA DescendingOrders ==
  ASSUME NEW S \in SUBSET Int, NEW score, \A i \in S : score[i] \in Int
  PROVE  StrictOrder(S, Descending(S, score))
BY DEF StrictOrder, Descending

-----------------------------------------------------------------------------
(* Rankings *)

LEMMA MinIs ==
  ASSUME NEW S \in SUBSET Int, IsFiniteSet(S), S # {}
  PROVE  Min(S) \in S /\ \A x \in S : Min(S) <= x
<1> DEFINE order == Sorted(S, Ascending(S))
           c == Cardinality(S)
<1>1. StrictOrder(S, Ascending(S))
  BY AscendingOrders
<1>2. /\ c \in Nat /\ order \in Seq(S) /\ Len(order) = c
      /\ \A k, m \in 1 .. c : k < m => <<order[k], order[m]>> \in Ascending(S)
      /\ \A i \in S : \E k \in 1 .. c : order[k] = i
  BY <1>1, SortedLists
<1> HIDE DEF order, c
<1>3. \E n \in S : \A m \in S : n <= m
  <2>0. 1 \in 1 .. c
    <3>1. PICK i \in S : TRUE
      OBVIOUS
    <3>2. PICK k \in 1 .. c : order[k] = i
      BY <1>2, <3>1
    <3> QED
      BY <1>2, <3>2
  <2>1. \A k \in 1 .. c : order[k] \in S
    BY <1>2
  <2>2. \A k \in 1 .. c : 1 < k => order[1] < order[k]
    BY <1>2, <2>0 DEF Ascending
  <2>3. ASSUME NEW m \in S PROVE order[1] <= m
    <3>1. PICK k \in 1 .. c : order[k] = m
      BY <1>2
    <3>2. order[1] \in Int /\ order[k] \in Int
      BY <2>0, <2>1
    <3>3. k = 1 \/ 1 < k
      BY <1>2
    <3> QED
      BY <2>2, <3>1, <3>2, <3>3
  <2> QED
    BY <2>0, <2>1, <2>3
<1> QED
  BY <1>3 DEF Min

\* The rank of an id is its first position.
LEMMA RankIs ==
  ASSUME NEW list \in Seq(Chunk), NEW id \in Ids(list)
  PROVE  /\ Rank(list, id) \in 1 .. Len(list)
         /\ list[Rank(list, id)].id = id
         /\ \A i \in 1 .. Len(list) : list[i].id = id => Rank(list, id) <= i
<1> DEFINE S == { i \in DOMAIN list : list[i].id = id }
<1>1. S \in SUBSET (1 .. Len(list)) /\ S # {} /\ DOMAIN list = 1 .. Len(list)
  BY DEF Ids
<1>4. S \in SUBSET Int /\ IsFiniteSet(S)
  BY <1>1, FS_Interval, FS_Subset
<1>2. Min(S) \in S /\ \A x \in S : Min(S) <= x
  BY <1>1, <1>4, MinIs
<1>3. Rank(list, id) = Min(S)
  BY DEF Rank
<1> QED
  BY <1>1, <1>2, <1>3

\* Deduplication keeps the first entry of every id, in the order of the list.
LEMMA DeduplicatedIs ==
  ASSUME NEW list \in Seq(Chunk), NEW d, d = Deduplicated(list)
  PROVE  /\ d \in Seq(Chunk) /\ Ids(d) = Ids(list)
         /\ \A n \in 1 .. Len(d) : /\ d[n].id \in Ids(list)
                                   /\ d[n] = list[Rank(list, d[n].id)]
         /\ \A m, n \in 1 .. Len(d) :
               m < n => Rank(list, d[m].id) < Rank(list, d[n].id)
<1> DEFINE first == { i \in DOMAIN list : Rank(list, list[i].id) = i }
           order == Sorted(first, Ascending(first))
           c == Cardinality(first)
<1>1. first \in SUBSET (1 .. Len(list)) /\ first \in SUBSET Int
  OBVIOUS
<1>2. IsFiniteSet(first)
  BY <1>1, FS_Interval, FS_Subset
<1>0. StrictOrder(first, Ascending(first))
  BY <1>1, AscendingOrders
<1> HIDE DEF first
<1>3. /\ c \in Nat
      /\ order \in Seq(first) /\ Len(order) = c
      /\ \A k, m \in 1 .. c : k < m => <<order[k], order[m]>> \in Ascending(first)
      /\ \A i \in first : \E k \in 1 .. c : order[k] = i
  BY <1>0, <1>2, SortedLists
<1>4. d = [n \in 1 .. c |-> list[order[n]]]
  BY DEF Deduplicated, first
<1> HIDE DEF order, c
<1>5. \A n \in 1 .. c : order[n] \in first
  BY <1>3
<1>6. \A i \in first : i \in 1 .. Len(list) /\ Rank(list, list[i].id) = i /\ list[i] \in Chunk
  BY <1>1 DEF first
<1>7. d \in Seq(Chunk) /\ Len(d) = c /\ \A n \in 1 .. c : d[n] = list[order[n]]
  BY <1>3, <1>4, <1>5, <1>6
<1>8. \A n \in 1 .. c : Rank(list, d[n].id) = order[n] /\ d[n].id \in Ids(list)
  BY <1>5, <1>6, <1>7 DEF Ids
<1>9. \A m, n \in 1 .. c : m < n => order[m] < order[n]
  BY <1>3 DEF Ascending
<1>10. ASSUME NEW id \in Ids(list) PROVE id \in Ids(d)
  <2>1. Rank(list, id) \in first /\ list[Rank(list, id)].id = id
    BY RankIs DEF first
  <2>2. PICK k \in 1 .. c : order[k] = Rank(list, id)
    BY <1>3, <2>1
  <2> QED
    BY <1>7, <2>1, <2>2 DEF Ids
<1>11. Ids(d) \subseteq Ids(list)
  BY <1>7, <1>8 DEF Ids
<1> QED
  BY <1>7, <1>8, <1>9, <1>10, <1>11

LEMMA DeduplicatedRanks ==
  ASSUME NEW list \in Seq(Chunk), NEW d, d = Deduplicated(list)
  PROVE  /\ \A m, n \in 1 .. Len(d) : d[m].id = d[n].id => m = n
         /\ \A a, b \in Ids(list) : Rank(list, a) < Rank(list, b) => Rank(d, a) < Rank(d, b)
<1>1. /\ d \in Seq(Chunk) /\ Ids(d) = Ids(list)
      /\ \A n \in 1 .. Len(d) : d[n].id \in Ids(list)
      /\ \A m, n \in 1 .. Len(d) : m < n => Rank(list, d[m].id) < Rank(list, d[n].id)
  BY DeduplicatedIs
<1>2. \A a \in Ids(list) : Rank(list, a) \in Nat
  BY RankIs
<1>3. ASSUME NEW m \in 1 .. Len(d), NEW n \in 1 .. Len(d), m < n PROVE d[m].id # d[n].id
  BY <1>1, <1>2, <1>3
<1>4. ASSUME NEW a \in Ids(list), NEW b \in Ids(list), Rank(list, a) < Rank(list, b)
      PROVE  Rank(d, a) < Rank(d, b)
  <2>1. /\ Rank(d, a) \in 1 .. Len(d) /\ d[Rank(d, a)].id = a
        /\ Rank(d, b) \in 1 .. Len(d) /\ d[Rank(d, b)].id = b
    BY <1>1, RankIs
  <2> QED
    BY <1>1, <1>2, <1>4, <2>1
<1> QED
  BY <1>1, <1>3, <1>4

\* A share falls with the rank.
LEMMA SharesFall ==
  ASSUME NEW s \in Nat, NEW x \in Nat \ {0}, NEW y \in Nat \ {0}, x <= y
  PROVE  s \div x \in Nat /\ s \div y \in Nat /\ s \div y <= s \div x
<1> DEFINE p == s \div x
           q == s \div y
<1>1. p \in Nat /\ q \in Nat
  OBVIOUS
<1>2. s < x * (p + 1)
  OBVIOUS
<1>3. y * q <= s
  OBVIOUS
<1> HIDE DEF p, q
<1>4. ASSUME p < q PROVE FALSE
  <2>1. x * (p + 1) <= x * q
    BY <1>1, <1>4
  <2>2. x * q <= y * q
    BY <1>1
  <2>3. x * (p + 1) \in Nat /\ x * q \in Nat /\ y * q \in Nat
    BY <1>1
  <2> QED
    BY <1>2, <1>3, <2>1, <2>2, <2>3
<1>5. q <= p
  BY <1>1, <1>4
<1> QED
  BY <1>1, <1>5 DEF p, q

\* One provider does not prefer b to a.
NoWorse(list, a, b) == b \in Ids(list) => a \in Ids(list) /\ Rank(list, a) < Rank(list, b)

LEMMA ShareIs ==
  ASSUME NEW list \in Seq(Chunk), NEW d, d = Deduplicated(list), NEW a, NEW b
  PROVE  /\ Share(d, a) \in Nat /\ Share(d, b) \in Nat
         /\ NoWorse(list, a, b) => Share(d, b) <= Share(d, a)
<1>1. d \in Seq(Chunk) /\ Ids(d) = Ids(list)
  BY DeduplicatedIs
<1>2. RRF_K \in Nat \ {0} /\ Scale \in Nat
  BY FusionOK
<1>3. ASSUME NEW id PROVE Share(d, id) \in Nat
  <2>1. CASE id \in Ids(d)
    <3>1. Rank(d, id) \in Nat
      BY <1>1, <2>1, RankIs
    <3>2. RRF_K + Rank(d, id) \in Nat \ {0}
      BY <1>2, <3>1
    <3>3. Scale \div (RRF_K + Rank(d, id)) \in Nat
      BY <1>2, <3>2, SharesFall
    <3> QED
      BY <2>1, <3>3 DEF Share
  <2>2. CASE id \notin Ids(d)
    BY <2>2 DEF Share
  <2> QED
    BY <2>1, <2>2
<1>4. ASSUME NoWorse(list, a, b) PROVE Share(d, b) <= Share(d, a)
  <2>1. CASE b \notin Ids(list)
    <3>1. Share(d, b) = 0
      BY <1>1, <2>1 DEF Share
    <3> QED
      BY <1>3, <3>1
  <2>2. CASE b \in Ids(list)
    <3>1. a \in Ids(list) /\ Rank(list, a) < Rank(list, b)
      BY <1>4, <2>2 DEF NoWorse
    <3>2. Rank(d, a) < Rank(d, b)
      BY <2>2, <3>1, DeduplicatedRanks
    <3>3. Rank(d, a) \in Nat /\ Rank(d, b) \in Nat
      BY <1>1, <2>2, <3>1, RankIs
    <3> DEFINE x == RRF_K + Rank(d, a)
               y == RRF_K + Rank(d, b)
    <3>4. x \in Nat \ {0} /\ y \in Nat \ {0} /\ x <= y
      BY <1>2, <3>2, <3>3
    <3>5. Scale \div y <= Scale \div x
      <4> HIDE DEF x, y
      <4> QED
        BY <1>2, <3>4, SharesFall
    <3> QED
      BY <1>1, <2>2, <3>1, <3>5 DEF Share
  <2> QED
    BY <2>1, <2>2
<1> QED
  BY <1>3, <1>4

\* Positions in two rankings, one after the other.
LEMMA JoinedRanks ==
  ASSUME NEW s \in Seq(Chunk), NEW t \in Seq(Chunk), NEW a, NEW b \in Ids(s) \cup Ids(t), a # b,
         NoWorse(s, a, b), NoWorse(t, a, b)
  PROVE  Rank(s \o t, a) < Rank(s \o t, b)
<1>0. s \o t \in Seq(Chunk) /\ Len(s \o t) = Len(s) + Len(t)
  OBVIOUS
<1>1. ASSUME NEW id \in Ids(s) PROVE id \in Ids(s \o t) /\ Rank(s \o t, id) = Rank(s, id)
  <2>1. /\ Rank(s, id) \in 1 .. Len(s) /\ s[Rank(s, id)].id = id
        /\ \A i \in 1 .. Len(s) : s[i].id = id => Rank(s, id) <= i
    BY RankIs
  <2>2. Rank(s, id) \in 1 .. Len(s \o t) /\ (s \o t)[Rank(s, id)].id = id
    BY <2>1
  <2>3. id \in Ids(s \o t)
    BY <2>2 DEF Ids
  <2>4. /\ Rank(s \o t, id) \in 1 .. Len(s \o t) /\ (s \o t)[Rank(s \o t, id)].id = id
        /\ \A i \in 1 .. Len(s \o t) : (s \o t)[i].id = id => Rank(s \o t, id) <= i
    BY <1>0, <2>3, RankIs
  <2>5. Rank(s \o t, id) <= Rank(s, id)
    BY <2>2, <2>4
  <2>6. Rank(s \o t, id) \in 1 .. Len(s) /\ s[Rank(s \o t, id)].id = id
    BY <2>1, <2>4, <2>5
  <2> QED
    BY <2>1, <2>3, <2>5, <2>6
<1>2. ASSUME NEW id \in Ids(t), id \notin Ids(s)
      PROVE  id \in Ids(s \o t) /\ Rank(s \o t, id) = Len(s) + Rank(t, id)
  <2>1. /\ Rank(t, id) \in 1 .. Len(t) /\ t[Rank(t, id)].id = id
        /\ \A i \in 1 .. Len(t) : t[i].id = id => Rank(t, id) <= i
    BY RankIs
  <2>2. Len(s) + Rank(t, id) \in 1 .. Len(s \o t) /\ (s \o t)[Len(s) + Rank(t, id)].id = id
    BY <2>1
  <2>3. id \in Ids(s \o t)
    BY <2>2 DEF Ids
  <2> DEFINE r == Rank(s \o t, id)
  <2>4. /\ r \in 1 .. Len(s \o t) /\ (s \o t)[r].id = id
        /\ \A i \in 1 .. Len(s \o t) : (s \o t)[i].id = id => r <= i
    BY <1>0, <2>3, RankIs
  <2> HIDE DEF r
  <2>5. r <= Len(s) + Rank(t, id)
    BY <2>2, <2>4
  <2>6. r \notin 1 .. Len(s)
    <3> SUFFICES ASSUME r \in 1 .. Len(s) PROVE FALSE
      OBVIOUS
    <3>1. s[r].id = id
      BY <2>4
    <3> QED
      BY <1>2, <3>1 DEF Ids
  <2>7. r - Len(s) \in 1 .. Len(t) /\ t[r - Len(s)].id = id
    BY <2>4, <2>6
  <2>8. r = Len(s) + Rank(t, id)
    <3>1. Rank(t, id) <= r - Len(s)
      BY <2>1, <2>7
    <3> QED
      BY <2>1, <2>4, <2>5, <3>1
  <2> QED
    BY <2>3, <2>8 DEF r
<1>3. CASE b \in Ids(s)
  <2>1. a \in Ids(s) /\ Rank(s, a) < Rank(s, b)
    BY <1>3 DEF NoWorse
  <2> QED
    BY <1>1, <1>3, <2>1
<1>4. CASE b \notin Ids(s)
  <2>1. a \in Ids(t) /\ Rank(t, a) < Rank(t, b) /\ b \in Ids(t)
    BY <1>4 DEF NoWorse
  <2>2. Rank(s \o t, b) = Len(s) + Rank(t, b) /\ Rank(t, b) \in 1 .. Len(t) /\ Rank(t, a) \in 1 .. Len(t)
    BY <1>2, <1>4, <2>1, RankIs
  <2>3. CASE a \in Ids(s)
    <3>1. Rank(s \o t, a) = Rank(s, a) /\ Rank(s, a) \in 1 .. Len(s)
      BY <1>1, <2>3, RankIs
    <3> QED
      BY <2>2, <3>1
  <2>4. CASE a \notin Ids(s)
    <3>1. Rank(s \o t, a) = Len(s) + Rank(t, a)
      BY <1>2, <2>1, <2>4
    <3> QED
      BY <2>1, <2>2, <3>1
  <2> QED
    BY <2>3, <2>4
<1> QED
  BY <1>3, <1>4

LEMMA JoinedIds ==
  ASSUME NEW s \in Seq(Chunk), NEW t \in Seq(Chunk)
  PROVE  Ids(s \o t) = Ids(s) \cup Ids(t)
<1>1. ASSUME NEW id \in Ids(s) \cup Ids(t) PROVE id \in Ids(s \o t)
  <2>1. CASE id \in Ids(s)
    <3>1. PICK i \in 1 .. Len(s) : s[i].id = id
      BY <2>1 DEF Ids
    <3>2. i \in 1 .. Len(s \o t) /\ (s \o t)[i].id = id
      BY <3>1
    <3> QED
      BY <3>2 DEF Ids
  <2>2. CASE id \in Ids(t)
    <3>1. PICK i \in 1 .. Len(t) : t[i].id = id
      BY <2>2 DEF Ids
    <3>2. Len(s) + i \in 1 .. Len(s \o t) /\ (s \o t)[Len(s) + i].id = id
      BY <3>1
    <3> QED
      BY <3>2 DEF Ids
  <2> QED
    BY <2>1, <2>2
<1>2. ASSUME NEW id \in Ids(s \o t) PROVE id \in Ids(s) \cup Ids(t)
  <2>1. PICK i \in 1 .. Len(s \o t) : (s \o t)[i].id = id
    BY <1>2 DEF Ids
  <2>2. CASE i <= Len(s)
    BY <2>1, <2>2 DEF Ids
  <2>3. CASE i > Len(s)
    <3>1. i - Len(s) \in 1 .. Len(t) /\ t[i - Len(s)].id = id
      BY <2>1, <2>3
    <3> QED
      BY <3>1 DEF Ids
  <2> QED
    BY <2>1, <2>2, <2>3
<1> QED
  BY <1>1, <1>2

\* Fusion loses and repeats nothing, invents nothing, and never puts a chunk
\* behind one that neither ranking prefers to it.
LEMMA FuseIs ==
  ASSUME NEW lexical \in Seq(Chunk), NEW dense \in Seq(Chunk),
         NEW fused, fused = fuse_public_rrf(lexical, dense)
  PROVE  /\ fused \in Seq(Chunk) /\ Ids(fused) = Ids(lexical) \cup Ids(dense)
         /\ \A i, j \in 1 .. Len(fused) : fused[i].id = fused[j].id => i = j
         /\ \A i \in 1 .. Len(fused) : \E chunk \in ToSet(lexical) \cup ToSet(dense) :
               fused[i].id = chunk.id /\ fused[i].body = chunk.body
         /\ \A i, j \in 1 .. Len(fused) :
               /\ NoWorse(lexical, fused[i].id, fused[j].id)
               /\ NoWorse(dense, fused[i].id, fused[j].id)
               => i <= j
<1> DEFINE joined == lexical \o dense
           unique1 == Deduplicated(lexical)
           unique2 == Deduplicated(dense)
           all == Deduplicated(joined)
           score == [i \in DOMAIN all |-> FusedScore(unique1, unique2, all[i].id)]
           order == Sorted(DOMAIN all, Descending(DOMAIN all, score))
           c == Len(all)
<1>1. joined \in Seq(Chunk) /\ Ids(joined) = Ids(lexical) \cup Ids(dense)
  BY JoinedIds
<1>2. /\ all \in Seq(Chunk) /\ Ids(all) = Ids(joined)
      /\ \A n \in 1 .. Len(all) : all[n].id \in Ids(joined) /\ all[n] = joined[Rank(joined, all[n].id)]
      /\ \A m, n \in 1 .. Len(all) : m < n => Rank(joined, all[m].id) < Rank(joined, all[n].id)
  <2> HIDE DEF joined
  <2> QED
    BY <1>1, DeduplicatedIs
<1>3. \A m, n \in 1 .. Len(all) : all[m].id = all[n].id => m = n
  <2> HIDE DEF joined
  <2> QED
    BY <1>1, DeduplicatedRanks
<1>4. fused = [n \in DOMAIN all |-> [all[order[n]] EXCEPT !.score = score[order[n]]]]
  BY DEF fuse_public_rrf
<1> HIDE DEF joined, all, unique1, unique2
<1>5. \A a, b : /\ FusedScore(unique1, unique2, a) \in Int
                /\ NoWorse(lexical, a, b) /\ NoWorse(dense, a, b) =>
                      FusedScore(unique1, unique2, b) <= FusedScore(unique1, unique2, a)
  <2> SUFFICES ASSUME NEW a, NEW b
               PROVE  /\ FusedScore(unique1, unique2, a) \in Int
                      /\ NoWorse(lexical, a, b) /\ NoWorse(dense, a, b) =>
                            FusedScore(unique1, unique2, b) <= FusedScore(unique1, unique2, a)
    OBVIOUS
  <2>1. /\ Share(unique1, a) \in Nat /\ Share(unique1, b) \in Nat
        /\ NoWorse(lexical, a, b) => Share(unique1, b) <= Share(unique1, a)
    BY ShareIs DEF unique1
  <2>2. /\ Share(unique2, a) \in Nat /\ Share(unique2, b) \in Nat
        /\ NoWorse(dense, a, b) => Share(unique2, b) <= Share(unique2, a)
    BY ShareIs DEF unique2
  <2> QED
    BY <2>1, <2>2 DEF FusedScore
<1>6. DOMAIN all = 1 .. c /\ c \in Nat /\ DOMAIN all \in SUBSET Int
  BY <1>2
<1>7. \A i \in 1 .. c : score[i] \in Int /\ score[i] = FusedScore(unique1, unique2, all[i].id)
  BY <1>5, <1>6
<1> HIDE DEF score
<1>8. /\ order \in Seq(1 .. c) /\ Len(order) = c
      /\ \A k, m \in 1 .. c : k < m => <<order[k], order[m]>> \in Descending(1 .. c, score)
      /\ \A i \in 1 .. c : \E k \in 1 .. c : order[k] = i
  <2>1. IsFiniteSet(1 .. c) /\ Cardinality(1 .. c) = c
    <3> HIDE DEF c
    <3> QED
      BY <1>6, FS_Interval
  <2>2. StrictOrder(1 .. c, Descending(1 .. c, score))
    BY <1>6, <1>7, DescendingOrders
  <2>3. order = Sorted(1 .. c, Descending(1 .. c, score))
    BY <1>6
  <2> DEFINE sorted == Sorted(1 .. c, Descending(1 .. c, score))
             m0 == Cardinality(1 .. c)
  <2>4. /\ sorted \in Seq(1 .. c) /\ Len(sorted) = m0
        /\ \A k, m \in 1 .. m0 : k < m => <<sorted[k], sorted[m]>> \in Descending(1 .. c, score)
        /\ \A i \in 1 .. c : \E k \in 1 .. m0 : sorted[k] = i
    BY <2>1, <2>2, SortedLists
  <2> HIDE DEF order, c, sorted
  <2> QED
    BY <2>1, <2>3, <2>4 DEF sorted
<1> HIDE DEF order, c
<1>9. \A n \in 1 .. c : order[n] \in 1 .. c
  <2>1. order \in Seq(1 .. c) /\ Len(order) = c
    BY <1>8
  <2>2. DOMAIN order = 1 .. c
    BY <2>1
  <2> QED
    BY <2>1, <2>2
<1>10. /\ fused \in Seq(Chunk) /\ Len(fused) = c
       /\ \A n \in 1 .. c : fused[n].id = all[order[n]].id /\ fused[n].body = all[order[n]].body
  <2>1. \A n \in 1 .. c : /\ [all[order[n]] EXCEPT !.score = score[order[n]]] \in Chunk
                          /\ [all[order[n]] EXCEPT !.score = score[order[n]]].id = all[order[n]].id
                          /\ [all[order[n]] EXCEPT !.score = score[order[n]]].body = all[order[n]].body
    <3>1. \A n \in 1 .. c : all[order[n]] \in Chunk /\ score[order[n]] \in Int
      BY <1>2, <1>7, <1>9 DEF c
    <3> QED
      BY <3>1 DEF Chunk
  <2> DEFINE entry(n) == [all[order[n]] EXCEPT !.score = score[order[n]]]
  <2>2. fused = [n \in 1 .. c |-> entry(n)]
    BY <1>4, <1>6
  <2>3. \A n \in 1 .. c : /\ entry(n) \in Chunk /\ entry(n).id = all[order[n]].id
                          /\ entry(n).body = all[order[n]].body
    BY <2>1
  <2>4. c \in Nat
    BY <1>6
  <2> HIDE DEF entry
  <2>5. fused \in [1 .. c -> Chunk]
    BY <2>2, <2>3
  <2>6. \A n \in 1 .. c : fused[n] = entry(n)
    BY <2>2
  <2>7. fused \in Seq(Chunk) /\ Len(fused) = c
    BY <2>4, <2>5, ListsAre
  <2> QED
    BY <2>3, <2>6, <2>7
<1>11. \A k, m \in 1 .. c : order[k] = order[m] => k = m
  <2>1. ASSUME NEW k \in 1 .. c, NEW m \in 1 .. c, k < m PROVE order[k] # order[m]
    <3>1. <<order[k], order[m]>> \in Descending(1 .. c, score)
      BY <1>8, <2>1
    <3> QED
      BY <1>7, <1>9, <3>1 DEF Descending
  <2> QED
    BY <1>6, <2>1
<1>12. \A i, j \in 1 .. c : fused[i].id = fused[j].id => i = j
  <2>1. \A i, j \in 1 .. c : all[i].id = all[j].id => i = j
    BY <1>3 DEF c
  <2>2. ASSUME NEW i \in 1 .. c, NEW j \in 1 .. c, fused[i].id = fused[j].id PROVE i = j
    <3>1. all[order[i]].id = all[order[j]].id
      BY <1>10, <2>2
    <3>2. order[i] = order[j]
      BY <1>9, <2>1, <3>1
    <3> QED
      BY <1>11, <3>2
  <2> QED
    BY <2>2
<1>13. Ids(fused) = Ids(all)
  <2>1. ASSUME NEW id \in Ids(all) PROVE id \in Ids(fused)
    <3>1. PICK i \in 1 .. c : all[i].id = id
      BY <1>6 DEF Ids
    <3>2. PICK k \in 1 .. c : order[k] = i
      BY <1>8
    <3>3. fused[k].id = id
      BY <1>10, <3>1, <3>2
    <3> QED
      BY <1>10, <3>3 DEF Ids
  <2>2. ASSUME NEW id \in Ids(fused) PROVE id \in Ids(all)
    <3>1. PICK k \in 1 .. c : fused[k].id = id
      BY <1>10 DEF Ids
    <3> QED
      BY <1>6, <1>9, <1>10, <3>1 DEF Ids
  <2> QED
    BY <2>1, <2>2
<1>14. ASSUME NEW i \in 1 .. c
       PROVE  \E chunk \in ToSet(lexical) \cup ToSet(dense) :
                 fused[i].id = chunk.id /\ fused[i].body = chunk.body
  <2>1. all[order[i]].id \in Ids(joined) /\ all[order[i]] = joined[Rank(joined, all[order[i]].id)]
    BY <1>2, <1>9 DEF c
  <2>2. PICK k \in 1 .. Len(joined) : all[order[i]] = joined[k]
    BY <1>1, <2>1, RankIs
  <2>3. joined[k] \in ToSet(lexical) \cup ToSet(dense)
    <3>1. CASE k <= Len(lexical)
      BY <2>2, <3>1 DEF joined, ToSet
    <3>2. CASE k > Len(lexical)
      <4>1. k - Len(lexical) \in 1 .. Len(dense) /\ joined[k] = dense[k - Len(lexical)]
        BY <2>2, <3>2 DEF joined
      <4> QED
        BY <4>1 DEF ToSet
    <3> QED
      BY <2>2, <3>1, <3>2
  <2> QED
    BY <1>10, <2>2, <2>3
<1>15. ASSUME NEW i \in 1 .. c, NEW j \in 1 .. c,
              NoWorse(lexical, fused[i].id, fused[j].id), NoWorse(dense, fused[i].id, fused[j].id)
       PROVE  i <= j
  <2> SUFFICES ASSUME j < i PROVE FALSE
    OBVIOUS
  <2>1. <<order[j], order[i]>> \in Descending(1 .. c, score)
    BY <1>8
  <2>2. score[order[j]] <= score[order[i]]
    BY <1>5, <1>7, <1>9, <1>10, <1>15, SMTT(30)
  <2>3. order[j] < order[i]
    BY <1>7, <1>9, <2>1, <2>2 DEF Descending
  <2>4. fused[i].id # fused[j].id
    BY <1>12
  <2>5. fused[j].id \in Ids(lexical) \cup Ids(dense)
    BY <1>1, <1>2, <1>9, <1>10 DEF c
  <2>6. Rank(joined, fused[i].id) < Rank(joined, fused[j].id)
    BY <1>15, <2>4, <2>5, JoinedRanks DEF joined
  <2>7. Rank(joined, fused[j].id) < Rank(joined, fused[i].id)
    BY <1>2, <1>9, <1>10, <2>3 DEF c
  <2>8. Rank(joined, fused[i].id) \in Nat /\ Rank(joined, fused[j].id) \in Nat
    <3>1. fused[i].id \in Ids(joined) /\ fused[j].id \in Ids(joined)
      BY <1>2, <1>9, <1>10 DEF c
    <3> QED
      BY <1>1, <3>1, RankIs
  <2> QED
    BY <2>6, <2>7, <2>8
<1> QED
  BY <1>1, <1>2, <1>10, <1>12, <1>13, <1>14, <1>15

-----------------------------------------------------------------------------
(* The query cache *)

LEMMA Joining ==
  ASSUME NEW S, NEW a \in Seq(S), NEW b \in Seq(S)
  PROVE  /\ a \o b \in Seq(S) /\ Len(a \o b) = Len(a) + Len(b)
         /\ \A i \in 1 .. Len(a) : (a \o b)[i] = a[i]
         /\ \A i \in 1 .. Len(b) : (a \o b)[Len(a) + i] = b[i]
OBVIOUS

LEMMA Appending ==
  ASSUME NEW S, NEW a \in Seq(S), NEW x \in S
  PROVE  /\ Append(a, x) \in Seq(S) /\ Len(Append(a, x)) = Len(a) + 1 /\ Len(a) \in Nat
         /\ \A i \in 1 .. Len(a) : Append(a, x)[i] = a[i]
         /\ Append(a, x)[Len(a) + 1] = x
OBVIOUS

LEMMA Tailing ==
  ASSUME NEW S, NEW a \in Seq(S), Len(a) > 0
  PROVE  /\ Tail(a) \in Seq(S) /\ Len(Tail(a)) = Len(a) - 1 /\ Len(a) \in Nat
         /\ \A i \in 1 .. Len(a) - 1 : Tail(a)[i] = a[i + 1]
OBVIOUS

LEMMA Endings ==
  ASSUME NEW S, NEW s \in Seq(S), NEW L \in Nat, L = Len(s), NEW n \in Nat, n <= L
  PROVE  /\ SubSeq(s, L - n + 1, L) \in Seq(S) /\ Len(SubSeq(s, L - n + 1, L)) = n
         /\ \A i \in 1 .. n : SubSeq(s, L - n + 1, L)[i] = s[L - n + i]
<1> DEFINE a == L - n + 1
           t == SubSeq(s, a, L)
<1>1. a \in 1 .. L + 1 /\ L - a + 1 = n /\ \A i \in 1 .. n : a + i - 1 = L - n + i
  OBVIOUS
<1> HIDE DEF a
<1>2. t \in Seq(S) /\ Len(t) = L - a + 1 /\ \A i \in 1 .. L - a + 1 : t[i] = s[a + i - 1]
  BY <1>1
<1> HIDE DEF t
<1> QED
  BY <1>1, <1>2 DEF a, t

LEMMA WithoutIs ==
  ASSUME NEW S, NEW list \in Seq(S), NEW q, IsInjective(list),
         NEW l, l = Without(list, q)
  PROVE  /\ l \in Seq(S) /\ IsInjective(l) /\ ~Contains(l, q)
         /\ ~Contains(list, q) => l = list
         /\ \A k \in 1 .. Len(list) : list[k] = q =>
               /\ Len(l) = Len(list) - 1
               /\ \A i \in 1 .. Len(l) : l[i] = IF i < k THEN list[i] ELSE list[i + 1]
<1>1. CASE ~Contains(list, q)
  <2>1. l = list
    BY <1>1 DEF Without
  <2>2. \A k \in 1 .. Len(list) : list[k] # q
    BY <1>1 DEF Contains
  <2> QED
    BY <1>1, <2>1, <2>2
<1>2. CASE Contains(list, q)
  <2> DEFINE at == CHOOSE i \in DOMAIN list : list[i] = q
  <2>1. at \in 1 .. Len(list) /\ list[at] = q
    BY <1>2 DEF Contains
  <2>2. l = SubSeq(list, 1, at - 1) \o SubSeq(list, at + 1, Len(list))
    BY <1>2 DEF Without, RemoveAt
  <2> HIDE DEF at
  <2> DEFINE before == SubSeq(list, 1, at - 1)
             after == SubSeq(list, at + 1, Len(list))
             n == Len(list)
  <2>0. n \in Nat /\ at \in 1 .. n /\ DOMAIN list = 1 .. n
    BY <2>1
  <2>10. l = before \o after
    BY <2>2
  <2>3. /\ before \in Seq(S) /\ Len(before) = at - 1
        /\ \A i \in 1 .. at - 1 : before[i] = list[i]
    BY <2>1
  <2>9. /\ after \in Seq(S) /\ Len(after) = n - at
        /\ \A i \in 1 .. n - at : after[i] = list[at + i]
    BY <2>1
  <2> HIDE DEF before, after, n
  <2>4. l \in Seq(S) /\ Len(l) = n - 1
    <3>1. /\ before \in Seq(S) /\ Len(before) = at - 1 /\ at \in Nat
          /\ after \in Seq(S) /\ Len(after) = n - at /\ n \in Nat
      BY <2>0, <2>3, <2>9
    <3>2. l \in Seq(S) /\ Len(l) = Len(before) + Len(after)
      <4>1. before \in Seq(S) /\ after \in Seq(S)
        BY <3>1
      <4>2. /\ before \o after \in Seq(S)
            /\ Len(before \o after) = Len(before) + Len(after)
        BY <4>1, Joining
      <4> QED
        BY <2>10, <4>2
    <3> QED
      BY <3>1, <3>2
  <2>5. ASSUME NEW i \in 1 .. Len(l) PROVE l[i] = IF i < at THEN list[i] ELSE list[i + 1]
    <3>0. l = before \o after /\ i \in 1 .. n - 1
      BY <2>4, <2>10
    <3>1. CASE i < at
      BY <2>0, <2>3, <2>9, <3>0, <3>1
    <3>2. CASE i >= at
      <4>1. l[i] = after[i - (at - 1)] /\ i - (at - 1) \in 1 .. n - at
        BY <2>0, <2>3, <2>9, <3>0, <3>2
      <4>2. after[i - (at - 1)] = list[at + (i - (at - 1))]
        BY <2>9, <4>1
      <4>3. at + (i - (at - 1)) = i + 1
        BY <2>0, <3>0
      <4> QED
        BY <2>0, <3>0, <3>2, <4>1, <4>2, <4>3
    <3> QED
      BY <2>0, <3>0, <3>1, <3>2
  <2> USE DEF n
  <2>6. \A k \in 1 .. Len(list) : list[k] = q => k = at
    BY <2>1 DEF IsInjective
  <2>7. IsInjective(l)
    <3> SUFFICES ASSUME NEW i \in 1 .. Len(l), NEW j \in 1 .. Len(l), l[i] = l[j] PROVE i = j
      BY <2>4 DEF IsInjective
    <3> DEFINE m == IF i < at THEN i ELSE i + 1
               n1 == IF j < at THEN j ELSE j + 1
    <3>1. m \in 1 .. Len(list) /\ n1 \in 1 .. Len(list)
      BY <2>1, <2>4
    <3>2. l[i] = list[m] /\ l[j] = list[n1]
      BY <2>5
    <3>3. m = n1
      <4> HIDE DEF m, n1
      <4> QED
        BY <2>0, <3>1, <3>2 DEF IsInjective
    <3> QED
      BY <2>1, <3>3
  <2>8. ~Contains(l, q)
    <3> SUFFICES ASSUME NEW i \in 1 .. Len(l), l[i] = q PROVE FALSE
      BY DEF Contains
    <3> DEFINE m == IF i < at THEN i ELSE i + 1
    <3>1. m \in 1 .. Len(list) /\ list[m] = q /\ m # at
      BY <2>1, <2>4, <2>5
    <3> QED
      BY <2>6, <3>1
  <2> QED
    BY <1>2, <2>4, <2>5, <2>6, <2>7, <2>8
<1> QED
  BY <1>1, <1>2

\* The cache holds the end of a list of queries, as much of it as fits.
Ends(list, whole) ==
    /\ list \in Seq(Queries) /\ whole \in Seq(Queries) /\ IsInjective(whole)
    /\ Len(list) = IF Len(whole) < MAX_QUERY_CACHE THEN Len(whole) ELSE MAX_QUERY_CACHE
    /\ \A i \in 1 .. Len(list) : list[i] = whole[Len(whole) - Len(list) + i]

LEMMA Remembering ==
  ASSUME NEW list, NEW whole, Ends(list, whole), NEW q \in Queries
  PROVE  Ends(Remember(list, q), Append(Without(whole, q), q))
<1>0. PICK L, m, M : L = Len(whole) /\ m = Len(list) /\ M = MAX_QUERY_CACHE
  OBVIOUS
<1>1. /\ list \in Seq(Queries) /\ whole \in Seq(Queries)
      /\ L = Len(whole) /\ m = Len(list) /\ M = MAX_QUERY_CACHE
  BY <1>0 DEF Ends
<1>7. L \in Nat /\ m \in Nat /\ M \in Nat \ {0}
  BY <1>1, RetrievalOK
<1>8. L \in Nat /\ m \in Nat /\ M \in Nat \ {0} /\ m <= M /\ m <= L /\ (m = L \/ m = M)
  <2>1. m = IF L < M THEN L ELSE M
    BY <1>0 DEF Ends
  <2> QED
    BY <1>7, <2>1
<1>16. (L < M => m = L) /\ (L >= M => m = M)
  <2>1. m = IF L < M THEN L ELSE M
    BY <1>0 DEF Ends
  <2> QED
    BY <1>7, <2>1
<1>9. DOMAIN list = 1 .. m /\ DOMAIN whole = 1 .. L
  BY <1>1
<1>10. ASSUME NEW i \in 1 .. m PROVE (L - m) + i \in 1 .. L /\ list[i] = whole[(L - m) + i]
  <2>1. list[i] = whole[(L - m) + i]
    BY <1>0 DEF Ends
  <2> QED
    BY <1>8, <2>1
<1>12. \A a, b \in 1 .. L : whole[a] = whole[b] => a = b
  <2>1. IsInjective(whole)
    BY DEF Ends
  <2> QED
    BY <1>9, <2>1 DEF IsInjective
<1>13. PICK rest : rest = Without(whole, q)
  OBVIOUS
<1>14. PICK all : all = Append(rest, q)
  OBVIOUS
<1>15. PICK kept : kept = Remember(list, q)
  OBVIOUS
<1> SUFFICES Ends(kept, all)
  BY <1>13, <1>14, <1>15
<1>2. /\ rest \in Seq(Queries) /\ IsInjective(rest) /\ ~Contains(rest, q)
      /\ ~Contains(whole, q) => rest = whole
      /\ \A k \in 1 .. L : whole[k] = q =>
            /\ Len(rest) = L - 1
            /\ \A i \in 1 .. Len(rest) : rest[i] = IF i < k THEN whole[i] ELSE whole[i + 1]
  <2>1. IsInjective(whole)
    BY DEF Ends
  <2> QED
    BY <1>1, <1>8, <1>13, <2>1, WithoutIs
<1>3. /\ all \in Seq(Queries) /\ Len(all) = Len(rest) + 1
      /\ \A i \in 1 .. Len(rest) : all[i] = rest[i]
      /\ all[Len(rest) + 1] = q
  BY <1>2, <1>14
<1>4. IsInjective(all)
  <2>1. \A i \in 1 .. Len(rest) : rest[i] # q
    BY <1>2 DEF Contains
  <2>2. DOMAIN all = 1 .. Len(rest) + 1 /\ DOMAIN rest = 1 .. Len(rest) /\ Len(rest) \in Nat
    BY <1>2, <1>3
  <2>3. \A i, j \in DOMAIN all : all[i] = all[j] => i = j
    BY <1>2, <1>3, <2>1, <2>2 DEF IsInjective
  <2> QED
    BY <2>3 DEF IsInjective
<1>5. CASE Contains(list, q)
  <2>1. PICK j \in 1 .. m : list[j] = q
    BY <1>1, <1>8, <1>5 DEF Contains
  <2>2. IsInjective(list)
    <3> SUFFICES ASSUME NEW a \in 1 .. m, NEW b \in 1 .. m, list[a] = list[b] PROVE a = b
      BY <1>9 DEF IsInjective
    <3>1. (L - m) + a = (L - m) + b
      BY <1>10, <1>12
    <3> QED
      BY <1>8, <3>1
  <2>l. PICK left : left = Without(list, q)
    OBVIOUS
  <2>3. /\ left \in Seq(Queries) /\ Len(left) = m - 1
        /\ \A i \in 1 .. Len(left) : left[i] = IF i < j THEN list[i] ELSE list[i + 1]
    <3>1. /\ left \in Seq(Queries)
          /\ \A k \in 1 .. m : list[k] = q =>
                /\ Len(left) = m - 1
                /\ \A i \in 1 .. Len(left) : left[i] = IF i < k THEN list[i] ELSE list[i + 1]
      BY <1>1, <2>2, <2>l, WithoutIs, SMTT(30)
    <3> QED
      BY <2>1, <3>1
  <2>4. kept = Append(left, q)
    BY <1>5, <2>l, <1>15 DEF Remember
  <2>5. /\ Len(rest) = L - 1
        /\ \A i \in 1 .. Len(rest) : rest[i] = IF i < (L - m) + j THEN whole[i] ELSE whole[i + 1]
    <3>1. PICK k \in 1 .. L : k = (L - m) + j /\ whole[k] = q
      BY <1>10, <2>1
    <3> QED
      BY <1>2, <3>1
  <2>6. kept \in Seq(Queries) /\ Len(kept) = m /\ Len(all) = L
    BY <1>1, <1>8, <1>2, <1>3, <2>1, <2>3, <2>4, <2>5
  <2>7. ASSUME NEW i \in 1 .. m PROVE kept[i] = all[(L - m) + i]
    <3>1. CASE i = m
      <4>1. kept[i] = q
        BY <2>3, <2>4, <3>1
      <4>2. all[(L - m) + i] = q
        BY <1>1, <1>8, <1>3, <2>5, <3>1
      <4> QED
        BY <4>1, <4>2
    <3>2. CASE i < m
      <4>1. kept[i] = IF i < j THEN list[i] ELSE list[i + 1]
        BY <1>1, <1>8, <2>3, <2>4, <3>2
      <4>2. (L - m) + i \in 1 .. Len(rest)
        BY <1>1, <1>8, <2>5, <3>2
      <4>3. all[(L - m) + i] = IF (L - m) + i < (L - m) + j THEN whole[(L - m) + i] ELSE whole[(L - m) + i + 1]
        BY <1>3, <2>5, <4>2
      <4>4. list[i] = whole[(L - m) + i] /\ list[i + 1] = whole[(L - m) + (i + 1)]
        BY <1>8, <1>10, <3>2
      <4> QED
        BY <1>8, <2>1, <4>1, <4>3, <4>4
    <3> QED
      BY <1>8, <3>1, <3>2
  <2> QED
    <3>1. all \in Seq(Queries) /\ L = Len(all) /\ m = Len(kept)
      BY <1>3, <2>6
    <3>a. Len(kept) = IF Len(all) < MAX_QUERY_CACHE THEN Len(all) ELSE MAX_QUERY_CACHE
      BY <1>1, <1>7, <1>16, <3>1
    <3>b. ASSUME NEW i \in 1 .. Len(kept) PROVE kept[i] = all[Len(all) - Len(kept) + i]
      BY <2>7, <3>1
    <3>c. kept \in Seq(Queries) /\ all \in Seq(Queries) /\ IsInjective(all)
      BY <1>3, <1>4, <2>6
    <3> QED
      BY <3>a, <3>b, <3>c DEF Ends
<1>6. CASE ~Contains(list, q) /\ Contains(whole, q)
  <2>1. PICK k \in 1 .. L : whole[k] = q
    BY <1>1, <1>8, <1>6 DEF Contains
  <2>2. k <= L - m
    <3> SUFFICES ASSUME k > L - m PROVE FALSE
      BY <1>8
    <3>1. k - (L - m) \in 1 .. m /\ (L - m) + (k - (L - m)) = k
      BY <1>8
    <3>2. list[k - (L - m)] = q
      BY <1>10, <2>1, <3>1
    <3> QED
      BY <1>1, <1>8, <1>6, <3>1, <3>2 DEF Contains
  <2>3. m = M /\ L > m
    BY <1>8, <2>1, <2>2
  <2>4. kept = Append(Tail(list), q)
    BY <1>1, <1>6, <1>8, <1>15, <2>3 DEF Remember
  <2>5. /\ Len(rest) = L - 1
        /\ \A i \in 1 .. Len(rest) : rest[i] = IF i < k THEN whole[i] ELSE whole[i + 1]
    BY <1>2, <2>1
  <2>6. Tail(list) \in Seq(Queries) /\ Len(Tail(list)) = m - 1
        /\ \A i \in 1 .. m - 1 : Tail(list)[i] = list[i + 1]
    <3>1. Len(list) > 0
      BY <1>1, <1>8, <2>3
    <3> QED
      BY <1>1, <3>1, Tailing
  <2>7. kept \in Seq(Queries) /\ Len(kept) = m /\ Len(all) = L
    BY <1>1, <1>8, <1>3, <2>4, <2>5, <2>6
  <2>8. ASSUME NEW i \in 1 .. m PROVE kept[i] = all[(L - m) + i]
    <3>1. CASE i = m
      <4>1. kept[i] = q
        BY <2>4, <2>6, <3>1
      <4>2. all[(L - m) + i] = q
        BY <1>1, <1>8, <1>3, <2>5, <3>1
      <4> QED
        BY <4>1, <4>2
    <3>2. CASE i < m
      <4>1. kept[i] = list[i + 1]
        BY <1>1, <1>8, <2>4, <2>6, <3>2
      <4>2. (L - m) + i \in 1 .. Len(rest)
        BY <1>1, <1>8, <2>5, <3>2
      <4>3. all[(L - m) + i] = whole[(L - m) + i + 1]
        BY <1>8, <1>3, <2>2, <2>5, <4>2
      <4>4. list[i + 1] = whole[(L - m) + (i + 1)]
        BY <1>8, <1>10, <3>2
      <4> QED
        BY <1>8, <4>1, <4>3, <4>4
    <3> QED
      BY <1>8, <3>1, <3>2
  <2> QED
    <3>1. all \in Seq(Queries) /\ L = Len(all) /\ m = Len(kept)
      BY <1>3, <2>7
    <3>2. (L < M => m = L) /\ (L >= M => m = M)
      BY <1>8, <2>3
    <3>a. Len(kept) = IF Len(all) < MAX_QUERY_CACHE THEN Len(all) ELSE MAX_QUERY_CACHE
      BY <1>1, <1>7, <3>1, <3>2
    <3>b. ASSUME NEW i \in 1 .. Len(kept) PROVE kept[i] = all[Len(all) - Len(kept) + i]
      BY <2>8, <3>1
    <3>c. kept \in Seq(Queries) /\ all \in Seq(Queries) /\ IsInjective(all)
      BY <1>3, <1>4, <2>7
    <3> QED
      BY <3>a, <3>b, <3>c DEF Ends
<1>11. CASE ~Contains(list, q) /\ ~Contains(whole, q)
  <2>1. rest = whole
    BY <1>2, <1>11
  <2>2. CASE m < M
    <3>1. kept = Append(list, q) /\ m = L
      BY <1>1, <1>11, <1>8, <1>15, <2>2 DEF Remember
    <3>2. kept \in Seq(Queries) /\ Len(kept) = L + 1 /\ Len(all) = L + 1
      <4>1. Append(list, q) \in Seq(Queries) /\ Len(Append(list, q)) = m + 1
        BY <1>1, Appending
      <4> QED
        BY <1>1, <1>3, <2>1, <3>1, <4>1
    <3>3. ASSUME NEW i \in 1 .. L + 1 PROVE kept[i] = all[((L + 1) - (L + 1)) + i]
      <4>1. ((L + 1) - (L + 1)) + i = i
        BY <1>8
      <4>2. \A j \in 1 .. L : list[j] = whole[j]
        BY <1>8, <1>10, <3>1
      <4>3. kept[i] = all[i]
        <5>1. kept[i] = IF i = L + 1 THEN q ELSE list[i]
          <6>1. \A n \in 1 .. m : Append(list, q)[n] = list[n]
            BY <1>1, Appending
          <6>2. Append(list, q)[m + 1] = q
            BY <1>1, Appending
          <6>3. i = L + 1 \/ (i # L + 1 /\ i \in 1 .. m)
            BY <1>8, <3>1
          <6> QED
            BY <3>1, <6>1, <6>2, <6>3
        <5>2. all[i] = IF i = L + 1 THEN q ELSE whole[i]
          BY <1>1, <1>3, <1>8, <2>1
        <5> QED
          BY <1>8, <4>2, <5>1, <5>2
      <4> QED
        BY <4>1, <4>3
    <3> QED
      <4>1. all \in Seq(Queries) /\ L + 1 \in Nat /\ L + 1 = Len(all) /\ L + 1 = Len(kept)
        BY <1>3, <1>8, <3>2
      <4>2. (L + 1 < M => L + 1 = L + 1) /\ (L + 1 >= M => L + 1 = M)
        BY <1>8, <2>2, <3>1
      <4>a. Len(kept) = IF Len(all) < MAX_QUERY_CACHE THEN Len(all) ELSE MAX_QUERY_CACHE
        BY <1>1, <1>7, <1>8, <4>1, <4>2
      <4>b. ASSUME NEW i \in 1 .. Len(kept) PROVE kept[i] = all[Len(all) - Len(kept) + i]
        BY <3>3, <4>1
      <4>c. kept \in Seq(Queries) /\ all \in Seq(Queries) /\ IsInjective(all)
        BY <1>3, <1>4, <3>2
      <4> QED
        BY <4>a, <4>b, <4>c DEF Ends
  <2>3. CASE m = M
    <3>1. kept = Append(Tail(list), q)
      BY <1>1, <1>8, <1>11, <1>15, <2>3 DEF Remember
    <3>2. Tail(list) \in Seq(Queries) /\ Len(Tail(list)) = m - 1
          /\ \A i \in 1 .. m - 1 : Tail(list)[i] = list[i + 1]
      <4>1. Len(list) > 0
        BY <1>1, <1>8, <2>3
      <4> QED
        BY <1>1, <4>1, Tailing
    <3>3. kept \in Seq(Queries) /\ Len(kept) = m /\ Len(all) = L + 1
      BY <1>1, <1>8, <1>3, <2>1, <3>1, <3>2
    <3>4. ASSUME NEW i \in 1 .. m PROVE kept[i] = all[((L + 1) - m) + i]
      <4>1. CASE i = m
        BY <1>1, <1>8, <1>3, <2>1, <3>1, <3>2, <4>1
      <4>2. CASE i < m
        <5>1. kept[i] = list[i + 1]
          BY <1>1, <1>8, <3>1, <3>2, <4>2
        <5>2. list[i + 1] = whole[(L - m) + (i + 1)]
          BY <1>8, <1>10, <4>2
        <5>3. ((L + 1) - m) + i \in 1 .. Len(rest)
          BY <1>1, <1>8, <2>1, <4>2
        <5>4. all[((L + 1) - m) + i] = whole[((L + 1) - m) + i]
          BY <1>3, <2>1, <5>3
        <5>5. ((L + 1) - m) + i = (L - m) + (i + 1)
          BY <1>8
        <5> QED
          BY <5>1, <5>2, <5>4, <5>5
      <4> QED
        BY <1>8, <4>1, <4>2
    <3> QED
      <4>1. all \in Seq(Queries) /\ L + 1 \in Nat /\ L + 1 = Len(all) /\ m = Len(kept)
        BY <1>3, <1>8, <3>3
      <4>2. (L + 1 < M => m = L + 1) /\ (L + 1 >= M => m = M)
        BY <1>8, <2>3
      <4>a. Len(kept) = IF Len(all) < MAX_QUERY_CACHE THEN Len(all) ELSE MAX_QUERY_CACHE
        BY <1>1, <1>7, <1>8, <4>1, <4>2
      <4>b. ASSUME NEW i \in 1 .. Len(kept) PROVE kept[i] = all[Len(all) - Len(kept) + i]
        BY <3>4, <4>1
      <4>c. kept \in Seq(Queries) /\ all \in Seq(Queries) /\ IsInjective(all)
        BY <1>3, <1>4, <3>3
      <4> QED
        BY <4>a, <4>b, <4>c DEF Ends
  <2> QED
    BY <1>8, <2>2, <2>3
<1> QED
  BY <1>5, <1>6, <1>11

-----------------------------------------------------------------------------
(* Retrieval *)

LEMMA FirstIs ==
  ASSUME NEW S, NEW list \in Seq(S), NEW n \in Nat, NEW f, f = First(list, n)
  PROVE  /\ f \in Seq(S) /\ Len(f) \in Nat /\ Len(f) <= n /\ Len(f) <= Len(list)
         /\ Len(f) = n \/ Len(f) = Len(list)
         /\ \A i \in 1 .. Len(f) : f[i] = list[i]
<1>1. CASE n < Len(list)
  <2>1. f = SubSeq(list, 1, n)
    BY <1>1 DEF First
  <2> QED
    BY <1>1, <2>1
<1>2. CASE ~(n < Len(list))
  <2>1. f = SubSeq(list, 1, Len(list))
    BY <1>2 DEF First
  <2> QED
    BY <1>2, <2>1
<1> QED
  BY <1>1, <1>2

DistinctIds(list) == \A i, j \in 1 .. Len(list) : list[i].id = list[j].id => i = j

LEMMA IdsInOrderIs ==
  ASSUME NEW list \in Seq(Chunk)
  PROVE  /\ IdsInOrder(list) \in Seq(ChunkIds) /\ Len(IdsInOrder(list)) = Len(list)
         /\ \A i \in 1 .. Len(list) : IdsInOrder(list)[i] = list[i].id
         /\ ToSet(IdsInOrder(list)) = Ids(list)
         /\ IsInjective(IdsInOrder(list)) <=> DistinctIds(list)
<1> DEFINE ids == IdsInOrder(list)
<1>1. DOMAIN list = 1 .. Len(list) /\ Len(list) \in Nat
  OBVIOUS
<1>2. ids = [i \in 1 .. Len(list) |-> list[i].id]
  BY <1>1 DEF IdsInOrder
<1>3. \A i \in 1 .. Len(list) : list[i].id \in ChunkIds
  <2>1. \A i \in 1 .. Len(list) : list[i] \in Chunk
    OBVIOUS
  <2> QED
    BY <2>1 DEF Chunk
<1>4. ids \in Seq(ChunkIds) /\ Len(ids) = Len(list) /\ DOMAIN ids = 1 .. Len(list)
  BY <1>1, <1>2, <1>3
<1>5. \A i \in 1 .. Len(list) : ids[i] = list[i].id
  BY <1>2
<1> HIDE DEF ids
<1>6. ToSet(ids) = Ids(list)
  BY <1>1, <1>4, <1>5 DEF ToSet, Ids
<1>7. IsInjective(ids) <=> DistinctIds(list)
  BY <1>4, <1>5 DEF IsInjective, DistinctIds
<1> QED
  BY <1>4, <1>5, <1>6, <1>7 DEF ids

\* BM25 ranks every chunk of its corpus once.
LEMMA LexicalIs ==
  ASSUME NEW w \in World, ~LexicalFails(w), NEW limit \in Nat,
         NEW x, x = LexicalSearch(w, limit)
  PROVE  x \in Seq(Chunk) /\ DistinctIds(x) /\ Ids(x) \subseteq ToSet(Corpus)
<1> DEFINE c == Len(Corpus)
           order == Sorted(DOMAIN Corpus, Descending(DOMAIN Corpus, w.scores))
           entry(n) == [id |-> Corpus[order[n]], body |-> "text", score |-> w.scores[order[n]]]
           ranked == [n \in DOMAIN Corpus |-> entry(n)]
<1>1. /\ Corpus \in Seq(ChunkIds) /\ IsInjective(Corpus) /\ "text" \in Bodies
      /\ DOMAIN Corpus = 1 .. c /\ c \in Nat
  BY RetrievalOK, FusionOK
<1>2. w.scores \in Seq(Int) /\ Len(w.scores) = c
  BY DEF World, LexicalFails
<1> HIDE DEF c
<1>3. \A i \in 1 .. c : w.scores[i] \in Int /\ Corpus[i] \in ChunkIds
  <2>1. DOMAIN w.scores = 1 .. c
    BY <1>2
  <2> QED
    BY <1>1, <1>2, <2>1
<1>4. StrictOrder(1 .. c, Descending(1 .. c, w.scores))
  BY <1>1, <1>3, DescendingOrders
<1>5. IsFiniteSet(1 .. c) /\ Cardinality(1 .. c) = c
  BY <1>1, FS_Interval
<1>6. /\ order \in Seq(1 .. c) /\ Len(order) = c
      /\ \A k, m \in 1 .. c : k < m => <<order[k], order[m]>> \in Descending(1 .. c, w.scores)
  <2> DEFINE sorted == Sorted(1 .. c, Descending(1 .. c, w.scores))
             m0 == Cardinality(1 .. c)
  <2>1. /\ sorted \in Seq(1 .. c) /\ Len(sorted) = m0
        /\ \A k, m \in 1 .. m0 : k < m => <<sorted[k], sorted[m]>> \in Descending(1 .. c, w.scores)
    BY <1>4, <1>5, SortedLists
  <2>2. order = sorted
    BY <1>1
  <2> HIDE DEF order, sorted
  <2> QED
    BY <1>5, <2>1, <2>2
<1> HIDE DEF order
<1>7. \A n \in 1 .. c : order[n] \in 1 .. c
  <2>1. DOMAIN order = 1 .. c
    BY <1>6
  <2> QED
    BY <1>6, <2>1
<1>8. ASSUME NEW k \in 1 .. c, NEW m \in 1 .. c, order[k] = order[m] PROVE k = m
  <2>1. ASSUME NEW a \in 1 .. c, NEW b \in 1 .. c, a < b PROVE order[a] # order[b]
    <3>1. <<order[a], order[b]>> \in Descending(1 .. c, w.scores)
      BY <1>6, <2>1
    <3> QED
      BY <1>3, <1>7, <3>1 DEF Descending
  <2> QED
    BY <1>8, <2>1
<1>9. \A n \in 1 .. c : entry(n) \in Chunk /\ entry(n).id = Corpus[order[n]]
  BY <1>1, <1>3, <1>7 DEF Chunk
<1> HIDE DEF entry
<1>10. /\ ranked \in Seq(Chunk) /\ Len(ranked) = c
       /\ \A n \in 1 .. c : ranked[n].id = Corpus[order[n]]
  BY <1>1, <1>9
<1>11. x = First(ranked, limit)
  BY DEF LexicalSearch, ranked, entry, order
<1> HIDE DEF ranked
<1>12. /\ x \in Seq(Chunk) /\ Len(x) \in Nat /\ Len(x) <= c
       /\ \A i \in 1 .. Len(x) : x[i] = ranked[i]
  BY <1>10, <1>11, FirstIs, SMTT(30)
<1>13. \A i \in 1 .. Len(x) : i \in 1 .. c /\ x[i].id = Corpus[order[i]]
  BY <1>1, <1>10, <1>12
<1>14. ASSUME NEW i \in 1 .. Len(x), NEW j \in 1 .. Len(x), x[i].id = x[j].id PROVE i = j
  <2>1. Corpus[order[i]] = Corpus[order[j]]
    BY <1>13, <1>14
  <2>2. order[i] = order[j]
    BY <1>1, <1>7, <1>13, <2>1 DEF IsInjective
  <2> QED
    BY <1>8, <1>13, <2>2
<1>15. \A i \in 1 .. Len(x) : x[i].id \in ToSet(Corpus)
  BY <1>1, <1>7, <1>13 DEF ToSet
<1>16. Ids(x) \subseteq ToSet(Corpus)
  BY <1>12, <1>15 DEF Ids
<1> QED
  BY <1>12, <1>14, <1>16 DEF DistinctIds

\* Whatever the reranker returns has the form of a list.
LEMMA RerankedIs ==
  ASSUME NEW w \in World, NEW input \in Seq(Chunk), NEW r, r = Reranked(w, input)
  PROVE  \E n \in Nat : DOMAIN r = 1 .. n /\ r = [k \in 1 .. n |-> r[k]]
<1>1. CASE w.reranker = "injected"
  <2>1. w.picks \in Seq(Pick)
    BY DEF World
  <2>2. DOMAIN w.picks = 1 .. Len(w.picks) /\ Len(w.picks) \in Nat
    BY <2>1
  <2>3. r = [n \in DOMAIN w.picks |-> Changed(input[w.picks[n].at], w.picks[n].how)]
    BY <1>1 DEF Reranked
  <2> QED
    BY <2>2, <2>3
<1>2. CASE w.reranker # "injected"
  <2> DEFINE order == Sorted(DOMAIN input, Descending(DOMAIN input, w.relevance))
  <2>1. r = [n \in DOMAIN input |-> input[order[n]]]
    BY <1>2 DEF Reranked
  <2>2. DOMAIN input = 1 .. Len(input) /\ Len(input) \in Nat
    OBVIOUS
  <2> HIDE DEF order
  <2> QED
    BY <2>1, <2>2
<1> QED
  BY <1>1, <1>2

\* As many ids as entries: no id comes twice.
LEMMA CountedIds ==
  ASSUME NEW list \in Seq(Chunk)
  PROVE  Cardinality(Ids(list)) = Len(list) <=> DistinctIds(list)
<1> DEFINE n == Len(list)
           f == [i \in 1 .. n |-> list[i].id]
<1>1. n \in Nat /\ DOMAIN list = 1 .. n /\ Ids(list) = { list[i].id : i \in 1 .. n }
  BY DEF Ids
<1>2. IsFiniteSet(1 .. n) /\ Cardinality(1 .. n) = n
  BY <1>1, FS_Interval
<1>3. f \in Surjection(1 .. n, Ids(list))
  BY <1>1 DEF Surjection
<1>4. Cardinality(Ids(list)) = n <=> f \in Injection(1 .. n, Ids(list))
  BY <1>2, <1>3, FS_Surjection
<1>5. f \in [1 .. n -> Ids(list)] /\ \A i \in 1 .. n : f[i] = list[i].id
  BY <1>1
<1> HIDE DEF f, n
<1>6. f \in Injection(1 .. n, Ids(list)) <=> \A i, j \in 1 .. n : f[i] = f[j] => i = j
  BY <1>5 DEF Injection, IsInjective
<1> QED
  BY <1>4, <1>5, <1>6 DEF DistinctIds, n

\* What passes the check against the snapshot comes from the snapshot, once.
LEMMA SnapshotIs ==
  ASSUME NEW input \in Seq(Chunk), NEW r, NEW n \in Nat, DOMAIN r = 1 .. n,
         r = [k \in 1 .. n |-> r[k]], MatchesSnapshot(r, input)
  PROVE  /\ r \in Seq(Chunk) /\ Len(r) <= RERANK_LIMIT /\ DistinctIds(r)
         /\ \A k \in 1 .. Len(r) : \E i \in 1 .. Len(input) : r[k] = input[i]
<1>1. \A k \in 1 .. n : \E i \in 1 .. Len(input) : r[k] = input[i]
  BY DEF MatchesSnapshot, Contains
<1>2. \A k \in 1 .. n : r[k] \in Chunk
  BY <1>1
<1>3. r \in Seq(Chunk) /\ Len(r) = n
  BY <1>2
<1>4. Len(r) <= RERANK_LIMIT /\ Cardinality(Ids(r)) = Len(r)
  BY DEF MatchesSnapshot
<1>5. DistinctIds(r)
  BY <1>3, <1>4, CountedIds
<1> QED
  BY <1>1, <1>3, <1>4, <1>5

\* An answer of a hybrid variant shows entries of the head of the fusion.
LEMMA HybridIs ==
  ASSUME NEW w \in World, ~LexicalFails(w), NEW limit \in Nat, NEW v,
         NEW fused, fused = fuse_public_rrf(LexicalSearch(w, CANDIDATE_LIMIT), w.dense),
         NEW x, x = retrieve_hybrid(v, w, limit), x.status = "answered"
  PROVE  /\ x = Result("answered", x.evidence, IdsInOrder(fused))
         /\ x.evidence \in Seq(Chunk) /\ Len(x.evidence) <= limit /\ DistinctIds(x.evidence)
         /\ \A n \in 1 .. Len(x.evidence) : \E rank \in 1 .. RERANK_LIMIT :
               rank <= Len(fused) /\ x.evidence[n] = fused[rank]
<1> DEFINE lexical == LexicalSearch(w, CANDIDATE_LIMIT)
           input == First(fused, RERANK_LIMIT)
           reranked == IF v = "hybrid_rrf" THEN input ELSE Reranked(w, input)
           top == First(reranked, limit)
           shown == Evidence(top, input)
<1>1. CANDIDATE_LIMIT \in Nat /\ RERANK_LIMIT \in Nat
  BY RetrievalOK
<1>2. lexical \in Seq(Chunk) /\ w.dense \in Seq(Chunk)
  BY <1>1, LexicalIs DEF World
<1>3. fused \in Seq(Chunk)
  BY <1>2, FuseIs
<1>4. /\ input \in Seq(Chunk) /\ Len(input) \in Nat /\ Len(input) <= RERANK_LIMIT
      /\ Len(input) <= Len(fused)
      /\ \A i \in 1 .. Len(input) : input[i] = fused[i]
  BY <1>1, <1>3, FirstIs
<1>5. MatchesSnapshot(reranked, input) /\ x = Result("answered", shown, IdsInOrder(fused))
  <2>1. Failed.status # "answered"
    BY DEF Failed, Result
  <2> QED
    BY <2>1 DEF retrieve_hybrid
<1> HIDE DEF input, lexical
<1>6. PICK n \in Nat : DOMAIN reranked = 1 .. n /\ reranked = [k \in 1 .. n |-> reranked[k]]
  <2>1. CASE v = "hybrid_rrf"
    <3>1. DOMAIN input = 1 .. Len(input) /\ input = [k \in 1 .. Len(input) |-> input[k]]
      BY <1>4
    <3> QED
      BY <1>4, <2>1, <3>1
  <2>2. CASE v # "hybrid_rrf"
    BY <1>4, <2>2, RerankedIs
  <2> QED
    BY <2>1, <2>2
<1> HIDE DEF reranked
<1>7. /\ reranked \in Seq(Chunk) /\ DistinctIds(reranked)
      /\ \A k \in 1 .. Len(reranked) : \E i \in 1 .. Len(input) : reranked[k] = input[i]
  BY <1>4, <1>5, <1>6, SnapshotIs
<1>8. /\ top \in Seq(Chunk) /\ Len(top) <= limit /\ Len(top) <= Len(reranked) /\ Len(top) \in Nat
      /\ \A k \in 1 .. Len(top) : top[k] = reranked[k]
  BY <1>7, FirstIs
<1> HIDE DEF top
<1>9. ASSUME NEW k \in 1 .. Len(top)
      PROVE  /\ top[k].id \in Ids(input) /\ input[Rank(input, top[k].id)].id = top[k].id
             /\ Rank(input, top[k].id) \in 1 .. Len(input)
  <2>1. PICK i \in 1 .. Len(input) : top[k] = input[i]
    BY <1>7, <1>8
  <2>2. top[k].id \in Ids(input)
    BY <1>4, <2>1 DEF Ids
  <2> QED
    BY <1>4, <2>2, RankIs
<1>10. /\ shown \in Seq(Chunk) /\ Len(shown) = Len(top)
       /\ \A k \in 1 .. Len(top) : shown[k] = input[Rank(input, top[k].id)]
  <2>1. shown = [k \in 1 .. Len(top) |-> input[Rank(input, top[k].id)]]
    BY <1>8 DEF Evidence
  <2>2. \A k \in 1 .. Len(top) : input[Rank(input, top[k].id)] \in Chunk
    BY <1>4, <1>9
  <2> HIDE DEF shown
  <2> QED
    BY <1>8, <2>1, <2>2
<1> HIDE DEF shown
<1>11. DistinctIds(shown)
  <2> SUFFICES ASSUME NEW i \in 1 .. Len(top), NEW j \in 1 .. Len(top), shown[i].id = shown[j].id
               PROVE  i = j
    BY <1>10 DEF DistinctIds
  <2>1. top[i].id = top[j].id
    BY <1>9, <1>10
  <2>2. reranked[i].id = reranked[j].id /\ i \in 1 .. Len(reranked) /\ j \in 1 .. Len(reranked)
    BY <1>7, <1>8, <2>1
  <2> QED
    BY <1>7, <2>2 DEF DistinctIds
<1>12. ASSUME NEW k \in 1 .. Len(shown)
       PROVE  \E rank \in 1 .. RERANK_LIMIT : rank <= Len(fused) /\ shown[k] = fused[rank]
  <2>1. PICK rank \in 1 .. Len(input) : shown[k] = input[rank]
    BY <1>9, <1>10
  <2>2. rank \in 1 .. RERANK_LIMIT /\ rank <= Len(fused) /\ shown[k] = fused[rank]
    BY <1>1, <1>3, <1>4, <2>1
  <2> QED
    BY <2>2
<1>13. x.evidence = shown
  BY <1>5 DEF Result
<1> QED
  BY <1>5, <1>8, <1>10, <1>11, <1>12, <1>13

Response == [status : {"answered", "failed", "refused"}, evidence : Seq(Chunk), fused : Seq(ChunkIds)]

LEMMA SingleIs ==
  ASSUME NEW list \in Seq(Chunk), NEW limit \in Nat, NEW x, x = retrieve_single(list, limit)
  PROVE  /\ x \in Response /\ x.status = "answered"
         /\ DistinctIds(list) => IsInjective(x.fused) /\ DistinctIds(x.evidence)
         /\ Len(x.evidence) <= limit /\ Ids(x.evidence) \subseteq ToSet(x.fused)
<1> DEFINE f == First(list, limit)
<1>1. x = [status |-> "answered", evidence |-> f, fused |-> IdsInOrder(list)]
  BY DEF retrieve_single, Result
<1>2. /\ f \in Seq(Chunk) /\ Len(f) \in Nat /\ Len(f) <= limit /\ Len(f) <= Len(list)
      /\ \A i \in 1 .. Len(f) : f[i] = list[i]
  BY FirstIs
<1>3. /\ IdsInOrder(list) \in Seq(ChunkIds) /\ ToSet(IdsInOrder(list)) = Ids(list)
      /\ IsInjective(IdsInOrder(list)) <=> DistinctIds(list)
  BY IdsInOrderIs
<1> HIDE DEF f
<1>4. x.status = "answered" /\ x.evidence = f /\ x.fused = IdsInOrder(list) /\ x \in Response
  BY <1>1, <1>2, <1>3 DEF Response
<1>5. DistinctIds(list) => DistinctIds(f)
  BY <1>2 DEF DistinctIds
<1>6. Ids(f) \subseteq Ids(list)
  BY <1>2 DEF Ids
<1> QED
  BY <1>2, <1>3, <1>4, <1>5, <1>6

\* An answer is one of a single provider or of a hybrid variant.
LEMMA RetrieveIs ==
  ASSUME NEW w \in World, NEW v, NEW known, NEW q, NEW limit \in Nat,
         NEW x, x = retrieve(v, known, q, w, limit)
  PROVE  /\ x \in Response
         /\ x.status = "answered" => is_public_demo_query_allowed(q)
         /\ ~is_public_demo_query_allowed(q) <=> x.status = "refused"
         /\ x.status # "answered" => x.fused = <<>> /\ x.evidence = <<>>
         /\ x.status = "answered" /\ v \notin {"bm25", "dense"} =>
               ~LexicalFails(w) /\ x = retrieve_hybrid(v, w, limit)
         /\ x.status = "answered" /\ DistinctIds(w.dense) =>
               /\ IsInjective(x.fused) /\ DistinctIds(x.evidence)
               /\ Len(x.evidence) <= limit /\ Ids(x.evidence) \subseteq ToSet(x.fused)
<1>1. /\ Failed \in Response /\ Failed.status = "failed"
      /\ Refused \in Response /\ Refused.status = "refused"
      /\ Failed.fused = <<>> /\ Failed.evidence = <<>>
      /\ Refused.fused = <<>> /\ Refused.evidence = <<>>
  BY DEF Failed, Refused, Result, Response
<1>2. w.dense \in Seq(Chunk) /\ SINGLE_LIMIT \in Nat /\ CANDIDATE_LIMIT \in Nat
  BY RetrievalOK DEF World
<1>3. CASE ~is_public_demo_query_allowed(q)
  BY <1>1, <1>3 DEF retrieve
<1>4. CASE is_public_demo_query_allowed(q) /\ x = Failed
  BY <1>1, <1>4
<1>5. CASE is_public_demo_query_allowed(q) /\ x # Failed
  <2>1. CASE v = "bm25"
    <3>1. x = retrieve_single(LexicalSearch(w, SINGLE_LIMIT), limit) /\ ~LexicalFails(w)
      BY <1>5, <2>1 DEF retrieve
    <3>2. LexicalSearch(w, SINGLE_LIMIT) \in Seq(Chunk) /\ DistinctIds(LexicalSearch(w, SINGLE_LIMIT))
      BY <1>2, <3>1, LexicalIs
    <3> QED
      BY <1>5, <2>1, <3>1, <3>2, SingleIs
  <2>2. CASE v = "dense"
    <3>1. x = retrieve_single(w.dense, limit)
      BY <1>5, <2>2 DEF retrieve
    <3> QED
      BY <1>2, <1>5, <2>2, <3>1, SingleIs
  <2>3. CASE v \notin {"bm25", "dense"}
    <3>1. x = retrieve_hybrid(v, w, limit) /\ ~LexicalFails(w)
      BY <1>5, <2>3 DEF retrieve
    <3> DEFINE fused == fuse_public_rrf(LexicalSearch(w, CANDIDATE_LIMIT), w.dense)
    <3>2. x.status = "answered"
      BY <1>5, <3>1 DEF retrieve_hybrid, Result
    <3>3. /\ x = Result("answered", x.evidence, IdsInOrder(fused))
          /\ x.evidence \in Seq(Chunk) /\ Len(x.evidence) <= limit /\ DistinctIds(x.evidence)
          /\ \A n \in 1 .. Len(x.evidence) : \E rank \in 1 .. RERANK_LIMIT :
                rank <= Len(fused) /\ x.evidence[n] = fused[rank]
      BY <3>1, <3>2, HybridIs
    <3>4. fused \in Seq(Chunk) /\ DistinctIds(fused)
      <4>1. LexicalSearch(w, CANDIDATE_LIMIT) \in Seq(Chunk)
        BY <1>2, <3>1, LexicalIs
      <4> QED
        BY <1>2, <4>1, FuseIs DEF DistinctIds
    <3> HIDE DEF fused
    <3>5. /\ IdsInOrder(fused) \in Seq(ChunkIds) /\ ToSet(IdsInOrder(fused)) = Ids(fused)
          /\ IsInjective(IdsInOrder(fused))
      BY <3>4, IdsInOrderIs
    <3>6. x.fused = IdsInOrder(fused)
      BY <3>3 DEF Result
    <3>7. x \in Response
      BY <3>3, <3>5 DEF Result, Response
    <3>8. Ids(x.evidence) \subseteq Ids(fused)
      <4> SUFFICES ASSUME NEW n \in 1 .. Len(x.evidence) PROVE x.evidence[n].id \in Ids(fused)
        BY <3>3, SMTT(30) DEF Ids
      <4>1. PICK rank \in 1 .. RERANK_LIMIT : rank <= Len(fused) /\ x.evidence[n] = fused[rank]
        BY <3>3
      <4> QED
        BY <3>4, <4>1 DEF Ids
    <3> QED
      BY <1>5, <2>3, <3>1, <3>2, <3>3, <3>5, <3>6, <3>7, <3>8
  <2> QED
    BY <2>1, <2>2, <2>3
<1> QED
  BY <1>3, <1>4, <1>5

-----------------------------------------------------------------------------
(* The cache *)

LEMMA EncodeStep ==
  ASSUME Ends(cache, recent), NEW q \in Queries, NEW w, Encode(q, w)
  PROVE  Ends(cache, recent)'
<1>1. CASE Encodes(variant, cache, q, w)
  <2>1. cache' = Remember(cache, q) /\ recent' = Append(Without(recent, q), q)
    BY <1>1 DEF Encode, CacheAfter
  <2>2. Ends(Remember(cache, q), Append(Without(recent, q), q))
    BY Remembering
  <2> QED
    BY <2>1, <2>2
<1>2. CASE ~Encodes(variant, cache, q, w)
  <2>1. cache' = cache /\ recent' = recent
    BY <1>2 DEF Encode, CacheAfter
  <2> QED
    BY <2>1
<1> QED
  BY <1>1, <1>2

\* What an evaluator is given for a case.
Given == [response : [status : {"answered", "failed", "refused"}, evidence : Seq(ChunkIds),
                      fused : Seq(ChunkIds)],
          clock : {"works", "no_start", "no_end", "backwards"}, elapsed : Nat]

Loaded == suite \in Seq(Case) /\ trail \in Seq(Given) /\ Len(trail) <= Len(suite)

\* The step of an evaluator, its parts named.
LEMMA EvaluateIs ==
  ASSUME Loaded, NEW w \in CaseWorlds, NEW reading \in Readings, Evaluate(w, reading)
  PROVE  \E c \in Case, x \in Response, e \in Given :
            /\ Len(trail) + 1 \in 1 .. Len(suite) /\ c = suite[Len(trail) + 1]
            /\ x = IF client = "demo" \/ reading.clock # "no_start"
                   THEN retrieve(variant, cache, c.query, w, ANSWER_LIMIT) ELSE Failed
            /\ e = [response |-> Seen(x), clock |-> reading.clock, elapsed |-> reading.elapsed]
            /\ trail' = Append(trail, e) /\ suite' = suite
            /\ report' = Judge(client, report, c, e)
            /\ second' = Judge(Other(client), second, c, e)
<1> DEFINE k == Len(trail) + 1
           c == suite[k]
           x == IF client = "demo" \/ reading.clock # "no_start"
                THEN retrieve(variant, cache, c.query, w, ANSWER_LIMIT) ELSE Failed
           e == [response |-> Seen(x), clock |-> reading.clock, elapsed |-> reading.elapsed]
<1>1. /\ Len(trail) < Len(suite) /\ trail' = Append(trail, e) /\ suite' = suite
      /\ report' = Judge(client, report, c, e)
      /\ second' = Judge(Other(client), second, c, e)
  BY DEF Evaluate
<1>2. k \in 1 .. Len(suite) /\ c \in Case
  <2>1. suite \in Seq(Case) /\ Len(trail) \in Nat
    BY DEF Loaded
  <2>2. k \in 1 .. Len(suite)
    BY <1>1, <2>1
  <2> HIDE DEF k
  <2> QED
    BY <2>1, <2>2
<1>3. w \in World /\ ANSWER_LIMIT \in Nat
  BY EvaluationOK
<1> HIDE DEF c
<1>4. x \in Response
  <2>1. retrieve(variant, cache, c.query, w, ANSWER_LIMIT) \in Response
    BY <1>3, RetrieveIs
  <2>2. Failed \in Response
    BY DEF Failed, Result, Response
  <2> QED
    BY <2>1, <2>2
<1> HIDE DEF x
<1>5. e \in Given
  <2>1. x.evidence \in Seq(Chunk)
    BY <1>4 DEF Response
  <2>2. IdsInOrder(x.evidence) \in Seq(ChunkIds)
    BY <2>1, IdsInOrderIs
  <2>3. reading.clock \in {"works", "no_start", "no_end", "backwards"} /\ reading.elapsed \in Nat
    <3>1. CASE reading \in [clock : {"works"}, elapsed : Durations]
      BY <3>1, EvaluationOK
    <3>2. CASE reading \in [clock : {"no_start", "no_end", "backwards"}, elapsed : {0}]
      BY <3>2
    <3> QED
      BY <3>1, <3>2 DEF Readings
  <2> QED
    BY <1>4, <2>2, <2>3 DEF Response, Seen, Given
<1> HIDE DEF e
<1> QED
  BY <1>1, <1>2, <1>4, <1>5 DEF c, x, e

LEMMA LoadedStep ==
  ASSUME Loaded, [Next]_vars
  PROVE  Loaded'
<1>1. CASE UNCHANGED vars
  BY <1>1 DEF vars, Loaded
<1>2. CASE \E q \in Queries, w \in Worlds, limit \in 1 .. ANSWER_LIMIT : Serve(q, w, limit)
  BY <1>2 DEF Serve, Loaded
<1>3. CASE Return
  BY <1>3 DEF Return, Loaded
<1>4. ASSUME NEW s \in Datasets, Load(s) PROVE Loaded'
  <2>1. suite = <<>> /\ suite' = s /\ trail' = trail
    BY <1>4 DEF Load
  <2>2. s \in Seq(Case)
    BY EvaluationOK
  <2>3. Len(trail) = 0 /\ Len(s) \in Nat
    BY <2>1, <2>2 DEF Loaded
  <2> QED
    BY <2>1, <2>2, <2>3 DEF Loaded
<1>5. ASSUME NEW w \in CaseWorlds, NEW reading \in Readings, Evaluate(w, reading) PROVE Loaded'
  <2>1. PICK e \in Given : /\ Len(trail) + 1 \in 1 .. Len(suite)
                           /\ trail' = Append(trail, e) /\ suite' = suite
    BY <1>5, EvaluateIs
  <2> QED
    BY <2>1 DEF Loaded
<1> QED
  BY <1>1, <1>2, <1>3, <1>4, <1>5 DEF Next

\* The encoder never forgets a query that is among the MAX_QUERY_CACHE used
\* last (LazyBgeM3Encoder.encode_query), whoever asked.
RecentInv == Loaded /\ Ends(cache, recent)

THEOREM EncoderRemembersTheLastQueries == Spec => []CacheIsRecent
<1>1. Init => RecentInv
  BY RetrievalOK DEF Init, RecentInv, Loaded, Ends, IsInjective
<1>2. RecentInv /\ [Next]_vars => RecentInv'
  <2> SUFFICES ASSUME RecentInv, [Next]_vars PROVE RecentInv'
    OBVIOUS
  <2>1. Loaded'
    BY LoadedStep DEF RecentInv
  <2>2. CASE UNCHANGED vars
    <3>1. cache' = cache /\ recent' = recent
      BY <2>2 DEF vars
    <3> QED
      BY <2>1, <3>1 DEF RecentInv
  <2>3. ASSUME NEW q \in Queries, NEW w \in Worlds, NEW limit \in 1 .. ANSWER_LIMIT, Serve(q, w, limit)
        PROVE  RecentInv'
    <3>1. Encode(q, w)
      BY <2>3 DEF Serve
    <3> QED
      BY <2>1, <3>1, EncodeStep DEF RecentInv
  <2>4. CASE Return
    <3>1. cache' = cache /\ recent' = recent
      BY <2>4 DEF Return
    <3> QED
      BY <2>1, <3>1 DEF RecentInv
  <2>5. ASSUME NEW s \in Datasets, Load(s) PROVE RecentInv'
    <3>1. cache' = cache /\ recent' = recent
      BY <2>5 DEF Load
    <3> QED
      BY <2>1, <3>1 DEF RecentInv
  <2>6. ASSUME NEW w \in CaseWorlds, NEW reading \in Readings, Evaluate(w, reading)
        PROVE  RecentInv'
    <3>1. PICK c \in Case : c = suite[Len(trail) + 1]
      BY <2>6, EvaluateIs DEF RecentInv
    <3>2. c.query \in Queries
      BY <3>1 DEF Case
    <3>3. Encode(c.query, w) \/ UNCHANGED <<cache, recent>>
      BY <2>6, <3>1 DEF Evaluate
    <3>4. CASE Encode(c.query, w)
      BY <2>1, <3>2, <3>4, EncodeStep DEF RecentInv
    <3>5. CASE UNCHANGED <<cache, recent>>
      BY <2>1, <3>5 DEF RecentInv
    <3> QED
      BY <3>3, <3>4, <3>5
  <2> QED
    BY <2>2, <2>3, <2>4, <2>5, <2>6 DEF Next
<1>3. RecentInv => CacheIsRecent
  <2> SUFFICES ASSUME RecentInv PROVE CacheIsRecent
    OBVIOUS
  <2> DEFINE L == Len(recent)
             n == Len(cache)
             M == MAX_QUERY_CACHE
             part == SubSeq(recent, L - n + 1, L)
  <2>1. /\ cache \in Seq(Queries) /\ recent \in Seq(Queries)
        /\ L \in Nat /\ n \in Nat /\ M \in Nat \ {0} /\ n = IF L < M THEN L ELSE M
        /\ \A i \in 1 .. n : cache[i] = recent[L - n + i]
    <3>1. M \in Nat \ {0}
      BY RetrievalOK
    <3>2. Ends(cache, recent)
      BY DEF RecentInv
    <3>3. cache \in Seq(Queries) /\ recent \in Seq(Queries)
      BY <3>2 DEF Ends
    <3>4. L \in Nat /\ n \in Nat
      BY <3>3
    <3>5. n = IF L < M THEN L ELSE M
      BY <3>2 DEF Ends
    <3>6. \A i \in 1 .. n : cache[i] = recent[L - n + i]
      BY <3>2 DEF Ends
    <3> HIDE DEF L, n, M
    <3> QED
      BY <3>1, <3>3, <3>4, <3>5, <3>6
  <2> HIDE DEF L, n, M
  <2>5. n <= L
    BY <2>1
  <2>2. Min({L, M}) = n
    <3>1. {L, M} \in SUBSET Int /\ IsFiniteSet({L, M}) /\ {L, M} # {}
      <4>1. IsFiniteSet({L}) /\ {L, M} = {L} \cup {M}
        BY FS_Singleton
      <4>2. IsFiniteSet({L} \cup {M})
        BY <4>1, FS_AddElement
      <4> QED
        BY <2>1, <4>1, <4>2, SMTT(30)
    <3>2. Min({L, M}) \in {L, M} /\ \A x \in {L, M} : Min({L, M}) <= x
      BY <3>1, MinIs
    <3> QED
      BY <2>1, <3>2
  <2>3. part \in Seq(Queries) /\ Len(part) = n /\ \A i \in 1 .. n : part[i] = recent[L - n + i]
    <3>1. L = Len(recent)
      BY DEF L
    <3> QED
      <4>1. recent \in Seq(Queries) /\ L \in Nat /\ n \in Nat /\ n <= L
        BY <2>1, <2>5
      <4> QED
        BY <3>1, <4>1, Endings
  <2> HIDE DEF part
  <2>4. part = cache
    BY <2>1, <2>3 DEF n
  <2> QED
    BY <2>2, <2>4 DEF CacheIsRecent, part, L, M
<1> QED
  BY <1>1, <1>2, <1>3, PTL DEF Spec

-----------------------------------------------------------------------------
(* The answers of the MCP server *)

\* What the server holds is what one call of the hybrid retriever returned.
Retrieved ==
    /\ client = "mcp" => variant = "hybrid_rerank"
    /\ call # None =>
          \E q \in Queries, w \in World, limit \in 1 .. ANSWER_LIMIT, x \in Response :
             /\ \E known : x = retrieve("hybrid_rerank", known, q, w, limit)
             /\ call = [query |-> q, w |-> w, limit |-> limit, response |-> x,
                        code |-> Shown(x, limit)]

LEMMA RetrievedAlways == Spec => []Retrieved
<1>1. Init => Retrieved
  BY DEF Init, Retrieved
<1>2. Retrieved /\ [Next]_vars => Retrieved'
  <2> SUFFICES ASSUME Retrieved, [Next]_vars PROVE Retrieved'
    OBVIOUS
  <2>1. CASE UNCHANGED vars
    BY <2>1 DEF vars, Retrieved
  <2>2. ASSUME NEW q \in Queries, NEW w \in Worlds, NEW limit \in 1 .. ANSWER_LIMIT, Serve(q, w, limit)
        PROVE  Retrieved'
    <3> DEFINE x == retrieve("hybrid_rerank", cache, q, w, limit)
    <3>1. w \in World /\ limit \in Nat
      BY EvaluationOK
    <3>2. x \in Response
      BY <3>1, RetrieveIs
    <3>3. call' = [query |-> q, w |-> w, limit |-> limit, response |-> x, code |-> Shown(x, limit)]
      BY <2>2 DEF Serve, Retrieved
    <3>4. \E known : x = retrieve("hybrid_rerank", known, q, w, limit)
      OBVIOUS
    <3>5. client' = client /\ variant' = variant
      BY <2>2 DEF Serve
    <3> HIDE DEF x
    <3> QED
      BY <3>1, <3>2, <3>3, <3>4, <3>5 DEF Retrieved
  <2>3. CASE Return
    BY <2>3 DEF Return, Retrieved
  <2>4. ASSUME NEW s \in Datasets, Load(s) PROVE Retrieved'
    BY <2>4 DEF Load, Retrieved
  <2>5. ASSUME NEW w \in CaseWorlds, NEW reading \in Readings, Evaluate(w, reading)
        PROVE  Retrieved'
    BY <2>5 DEF Evaluate, Retrieved
  <2> QED
    BY <2>1, <2>2, <2>3, <2>4, <2>5 DEF Next
<1> QED
  BY <1>1, <1>2, PTL DEF Spec

\* Whatever the providers and the reranker return, what the server shows passes
\* its own check, comes from a provider in this call and from the head of the
\* fusion, unchanged and once; a private query is shown nothing
\* (HybridPublicRetriever._search, _validate_reranked, _SafePublicRetriever).
THEOREM AnswersAreRetrieved == Spec => []EvidenceIsRetrieved
<1>1. Retrieved => EvidenceIsRetrieved
  <2> SUFFICES ASSUME Retrieved, call # None, call.response.status = "answered"
               PROVE  EvidenceIsRetrieved
    BY DEF EvidenceIsRetrieved
  <2>1. PICK q \in Queries, w \in World, limit \in 1 .. ANSWER_LIMIT, x \in Response :
           /\ \E known : x = retrieve("hybrid_rerank", known, q, w, limit)
           /\ call = [query |-> q, w |-> w, limit |-> limit, response |-> x,
                      code |-> Shown(x, limit)]
    BY DEF Retrieved
  <2>2. /\ call.query = q /\ call.w = w /\ call.limit = limit /\ call.response = x
        /\ call.code = Shown(x, limit) /\ x.status = "answered"
    BY <2>1
  <2>3. limit \in Nat
    BY EvaluationOK
  <2>4. ~LexicalFails(w) /\ is_public_demo_query_allowed(q) /\ x = retrieve_hybrid("hybrid_rerank", w, limit)
    BY <2>1, <2>2, <2>3, RetrieveIs
  <2> DEFINE lexical == LexicalSearch(w, CANDIDATE_LIMIT)
             fused == fuse_public_rrf(lexical, w.dense)
             shown == x.evidence
  <2>5. /\ x = Result("answered", shown, IdsInOrder(fused))
        /\ shown \in Seq(Chunk) /\ Len(shown) <= limit /\ DistinctIds(shown)
        /\ \A n \in 1 .. Len(shown) : \E rank \in 1 .. RERANK_LIMIT :
              rank <= Len(fused) /\ shown[n] = fused[rank]
    BY <2>2, <2>3, <2>4, HybridIs
  <2>6. lexical \in Seq(Chunk) /\ w.dense \in Seq(Chunk)
    BY <2>4, LexicalIs, RetrievalOK DEF World
  <2>7. /\ fused \in Seq(Chunk)
        /\ \A i \in 1 .. Len(fused) : \E chunk \in ToSet(lexical) \cup ToSet(w.dense) :
              fused[i].id = chunk.id /\ fused[i].body = chunk.body
    BY <2>6, FuseIs
  <2> HIDE DEF lexical, fused, shown
  <2>8. /\ x.fused = IdsInOrder(fused) /\ Len(x.fused) = Len(fused)
        /\ \A i \in 1 .. Len(fused) : x.fused[i] = fused[i].id
    BY <2>5, <2>7, IdsInOrderIs DEF Result
  <2>9. call.code = "ok"
    <3>1. Cardinality(Ids(shown)) = Len(shown)
      BY <2>5, CountedIds
    <3> QED
      BY <2>2, <2>3, <2>5, <3>1 DEF Shown, shown
  <2>10. q \notin PrivateQueries
    BY <2>4 DEF is_public_demo_query_allowed
  <2>11. DOMAIN shown = 1 .. Len(shown)
    BY <2>5
  <2>12. ASSUME NEW n \in 1 .. Len(shown)
         PROVE  /\ \E chunk \in ToSet(lexical) \cup ToSet(w.dense) :
                      shown[n].id = chunk.id /\ shown[n].body = chunk.body
                /\ \E rank \in 1 .. RERANK_LIMIT : rank <= Len(x.fused) /\ x.fused[rank] = shown[n].id
                /\ \A k \in 1 .. Len(shown) : k # n => shown[k].id # shown[n].id
    <3>1. PICK rank \in 1 .. RERANK_LIMIT : rank <= Len(fused) /\ shown[n] = fused[rank]
      BY <2>5
    <3>2. rank \in 1 .. Len(fused)
      BY <2>7, <3>1
    <3>3. x.fused[rank] = shown[n].id /\ rank <= Len(x.fused)
      BY <2>8, <3>1, <3>2
    <3>4. \E chunk \in ToSet(lexical) \cup ToSet(w.dense) :
             shown[n].id = chunk.id /\ shown[n].body = chunk.body
      BY <2>7, <3>1, <3>2
    <3>5. \A k \in 1 .. Len(shown) : k # n => shown[k].id # shown[n].id
      BY <2>5 DEF DistinctIds
    <3> QED
      BY <3>3, <3>4, <3>5
  <2> QED
    BY <2>2, <2>5, <2>9, <2>10, <2>11, <2>12 DEF EvidenceIsRetrieved, lexical, shown
<1> QED
  BY <1>1, RetrievedAlways, PTL

\* Fusion loses and repeats no chunk, and never puts one behind another that
\* neither provider prefers to it (fuse_public_rrf).
THEOREM FusionOrdersFairly == Spec => []FusionIsFair
<1>1. Retrieved => FusionIsFair
  <2> SUFFICES ASSUME Retrieved, call # None, call.response.status = "answered"
               PROVE  FusionIsFair
    BY DEF FusionIsFair
  <2>1. PICK q \in Queries, w \in World, limit \in 1 .. ANSWER_LIMIT, x \in Response :
           /\ \E known : x = retrieve("hybrid_rerank", known, q, w, limit)
           /\ call = [query |-> q, w |-> w, limit |-> limit, response |-> x,
                      code |-> Shown(x, limit)]
    BY DEF Retrieved
  <2>2. call.w = w /\ call.response = x /\ x.status = "answered"
    BY <2>1
  <2>3. limit \in Nat
    BY EvaluationOK
  <2>4. ~LexicalFails(w) /\ x = retrieve_hybrid("hybrid_rerank", w, limit)
    BY <2>1, <2>2, <2>3, RetrieveIs
  <2> DEFINE lexical == LexicalSearch(w, CANDIDATE_LIMIT)
             dense == w.dense
             fused == fuse_public_rrf(lexical, dense)
             ids == x.fused
  <2>5. x = Result("answered", x.evidence, IdsInOrder(fused))
    BY <2>2, <2>3, <2>4, HybridIs
  <2>6. lexical \in Seq(Chunk) /\ dense \in Seq(Chunk)
    BY <2>4, LexicalIs, RetrievalOK DEF World
  <2>7. /\ fused \in Seq(Chunk) /\ Ids(fused) = Ids(lexical) \cup Ids(dense)
        /\ DistinctIds(fused)
        /\ \A i, j \in 1 .. Len(fused) :
              /\ NoWorse(lexical, fused[i].id, fused[j].id)
              /\ NoWorse(dense, fused[i].id, fused[j].id)
              => i <= j
    BY <2>6, FuseIs DEF DistinctIds
  <2> HIDE DEF lexical, dense, fused, ids
  <2>8. ids = IdsInOrder(fused)
    BY <2>5 DEF Result, ids
  <2>9. /\ ids \in Seq(ChunkIds) /\ Len(ids) = Len(fused)
        /\ \A i \in 1 .. Len(fused) : ids[i] = fused[i].id
        /\ ToSet(ids) = Ids(fused) /\ IsInjective(ids)
    BY <2>7, <2>8, IdsInOrderIs
  <2>10. DOMAIN ids = 1 .. Len(fused)
    BY <2>9
  <2>11. ASSUME NEW i \in DOMAIN ids, NEW j \in DOMAIN ids,
                ids[j] \in Ids(lexical) => ids[i] \in Ids(lexical) /\ Rank(lexical, ids[i]) < Rank(lexical, ids[j]),
                ids[j] \in Ids(dense) => ids[i] \in Ids(dense) /\ Rank(dense, ids[i]) < Rank(dense, ids[j])
         PROVE  i <= j
    <3>1. NoWorse(lexical, fused[i].id, fused[j].id) /\ NoWorse(dense, fused[i].id, fused[j].id)
      BY <2>9, <2>10, <2>11 DEF NoWorse
    <3> QED
      BY <2>7, <2>10, <3>1
  <2> QED
    BY <2>2, <2>7, <2>9, <2>11 DEF FusionIsFair, lexical, dense, ids
<1> QED
  BY <1>1, RetrievedAlways, PTL

-----------------------------------------------------------------------------
(* The counters *)

Counters == [answered : Nat, technical : Nat, correct : Nat, hits : Nat, reciprocal : Nat,
             latencies : Seq(Nat)]

Hits(ranks) == IF ranks = {} THEN 0 ELSE 1
Worth(ranks) == IF ranks = {} THEN 0 ELSE 60 \div Min(ranks)

LEMMA TimedIs ==
  ASSUME NEW r \in Counters, NEW e \in Given, NEW t, t = Timed(r, e)
  PROVE  /\ t \in Counters
         /\ t.answered = r.answered /\ t.technical = r.technical /\ t.correct = r.correct
         /\ t.hits = r.hits /\ t.reciprocal = r.reciprocal
         /\ t.latencies = IF e.clock = "works" THEN Append(r.latencies, e.elapsed) ELSE r.latencies
<1>1. r.latencies \in Seq(Nat) /\ e.elapsed \in Nat
  BY DEF Counters, Given
<1>2. Append(r.latencies, e.elapsed) \in Seq(Nat)
  BY <1>1
<1>3. CASE e.clock = "works"
  <2>1. t = [r EXCEPT !.latencies = Append(@, e.elapsed)]
    BY <1>3 DEF Timed
  <2> QED
    BY <1>2, <1>3, <2>1 DEF Counters
<1>4. CASE e.clock # "works"
  BY <1>4 DEF Timed
<1> QED
  BY <1>3, <1>4

LEMMA NonAnswerIs ==
  ASSUME NEW r \in Counters, NEW c \in Case, NEW t, t = _controlled_non_answer(r, c)
  PROVE  /\ t \in Counters
         /\ t.answered = r.answered /\ t.hits = r.hits /\ t.reciprocal = r.reciprocal
         /\ t.latencies = r.latencies
         /\ c.refusal => t.correct = r.correct + 1 /\ t.technical = r.technical
         /\ ~c.refusal => t.correct = r.correct /\ t.technical = r.technical + 1
<1>1. CASE c.refusal
  <2>1. t = [r EXCEPT !.correct = @ + 1]
    BY <1>1 DEF _controlled_non_answer
  <2> QED
    BY <1>1, <2>1 DEF Counters
<1>2. CASE ~c.refusal
  <2>1. t = [r EXCEPT !.technical = @ + 1]
    BY <1>2 DEF _controlled_non_answer
  <2> QED
    BY <1>2, <2>1 DEF Counters
<1> QED
  BY <1>1, <1>2

\* A hit at a rank within n is worth between 1/n and 1.
LEMMA CreditIs ==
  ASSUME NEW r \in Counters, NEW n \in Nat, n <= 6, NEW ranks \in SUBSET (1 .. n),
         NEW t, t = Credit(r, ranks)
  PROVE  /\ t \in Counters
         /\ t.answered = r.answered /\ t.technical = r.technical /\ t.correct = r.correct
         /\ t.latencies = r.latencies
         /\ t.hits = r.hits + Hits(ranks) /\ t.reciprocal = r.reciprocal + Worth(ranks)
         /\ Worth(ranks) \in Nat /\ Worth(ranks) <= Hits(ranks) * 60
         /\ n # 0 => Hits(ranks) * (60 \div n) <= Worth(ranks)
<1>1. CASE ranks = {}
  BY <1>1 DEF Credit, Hits, Worth, Counters
<1>2. CASE ranks # {}
  <2> DEFINE m == Min(ranks)
             v == 60 \div m
  <2>1. m \in 1 .. n
    <3>1. IsFiniteSet(1 .. n)
      BY FS_Interval
    <3>2. IsFiniteSet(ranks)
      BY <3>1, FS_Subset
    <3>3. ranks \in SUBSET Int
      OBVIOUS
    <3> QED
      BY <1>2, <3>2, <3>3, MinIs
  <2>2. v \in Nat /\ v <= 60 /\ (n # 0 => 60 \div n <= v)
    <3> HIDE DEF m
    <3>3. m \in Nat \ {0} /\ n \in Nat \ {0} /\ m <= n /\ 1 <= m
      BY <2>1
    <3>1. v \in Nat /\ 60 \div n <= v /\ n # 0
      BY <3>3, SharesFall
    <3>2. 60 \div 1 = 60 /\ v <= 60 \div 1
      BY <2>1, SharesFall
    <3> QED
      BY <3>1, <3>2
  <2>3. Hits(ranks) = 1 /\ Worth(ranks) = v
    BY <1>2 DEF Hits, Worth
  <2>4. t = [r EXCEPT !.hits = @ + 1, !.reciprocal = @ + v]
    BY <1>2 DEF Credit
  <2> HIDE DEF v, m
  <2>5. /\ t \in Counters /\ t.hits = r.hits + 1 /\ t.reciprocal = r.reciprocal + v
        /\ t.answered = r.answered /\ t.technical = r.technical /\ t.correct = r.correct
        /\ t.latencies = r.latencies
    <3> DEFINE u == [r EXCEPT !.hits = @ + 1]
    <3>1. /\ u \in Counters /\ u.hits = r.hits + 1 /\ u.reciprocal = r.reciprocal
          /\ u.answered = r.answered /\ u.technical = r.technical /\ u.correct = r.correct
          /\ u.latencies = r.latencies
      BY DEF Counters
    <3> DEFINE sum == u.reciprocal + v
    <3>2. t = [u EXCEPT !.reciprocal = sum]
      BY <2>4 DEF Counters
    <3>3. sum \in Nat
      BY <2>2, <3>1, SMTT(30) DEF Counters
    <3> HIDE DEF u
    <3>4. sum = r.reciprocal + v
      BY <3>1
    <3> HIDE DEF sum
    <3>5. t \in Counters /\ t.reciprocal = sum
      BY <3>1, <3>2, <3>3 DEF Counters
    <3> QED
      BY <3>1, <3>2, <3>4, <3>5 DEF Counters
  <2>6. v <= 1 * 60 /\ (n # 0 => 1 * (60 \div n) <= v)
    BY <2>2
  <2> QED
    BY <2>2, <2>3, <2>5, <2>6
<1> QED
  BY <1>1, <1>2

\* The ranks of the hits among the first k are at most k.
LEMMA RanksAre ==
  ASSUME NEW c \in Case, NEW e \in Given, NEW ids, ids = First(e.response.evidence, TOP)
  PROVE  /\ HitRanks(c, ids) \in SUBSET (1 .. TOP) /\ TOP \in 1 .. 6
         /\ ids \in Seq(ChunkIds) /\ Len(ids) <= Len(e.response.evidence)
         /\ \A i \in 1 .. Len(ids) : ids[i] = e.response.evidence[i]
         /\ ids = <<>> <=> e.response.evidence = <<>>
<1>1. TOP \in 1 .. 6
  BY EvaluationOK
<1>2. e.response.evidence \in Seq(ChunkIds)
  BY DEF Given
<1>3. /\ ids \in Seq(ChunkIds) /\ Len(ids) <= TOP /\ Len(ids) <= Len(e.response.evidence)
      /\ Len(ids) = TOP \/ Len(ids) = Len(e.response.evidence)
      /\ \A i \in 1 .. Len(ids) : ids[i] = e.response.evidence[i]
  BY <1>1, <1>2, FirstIs
<1>4. DOMAIN ids = 1 .. Len(ids) /\ Len(ids) \in Nat
  BY <1>3
<1>5. HitRanks(c, ids) \in SUBSET (1 .. TOP)
  BY <1>1, <1>3, <1>4 DEF HitRanks
<1>6. ids = <<>> <=> e.response.evidence = <<>>
  BY <1>1, <1>2, <1>3
<1> QED
  BY <1>1, <1>3, <1>5, <1>6

LEMMA AnsweredIs ==
  ASSUME NEW r \in Counters, NEW t, t = [r EXCEPT !.answered = @ + 1]
  PROVE  /\ t \in Counters /\ t.answered = r.answered + 1
         /\ t.technical = r.technical /\ t.correct = r.correct
         /\ t.hits = r.hits /\ t.reciprocal = r.reciprocal /\ t.latencies = r.latencies
BY DEF Counters

\* What one case does to the counters of either evaluator.
LEMMA JudgeIs ==
  ASSUME NEW r \in Counters, NEW c \in Case, NEW e \in Given, NEW who, NEW t, t = Judge(who, r, c, e),
         NEW ranks, ranks = HitRanks(c, First(e.response.evidence, TOP))
  PROVE  /\ t \in Counters
         /\ t.latencies = IF e.clock = "works" THEN Append(r.latencies, e.elapsed) ELSE r.latencies
         /\ c.refusal => /\ t.correct \in {r.correct, r.correct + 1}
                         /\ t.answered = r.answered /\ t.technical = r.technical
                         /\ t.hits = r.hits /\ t.reciprocal = r.reciprocal
         /\ ~c.refusal =>
               /\ t.correct = r.correct
               /\ \/ /\ t.technical = r.technical + 1 /\ t.answered = r.answered
                     /\ t.hits = r.hits /\ t.reciprocal = r.reciprocal
                  \/ /\ t.technical = r.technical
                     /\ who = "registered" => t.answered = r.answered + 1
                     /\ t.hits = r.hits + Hits(ranks) /\ t.reciprocal = r.reciprocal + Worth(ranks)
<1> DEFINE timed == Timed(r, e)
<1>1. /\ timed \in Counters
      /\ timed.answered = r.answered /\ timed.technical = r.technical /\ timed.correct = r.correct
      /\ timed.hits = r.hits /\ timed.reciprocal = r.reciprocal
      /\ timed.latencies = IF e.clock = "works" THEN Append(r.latencies, e.elapsed) ELSE r.latencies
  BY TimedIs
<1>2. ranks \in SUBSET (1 .. TOP) /\ TOP \in Nat /\ TOP <= 6
  BY RanksAre
<1>3. /\ r.answered \in Nat /\ r.technical \in Nat /\ r.correct \in Nat /\ r.hits \in Nat
      /\ r.reciprocal \in Nat /\ c.refusal \in BOOLEAN
  BY DEF Counters, Case
<1> HIDE DEF timed
<1>4. CASE who = "registered"
  <2>1. t = evaluate_retriever(r, c, e)
    BY <1>4 DEF Judge
  <2>2. CASE e.clock # "works"
    <3>1. t = _controlled_non_answer(r, c)
      BY <2>1, <2>2 DEF evaluate_retriever
    <3> QED
      BY <1>3, <2>2, <3>1, NonAnswerIs
  <2>3. CASE e.clock = "works" /\ Unusable(e.response)
    <3>1. t = _controlled_non_answer(timed, c)
      BY <2>1, <2>3 DEF evaluate_retriever, timed
    <3> QED
      BY <1>1, <1>3, <2>3, <3>1, NonAnswerIs
  <2>4. CASE e.clock = "works" /\ ~Unusable(e.response) /\ c.refusal
    <3>1. t = timed
      BY <2>1, <2>4 DEF evaluate_retriever, timed
    <3> QED
      BY <1>1, <1>3, <2>4, <3>1
  <2>5. CASE e.clock = "works" /\ ~Unusable(e.response) /\ ~c.refusal
    <3> DEFINE more == [timed EXCEPT !.answered = @ + 1]
    <3>1. t = Credit(more, ranks)
      BY <2>1, <2>5 DEF evaluate_retriever, timed
    <3>2. /\ more \in Counters /\ more.answered = r.answered + 1
          /\ more.technical = r.technical /\ more.correct = r.correct
          /\ more.hits = r.hits /\ more.reciprocal = r.reciprocal /\ more.latencies = timed.latencies
      BY <1>1, AnsweredIs
    <3> HIDE DEF more
    <3>3. /\ t \in Counters
          /\ t.answered = more.answered /\ t.technical = more.technical /\ t.correct = more.correct
          /\ t.latencies = more.latencies
          /\ t.hits = more.hits + Hits(ranks) /\ t.reciprocal = more.reciprocal + Worth(ranks)
      BY <1>2, <3>1, <3>2, CreditIs
    <3> QED
      BY <1>1, <2>5, <3>2, <3>3
  <2> QED
    BY <1>3, <2>2, <2>3, <2>4, <2>5
<1>5. CASE who # "registered"
  <2> DEFINE x == e.response
  <2>1. t = _evaluate_variant(r, c, e)
    BY <1>5 DEF Judge
  <2>2. CASE x.status = "refused"
    <3>1. t = _controlled_non_answer(timed, c)
      BY <2>1, <2>2 DEF _evaluate_variant, timed
    <3> QED
      BY <1>1, <1>3, <2>2, <3>1, NonAnswerIs
  <2>3. CASE x.status # "refused" /\ c.refusal
    <3>1. t = timed
      BY <2>1, <2>3 DEF _evaluate_variant, timed
    <3> QED
      BY <1>1, <1>3, <2>3, <3>1
  <2>4. CASE x.status # "refused" /\ ~c.refusal /\ (x.status = "failed" \/ InvalidIds(x))
    <3>1. t = _controlled_non_answer(timed, c)
      BY <2>1, <2>4 DEF _evaluate_variant, timed
    <3> QED
      BY <1>1, <1>3, <2>4, <3>1, NonAnswerIs
  <2>5. CASE x.status # "refused" /\ ~c.refusal /\ ~(x.status = "failed" \/ InvalidIds(x))
    <3>1. t = Credit(timed, ranks)
      BY <2>1, <2>5 DEF _evaluate_variant, timed, _validated_result_ids
    <3> QED
      BY <1>1, <1>2, <1>3, <1>5, <2>5, <3>1, CreditIs
  <2> QED
    BY <1>3, <2>2, <2>3, <2>4, <2>5
<1> QED
  BY <1>4, <1>5

SameFigures(r, s) ==
    /\ r.hits = s.hits /\ r.reciprocal = s.reciprocal
    /\ r.technical = s.technical /\ r.correct = s.correct

\* A response of the retriever that the evaluators judge alike.
Sound(x) == /\ x.status = "answered" => /\ IsInjective(x.fused) /\ IsInjective(x.evidence)
                                        /\ ToSet(x.evidence) \subseteq ToSet(x.fused)

LEMMA JudgedAlike ==
  ASSUME NEW r \in Counters, NEW s \in Counters, SameFigures(r, s),
         NEW c \in Case, NEW e \in Given, e.clock = "works", Sound(e.response),
         c.refusal <=> e.response.status = "refused",
         NEW t, t = evaluate_retriever(r, c, e), NEW u, u = _evaluate_variant(s, c, e)
  PROVE  SameFigures(t, u)
<1> DEFINE x == e.response
           ids == First(x.evidence, TOP)
           ranks == HitRanks(c, ids)
           timed1 == Timed(r, e)
           timed2 == Timed(s, e)
<1>1. timed1 \in Counters /\ timed2 \in Counters /\ SameFigures(timed1, timed2)
  BY TimedIs DEF SameFigures
<1>2. /\ ranks \in SUBSET (1 .. TOP) /\ TOP \in Nat /\ TOP <= 6
      /\ ids \in Seq(ChunkIds) /\ Len(ids) <= Len(x.evidence)
      /\ \A i \in 1 .. Len(ids) : ids[i] = x.evidence[i]
      /\ ids = <<>> <=> x.evidence = <<>>
  BY RanksAre
<1>3. x.status \in {"answered", "failed", "refused"} /\ x.evidence \in Seq(ChunkIds) /\ c.refusal \in BOOLEAN
  BY DEF Given, Case
<1> HIDE DEF timed1, timed2, ranks
<1>4. CASE x.status = "refused" \/ x.status = "failed"
  <2>1. t = _controlled_non_answer(timed1, c)
    BY <1>4 DEF evaluate_retriever, Unusable, timed1
  <2>2. u = _controlled_non_answer(timed2, c)
    BY <1>3, <1>4 DEF _evaluate_variant, timed2
  <2> QED
    BY <1>1, <1>3, <2>1, <2>2, NonAnswerIs DEF SameFigures
<1>5. CASE x.status = "answered"
  <2>1. ~c.refusal
    BY <1>5
  <2>2. IsInjective(x.fused) /\ IsInjective(x.evidence) /\ ToSet(x.evidence) \subseteq ToSet(x.fused)
    BY <1>5 DEF Sound
  <2> HIDE DEF ids
  <2>3. IsInjective(ids) /\ ToSet(ids) \subseteq ToSet(x.evidence)
    <3>1. /\ DOMAIN ids = 1 .. Len(ids) /\ DOMAIN x.evidence = 1 .. Len(x.evidence)
          /\ Len(ids) \in Nat /\ Len(x.evidence) \in Nat
      BY <1>2, <1>3
    <3>2. \A i \in 1 .. Len(ids) : i \in 1 .. Len(x.evidence)
      BY <1>2, <3>1
    <3> QED
      BY <1>2, <2>2, <3>1, <3>2 DEF IsInjective, ToSet
  <2>4. Unusable(x) <=> x.evidence = <<>>
    BY <1>5, <2>2 DEF Unusable
  <2>5. InvalidIds(x) <=> ids = <<>>
    BY <2>2, <2>3 DEF InvalidIds, _validated_result_ids, ids
  <2>6. CASE x.evidence = <<>>
    <3>1. t = _controlled_non_answer(timed1, c)
      BY <2>4, <2>6 DEF evaluate_retriever, timed1
    <3>2. u = _controlled_non_answer(timed2, c)
      BY <1>2, <1>5, <2>1, <2>5, <2>6 DEF _evaluate_variant, timed2
    <3> QED
      BY <1>1, <2>1, <3>1, <3>2, NonAnswerIs DEF SameFigures
  <2>7. CASE x.evidence # <<>>
    <3> DEFINE more == [timed1 EXCEPT !.answered = @ + 1]
    <3>1. t = Credit(more, ranks)
      BY <2>1, <2>4, <2>7 DEF evaluate_retriever, timed1, ranks, ids
    <3>2. u = Credit(timed2, ranks)
      BY <1>2, <1>5, <2>1, <2>5, <2>7 DEF _evaluate_variant, timed2, _validated_result_ids, ranks, ids
    <3>3. more \in Counters /\ SameFigures(more, timed2)
      BY <1>1, AnsweredIs DEF SameFigures
    <3> HIDE DEF more
    <3>0. ranks \in SUBSET (1 .. TOP) /\ TOP \in Nat /\ TOP <= 6
      BY <1>2
    <3>4. /\ t.technical = more.technical /\ t.correct = more.correct
          /\ t.hits = more.hits + Hits(ranks) /\ t.reciprocal = more.reciprocal + Worth(ranks)
      BY <3>0, <3>1, <3>3, CreditIs
    <3>5. /\ u.technical = timed2.technical /\ u.correct = timed2.correct
          /\ u.hits = timed2.hits + Hits(ranks) /\ u.reciprocal = timed2.reciprocal + Worth(ranks)
      BY <1>1, <3>0, <3>2, CreditIs
    <3> QED
      BY <3>3, <3>4, <3>5 DEF SameFigures
  <2> QED
    BY <2>6, <2>7
<1> QED
  BY <1>3, <1>4, <1>5

-----------------------------------------------------------------------------
(* Two evaluators, one story *)

Counted ==
    /\ Loaded /\ report \in Counters /\ second \in Counters
    /\ trail = <<>> => report = Zero /\ second = Zero
    /\ client \in {"mcp", "registered", "demo"}

\* Every step leaves the trail and the counters alone, except that of a case;
\* a suite is only loaded before the first case.
LEMMA CountedStep ==
  ASSUME Counted, [Next]_vars
  PROVE  /\ Counted'
         /\ \/ UNCHANGED <<client, suite, trail, report, second>>
            \/ /\ trail = <<>> /\ suite = <<>> /\ \E s \in Datasets : Load(s)
               /\ UNCHANGED <<client, trail, report, second>>
            \/ /\ \E w \in CaseWorlds, reading \in Readings : Evaluate(w, reading)
               /\ UNCHANGED <<client, suite>>
<1>1. Loaded'
  BY LoadedStep DEF Counted
<1>2. CASE UNCHANGED vars
  BY <1>1, <1>2 DEF vars, Counted
<1>3. CASE \E q \in Queries, w \in Worlds, limit \in 1 .. ANSWER_LIMIT : Serve(q, w, limit)
  BY <1>1, <1>3 DEF Serve, Counted
<1>4. CASE Return
  BY <1>1, <1>4 DEF Return, Counted
<1>5. ASSUME NEW s \in Datasets, Load(s)
      PROVE  Counted' /\ trail = <<>> /\ suite = <<>> /\ UNCHANGED <<client, trail, report, second>>
  <2>1. suite = <<>> /\ UNCHANGED <<client, trail, report, second>>
    BY <1>5 DEF Load
  <2>2. trail \in Seq(Given) /\ Len(trail) <= 0
    BY <2>1 DEF Counted, Loaded
  <2>3. trail = <<>>
    BY <2>2
  <2> QED
    BY <1>1, <2>1, <2>3 DEF Counted
<1>6. ASSUME NEW w \in CaseWorlds, NEW reading \in Readings, Evaluate(w, reading)
      PROVE  Counted' /\ UNCHANGED <<client, suite>>
  <2>1. PICK c \in Case, e \in Given :
           /\ trail' = Append(trail, e)
           /\ report' = Judge(client, report, c, e)
           /\ second' = Judge(Other(client), second, c, e)
    BY <1>6, EvaluateIs DEF Counted
  <2>2. report' \in Counters /\ second' \in Counters
    BY <2>1, JudgeIs DEF Counted
  <2>3. trail' # <<>>
    <3>1. trail \in Seq(Given)
      BY DEF Counted, Loaded
    <3> QED
      BY <2>1, <3>1
  <2>4. UNCHANGED <<client, suite>>
    BY <1>6 DEF Evaluate
  <2> QED
    BY <1>1, <2>2, <2>3, <2>4 DEF Counted
<1> QED
  BY <1>2, <1>3, <1>4, <1>5, <1>6 DEF Next, vars

LEMMA CountedInitially == Init => Counted
<1>1. Zero \in Counters
  BY DEF Zero, Counters
<1> QED
  BY <1>1 DEF Init, Counted, Loaded

Agreed == Measured = DOMAIN trail /\ _parse_dataset(suite) => SameFigures(second, report)

\* Both evaluators report the same hits, ranks, refusals and failures for a
\* suite that both loaders accept, whatever the providers do
\* (evaluate_retriever in rag/evaluation.py, _evaluate_variant in
\* rag/demo_evaluation.py).
THEOREM EvaluatorsReportTheSame == Spec => []EvaluatorsAgree
<1>1. Init => Counted /\ Agreed
  BY CountedInitially DEF Init, Agreed, SameFigures
<1>2. Counted /\ Agreed /\ [Next]_vars => Counted' /\ Agreed'
  <2> SUFFICES ASSUME Counted, Agreed, [Next]_vars PROVE Counted' /\ Agreed'
    OBVIOUS
  <2>1. Counted'
    BY CountedStep
  <2>2. CASE UNCHANGED <<client, suite, trail, report, second>>
    <3>1. Agreed'
      BY <2>2 DEF Agreed, Measured, SameFigures
    <3> QED
      BY <2>1, <3>1
  <2>3. CASE trail = <<>> /\ UNCHANGED <<client, trail, report, second>>
    <3>1. report' = Zero /\ second' = Zero
      BY <2>3 DEF Counted
    <3> QED
      BY <2>1, <3>1 DEF Agreed, SameFigures
  <2>4. ASSUME NEW w \in CaseWorlds, NEW reading \in Readings, Evaluate(w, reading),
               UNCHANGED <<client, suite>>
        PROVE  Agreed'
    <3> SUFFICES ASSUME Measured' = DOMAIN trail', _parse_dataset(suite)
                 PROVE  SameFigures(second, report)'
      BY <2>4 DEF Agreed
    <3>1. PICK c \in Case, x \in Response, e \in Given :
             /\ Len(trail) + 1 \in 1 .. Len(suite) /\ c = suite[Len(trail) + 1]
             /\ x = IF client = "demo" \/ reading.clock # "no_start"
                    THEN retrieve(variant, cache, c.query, w, ANSWER_LIMIT) ELSE Failed
             /\ e = [response |-> Seen(x), clock |-> reading.clock, elapsed |-> reading.elapsed]
             /\ trail' = Append(trail, e)
             /\ report' = Judge(client, report, c, e)
             /\ second' = Judge(Other(client), second, c, e)
      BY <2>4, EvaluateIs DEF Counted
    <3>2. trail \in Seq(Given) /\ Len(trail) \in Nat /\ suite \in Seq(Case)
      BY DEF Counted, Loaded
    <3>3. \A i \in 1 .. Len(trail) + 1 : trail'[i].clock = "works"
      <4>1. DOMAIN trail' = 1 .. Len(trail) + 1
        BY <3>1, <3>2
      <4> QED
        BY <4>1 DEF Measured
    <3>4. Measured = DOMAIN trail
      <4>1. \A i \in 1 .. Len(trail) : trail[i].clock = "works"
        BY <3>1, <3>2, <3>3
      <4>2. DOMAIN trail = 1 .. Len(trail)
        BY <3>2
      <4> QED
        BY <4>1, <4>2 DEF Measured
    <3>5. e.clock = "works" /\ reading.clock = "works"
      <4>1. trail'[Len(trail) + 1] = e
        BY <3>1, <3>2
      <4> QED
        BY <3>1, <3>2, <3>3, <4>1
    <3>6. SameFigures(second, report)
      BY <3>4 DEF Agreed
    <3>7. x = retrieve(variant, cache, c.query, w, ANSWER_LIMIT)
      BY <3>1, <3>5
    <3>8. w \in World /\ ANSWER_LIMIT \in Nat /\ w.dense \in Seq(Chunk) /\ DistinctIds(w.dense)
      <4>1. w \in World /\ ANSWER_LIMIT \in Nat /\ IsInjective(IdsInOrder(w.dense))
        BY EvaluationOK
      <4>2. w.dense \in Seq(Chunk)
        BY <4>1 DEF World
      <4> QED
        BY <4>1, <4>2, IdsInOrderIs
    <3>9. c.refusal <=> x.status = "refused"
      <4>1. c.refusal <=> ~is_public_demo_query_allowed(c.query)
        <5>1. Len(trail) + 1 \in DOMAIN suite
          BY <3>1, <3>2
        <5> QED
          BY <3>1, <5>1 DEF _parse_dataset, _parse_case
      <4> QED
        BY <3>7, <3>8, <4>1, RetrieveIs
    <3>10. e.response.status = x.status /\ Sound(e.response)
      <4>1. /\ e.response.status = x.status /\ e.response.fused = x.fused
            /\ e.response.evidence = IdsInOrder(x.evidence)
        BY <3>1 DEF Seen
      <4>2. CASE x.status = "answered"
        <5>1. IsInjective(x.fused) /\ DistinctIds(x.evidence) /\ Ids(x.evidence) \subseteq ToSet(x.fused)
          BY <3>7, <3>8, <4>2, RetrieveIs
        <5>2. x.evidence \in Seq(Chunk)
          BY DEF Response
        <5>3. /\ ToSet(IdsInOrder(x.evidence)) = Ids(x.evidence)
              /\ IsInjective(IdsInOrder(x.evidence)) <=> DistinctIds(x.evidence)
          BY <5>2, IdsInOrderIs
        <5> QED
          BY <4>1, <5>1, <5>3 DEF Sound
      <4>3. CASE x.status # "answered"
        BY <4>1, <4>3 DEF Sound
      <4> QED
        BY <4>1, <4>2, <4>3
    <3>11. SameFigures(report, second) /\ report \in Counters /\ second \in Counters
      BY <3>6 DEF SameFigures, Counted
    <3>12. CASE client = "registered"
      <4>1. report' = evaluate_retriever(report, c, e) /\ second' = _evaluate_variant(second, c, e)
        BY <3>1, <3>12 DEF Judge, Other
      <4>2. SameFigures(report', second')
        BY <3>5, <3>9, <3>10, <3>11, <4>1, JudgedAlike
      <4> QED
        BY <4>2 DEF SameFigures
    <3>13. CASE client # "registered"
      <4>1. report' = _evaluate_variant(report, c, e) /\ second' = evaluate_retriever(second, c, e)
        BY <3>1, <3>13 DEF Judge, Other
      <4>2. SameFigures(second', report')
        BY <3>5, <3>6, <3>9, <3>10, <3>11, <4>1, JudgedAlike
      <4> QED
        BY <4>2 DEF SameFigures
    <3> QED
      BY <3>12, <3>13
  <2> QED
    BY <2>1, <2>2, <2>3, <2>4, CountedStep
<1>3. Agreed => EvaluatorsAgree
  BY DEF Agreed, EvaluatorsAgree, SameFigures
<1> QED
  BY <1>1, <1>2, <1>3, PTL DEF Spec

-----------------------------------------------------------------------------
(* The report *)

LEMMA IntervalIs ==
  ASSUME NEW n \in Nat
  PROVE  IsFiniteSet(1 .. n) /\ Cardinality(1 .. n) = n
BY FS_Interval

\* As many elements as the positions that list them.
Listed(f, n) == { f[i] : i \in 1 .. n }

LEMMA CountedBy ==
  ASSUME NEW S, NEW n \in Nat, NEW f \in [1 .. n -> S],
         \A i, j \in 1 .. n : f[i] = f[j] => i = j
  PROVE  /\ IsFiniteSet(Listed(f, n)) /\ Cardinality(Listed(f, n)) = n
<1> DEFINE T == Listed(f, n)
<1>1. f \in Surjection(1 .. n, T)
  BY DEF Surjection, Listed
<1>2. f \in Injection(1 .. n, T)
  BY DEF Injection, IsInjective, Listed
<1>3. IsFiniteSet(1 .. n) /\ Cardinality(1 .. n) = n
  BY FS_Interval
<1> QED
  BY <1>1, <1>2, <1>3, FS_Surjection

\* Along an order that never falls, the first rank values are at most the last
\* of them, and only the ones before it are below it.
Rises(lat, order, n) ==
    \A k, m \in 1 .. n : k < m => lat[order[k]] <= lat[order[m]] /\ order[k] # order[m]

Onto(order, n) == \A i \in 1 .. n : \E k \in 1 .. n : order[k] = i

LEMMA CountsInOrder ==
  ASSUME NEW n \in Nat, NEW lat \in [1 .. n -> Nat], NEW order \in [1 .. n -> 1 .. n],
         Rises(lat, order, n), Onto(order, n),
         NEW rank \in 1 .. n, NEW p, p = lat[order[rank]]
  PROVE  LET most == { k \in 1 .. n : lat[k] <= p }
             less == { k \in 1 .. n : lat[k] < p }
         IN  /\ Cardinality(most) \in Nat /\ Cardinality(most) >= rank
             /\ Cardinality(less) \in Nat /\ Cardinality(less) <= rank - 1
<1> DEFINE most == { k \in 1 .. n : lat[k] <= p }
           less == { k \in 1 .. n : lat[k] < p }
           f == [k \in 1 .. rank |-> order[k]]
           g == [k \in 1 .. rank - 1 |-> order[k]]
<1>1. ASSUME NEW k \in 1 .. n, NEW m \in 1 .. n, order[k] = order[m] PROVE k = m
  <2>1. ~(k < m) /\ ~(m < k)
    BY <1>1 DEF Rises
  <2> QED
    BY <2>1
<1>2. /\ rank \in Nat /\ f \in [1 .. rank -> 1 .. n]
      /\ \A i, j \in 1 .. rank : f[i] = f[j] => i = j
  <2>1. rank \in Nat /\ \A k \in 1 .. rank : k \in 1 .. n
    OBVIOUS
  <2>2. \A k \in 1 .. rank : f[k] = order[k] /\ order[k] \in 1 .. n
    BY <2>1
  <2>3. f \in [1 .. rank -> 1 .. n]
    BY <2>2
  <2>4. ASSUME NEW i \in 1 .. rank, NEW j \in 1 .. rank, f[i] = f[j] PROVE i = j
    <3>1. order[i] = order[j]
      BY <2>2, <2>4
    <3>2. i \in 1 .. n /\ j \in 1 .. n
      BY <2>1
    <3> QED
      BY <1>1, <3>1, <3>2
  <2> QED
    BY <2>1, <2>3, <2>4
<1>3. /\ rank - 1 \in Nat /\ g \in [1 .. rank - 1 -> 1 .. n]
      /\ \A i, j \in 1 .. rank - 1 : g[i] = g[j] => i = j
  <2>1. rank - 1 \in Nat /\ \A k \in 1 .. rank - 1 : k \in 1 .. n
    OBVIOUS
  <2>2. \A k \in 1 .. rank - 1 : g[k] = order[k] /\ order[k] \in 1 .. n
    BY <2>1
  <2>3. g \in [1 .. rank - 1 -> 1 .. n]
    BY <2>2
  <2>4. ASSUME NEW i \in 1 .. rank - 1, NEW j \in 1 .. rank - 1, g[i] = g[j] PROVE i = j
    <3>1. order[i] = order[j]
      BY <2>2, <2>4
    <3>2. i \in 1 .. n /\ j \in 1 .. n
      BY <2>1
    <3> QED
      BY <1>1, <3>1, <3>2
  <2> QED
    BY <2>1, <2>3, <2>4
<1>4. /\ IsFiniteSet(most) /\ Cardinality(most) \in Nat
      /\ IsFiniteSet(less) /\ Cardinality(less) \in Nat
  <2>1. IsFiniteSet(1 .. n)
    BY FS_Interval
  <2>2. most \in SUBSET (1 .. n) /\ less \in SUBSET (1 .. n)
    OBVIOUS
  <2>3. IsFiniteSet(most) /\ IsFiniteSet(less)
    BY <2>1, <2>2, FS_Subset
  <2> QED
    BY <2>3, FS_CardinalityType
<1>5. Listed(f, rank) \subseteq most
  <2> SUFFICES ASSUME NEW k \in 1 .. rank PROVE order[k] \in most
    BY DEF Listed
  <2>0. rank \in Nat /\ \A i \in 1 .. rank : i \in 1 .. n /\ (i = rank \/ i < rank)
    <3> HIDE DEF most
    <3> QED
      OBVIOUS
  <2>1. k \in 1 .. n /\ (k = rank \/ k < rank)
    BY <2>0
  <2>2. order[k] \in 1 .. n /\ lat[order[k]] \in Nat
    BY <2>1
  <2>3. lat[order[k]] <= lat[order[rank]]
    <3>1. CASE k = rank
      BY <2>2, <3>1
    <3>2. CASE k < rank
      BY <2>1, <3>2 DEF Rises
    <3> QED
      BY <2>1, <3>1, <3>2
  <2> QED
    BY <2>2, <2>3
<1>6. less \subseteq Listed(g, rank - 1)
  <2> SUFFICES ASSUME NEW i \in 1 .. n, lat[i] < p PROVE i \in Listed(g, rank - 1)
    OBVIOUS
  <2>1. PICK k \in 1 .. n : order[k] = i
    BY DEF Onto
  <2>2. lat[order[k]] < lat[order[rank]] /\ lat[order[rank]] \in Nat /\ lat[order[k]] \in Nat
    BY <2>1
  <2>3. ~(rank < k)
    <3> SUFFICES ASSUME rank < k PROVE FALSE
      OBVIOUS
    <3>1. lat[order[rank]] <= lat[order[k]]
      BY DEF Rises
    <3> QED
      BY <2>2, <3>1
  <2>4. k # rank
    BY <2>2
  <2>5. k \in 1 .. rank - 1 /\ g[k] = i
    BY <2>1, <2>3, <2>4
  <2> HIDE DEF g
  <2> QED
    BY <2>5 DEF Listed
<1> HIDE DEF f, g
<1>7. Cardinality(Listed(f, rank)) = rank
  BY <1>2, CountedBy
<1>8. IsFiniteSet(Listed(g, rank - 1)) /\ Cardinality(Listed(g, rank - 1)) = rank - 1
  BY <1>3, CountedBy
<1> HIDE DEF most, less
<1>9. Cardinality(most) >= rank /\ Cardinality(less) <= rank - 1
  <2>1. Cardinality(Listed(f, rank)) <= Cardinality(most)
    BY <1>4, <1>5, FS_Subset
  <2>2. Cardinality(less) <= Cardinality(Listed(g, rank - 1))
    BY <1>6, <1>8, FS_Subset
  <2> QED
    BY <1>7, <1>8, <2>1, <2>2
<1> QED
  BY <1>4, <1>9 DEF most, less

\* Rounding up by adding 99.
LEMMA NearestRank ==
  ASSUME NEW n \in Nat \ {0}, NEW share \in 1 .. 100, NEW rank, rank = (share * n + 99) \div 100
  PROVE  /\ rank \in 1 .. n /\ 100 * rank >= share * n /\ 100 * (rank - 1) < share * n
<1> DEFINE p == share * n
<1>1. p \in Nat /\ p >= 1 /\ p <= 100 * n
  <2>1. share * n >= 1 * n /\ share * n <= 100 * n /\ share * n \in Nat
    OBVIOUS
  <2> QED
    BY <2>1
<1>2. rank = (p + 99) \div 100
  OBVIOUS
<1> HIDE DEF p
<1>3. rank \in Nat /\ 100 * rank <= p + 99 /\ p + 99 < 100 * rank + 100
  BY <1>1, <1>2
<1> QED
  BY <1>1, <1>3 DEF p

UpTo(lat, n, x) == { k \in 1 .. n : lat[k] <= x }
Under(lat, n, x) == { k \in 1 .. n : lat[k] < x }

\* The percentile is the nearest rank: it is one of the values, enough values
\* are at most it, and too few are below it.
LEMMA PercentileIs ==
  ASSUME NEW lat \in Seq(Nat), lat # <<>>, NEW n, n = Len(lat), NEW p, p = Percentile(lat)
  PROVE  /\ \E k \in 1 .. n : p = lat[k]
         /\ 100 * Cardinality(UpTo(lat, n, p)) >= PERCENT * n
         /\ 100 * Cardinality(Under(lat, n, p)) < PERCENT * n
<1> DEFINE at == 1 .. n
           score == [k \in at |-> -lat[k]]
           order == Sorted(at, Descending(at, score))
           rank == (PERCENT * n + 99) \div 100
           most == { k \in at : lat[k] <= p }
           less == { k \in at : lat[k] < p }
<1>1. n \in Nat \ {0} /\ DOMAIN lat = 1 .. n /\ \A k \in 1 .. n : lat[k] \in Nat
  OBVIOUS
<1>2. p = lat[order[rank]]
  BY <1>1 DEF Percentile
<1>3. PERCENT \in 1 .. 100
  BY EvaluationOK
<1>4. rank \in 1 .. n /\ 100 * rank >= PERCENT * n /\ 100 * (rank - 1) < PERCENT * n
  BY <1>1, <1>3, NearestRank
<1>5. IsFiniteSet(at) /\ Cardinality(at) = n
  BY <1>1, IntervalIs
<1>6. \A k \in at : score[k] \in Int /\ score[k] = -lat[k]
  BY <1>1
<1> HIDE DEF rank, score
<1>7. StrictOrder(at, Descending(at, score))
  BY <1>1, <1>6, DescendingOrders
<1>8. /\ order \in Seq(at) /\ Len(order) = n
      /\ \A k, m \in at : k < m => <<order[k], order[m]>> \in Descending(at, score)
      /\ \A i \in at : \E k \in at : order[k] = i
  <2> DEFINE m0 == Cardinality(at)
  <2>1. /\ order \in Seq(at) /\ Len(order) = m0
        /\ \A k, m \in 1 .. m0 : k < m => <<order[k], order[m]>> \in Descending(at, score)
        /\ \A i \in at : \E k \in 1 .. m0 : order[k] = i
    <3> HIDE DEF at
    <3> QED
      BY <1>5, <1>7, SortedLists
  <2>2. m0 = n
    BY <1>5
  <2> HIDE DEF order, m0
  <2> QED
    BY <2>1, <2>2
<1> HIDE DEF order
<1>9. DOMAIN order = at /\ order \in [at -> at] /\ \A k \in at : order[k] \in at
  <2>1. order \in Seq(at) /\ Len(order) = n
    BY <1>8
  <2>2. DOMAIN order = 1 .. n
    BY <1>1, <2>1
  <2>3. \A k \in DOMAIN order : order[k] \in at
    <3> HIDE DEF at
    <3> QED
      BY <2>1
  <2>4. order \in [DOMAIN order -> at]
    <3> HIDE DEF at
    <3> QED
      BY <2>1, <2>3
  <2> QED
    BY <2>2, <2>3, <2>4
<1>10. ASSUME NEW k \in at, NEW m \in at, k < m
       PROVE  lat[order[k]] <= lat[order[m]] /\ order[k] # order[m]
  <2> DEFINE a == order[k]
             b == order[m]
  <2>1. <<a, b>> \in Descending(at, score)
    BY <1>8, <1>10
  <2>2. /\ lat[a] \in Nat /\ lat[b] \in Nat /\ a \in Nat /\ b \in Nat
        /\ score[a] = -lat[a] /\ score[b] = -lat[b]
    <3>1. a \in at /\ b \in at
      BY <1>9
    <3> HIDE DEF a, b
    <3>2. a \in 1 .. n /\ b \in 1 .. n
      BY <3>1
    <3> QED
      BY <1>1, <1>6, <3>1, <3>2
  <2>3. score[a] > score[b] \/ (score[a] = score[b] /\ a < b)
    <3> HIDE DEF a, b, at
    <3> QED
      BY <2>1 DEF Descending
  <2> HIDE DEF a, b
  <2>4. lat[a] <= lat[b] /\ a # b
    <3> HIDE DEF score, at, order
    <3>1. CASE score[a] > score[b]
      BY <2>2, <3>1
    <3>2. CASE score[a] = score[b] /\ a < b
      BY <2>2, <3>2
    <3> QED
      BY <2>3, <3>1, <3>2
  <2> QED
    BY <2>4 DEF a, b
<1>11. p \in Nat /\ \E k \in 1 .. n : p = lat[k]
  BY <1>1, <1>2, <1>4, <1>9
<1>12. lat \in [at -> Nat]
  BY <1>1
<1>13. /\ Cardinality(most) \in Nat /\ Cardinality(most) >= rank
       /\ Cardinality(less) \in Nat /\ Cardinality(less) <= rank - 1
  <2>1. Rises(lat, order, n)
    BY <1>10 DEF Rises
  <2>2. Onto(order, n)
    BY <1>8 DEF Onto
  <2>3. order \in [1 .. n -> 1 .. n] /\ rank \in 1 .. n /\ lat \in [1 .. n -> Nat] /\ n \in Nat
    BY <1>1, <1>4, <1>9, <1>12
  <2> QED
    BY <1>2, <2>1, <2>2, <2>3, CountsInOrder
<1>14. PERCENT * n \in Nat
  BY <1>1, <1>3
<1> HIDE DEF most, less
<1>15. 100 * Cardinality(most) >= 100 * rank /\ 100 * Cardinality(less) <= 100 * (rank - 1)
  BY <1>4, <1>13
<1>16. 100 * Cardinality(most) >= PERCENT * n /\ 100 * Cardinality(less) < PERCENT * n
  BY <1>4, <1>13, <1>14, <1>15
<1> QED
  BY <1>11, <1>16 DEF most, less, UpTo, Under

\* The next case joins the ordinary cases or the refusals, and the measured
\* calls if its clock worked.
LEMMA NextCase ==
  ASSUME Loaded, NEW c \in Case, NEW e \in Given, NEW n, n = Len(trail) + 1,
         n \in 1 .. Len(suite), c = suite[n], trail' = Append(trail, e), suite' = suite
  PROVE  /\ n \notin DOMAIN trail /\ DOMAIN trail' = DOMAIN trail \cup {n}
         /\ trail'[n] = e /\ \A i \in DOMAIN trail : trail'[i] = trail[i]
         /\ Ordinary' = IF c.refusal THEN Ordinary ELSE Ordinary \cup {n}
         /\ Refusals' = IF c.refusal THEN Refusals \cup {n} ELSE Refusals
         /\ Measured' = IF e.clock = "works" THEN Measured \cup {n} ELSE Measured
<1>1. trail \in Seq(Given) /\ Len(trail) \in Nat /\ suite \in Seq(Case) /\ Len(suite) \in Nat
  BY DEF Loaded
<1>2. DOMAIN trail = 1 .. Len(trail) /\ DOMAIN trail' = 1 .. n /\ DOMAIN suite = 1 .. Len(suite)
  BY <1>1
<1>3. n \in Nat /\ n \notin DOMAIN trail /\ DOMAIN trail' = DOMAIN trail \cup {n} /\ n \in DOMAIN suite
  BY <1>1, <1>2
<1>4. trail'[n] = e /\ \A i \in DOMAIN trail : trail'[i] = trail[i]
  BY <1>1, <1>2
<1>5. c.refusal \in BOOLEAN
  BY DEF Case
<1>6. Ordinary' = IF c.refusal THEN Ordinary ELSE Ordinary \cup {n}
  <2>1. CASE c.refusal
    BY <1>3, <2>1 DEF Ordinary, Cases
  <2>2. CASE ~c.refusal
    BY <1>3, <1>5, <2>2 DEF Ordinary, Cases
  <2> QED
    BY <2>1, <2>2
<1>7. Refusals' = IF c.refusal THEN Refusals \cup {n} ELSE Refusals
  <2>1. CASE c.refusal
    BY <1>3, <1>5, <2>1 DEF Refusals, Cases
  <2>2. CASE ~c.refusal
    BY <1>3, <1>5, <2>2 DEF Refusals, Cases
  <2> QED
    BY <2>1, <2>2
<1>8. Measured' = IF e.clock = "works" THEN Measured \cup {n} ELSE Measured
  <2>1. CASE e.clock = "works"
    BY <1>3, <1>4, <2>1 DEF Measured
  <2>2. CASE e.clock # "works"
    BY <1>3, <1>4, <2>2 DEF Measured
  <2> QED
    BY <2>1, <2>2
<1> QED
  BY <1>3, <1>4, <1>6, <1>7, <1>8

\* A set grows by at most the element it is joined with.
LEMMA OneMore ==
  ASSUME NEW S, IsFiniteSet(S), NEW x, x \notin S
  PROVE  /\ IsFiniteSet(S \cup {x}) /\ Cardinality(S) \in Nat
         /\ Cardinality(S \cup {x}) = Cardinality(S) + 1
BY FS_AddElement, FS_CardinalityType

LEMMA ShareOfTop == 60 \div TOP \in Nat /\ TOP \in 1 .. 6
<1>1. TOP \in 1 .. 6
  BY EvaluationOK
<1> QED
  BY <1>1

\* The counters add up to the cases counted.
Tally ==
    /\ IsFiniteSet(Ordinary) /\ IsFiniteSet(Refusals)
    /\ client = "registered" => report.answered + report.technical = Cardinality(Ordinary)
    /\ report.hits + report.technical <= Cardinality(Ordinary)
    /\ report.correct <= Cardinality(Refusals)
    /\ report.hits * (60 \div TOP) <= report.reciprocal /\ report.reciprocal <= report.hits * 60
    /\ client = "demo" /\ suite # <<>> => _parse_dataset(suite)

LEMMA TallyBegins ==
  ASSUME Counted, trail = <<>>
  PROVE  /\ Ordinary = {} /\ Refusals = {} /\ Measured = {} /\ report = Zero
<1>1. DOMAIN trail = {}
  OBVIOUS
<1> QED
  BY <1>1 DEF Counted, Ordinary, Refusals, Measured

LEMMA TallyOfNothing ==
  ASSUME Counted, trail = <<>>, client = "demo" /\ suite # <<>> => _parse_dataset(suite)
  PROVE  Tally
<1>1. Ordinary = {} /\ Refusals = {} /\ report = Zero
  BY TallyBegins
<1>2. IsFiniteSet({}) /\ Cardinality({}) = 0
  BY FS_EmptySet
<1>3. 60 \div TOP \in Nat
  BY ShareOfTop
<1>4. 0 * (60 \div TOP) = 0
  BY <1>3
<1> QED
  BY <1>1, <1>2, <1>4 DEF Tally, Zero

\* One product more.
LEMMA OneUnitMore ==
  ASSUME NEW h \in Nat, NEW u \in Nat
  PROVE  (h + 1) * u = h * u + u /\ h * u \in Nat
OBVIOUS

LEMMA TallyCase ==
  ASSUME Counted, Tally, NEW w \in CaseWorlds, NEW reading \in Readings, Evaluate(w, reading),
         UNCHANGED <<client, suite>>
  PROVE  Tally'
<1> DEFINE n == Len(trail) + 1
<1>1. PICK c \in Case, e \in Given :
         /\ n \in 1 .. Len(suite) /\ c = suite[n] /\ trail' = Append(trail, e)
         /\ report' = Judge(client, report, c, e)
  BY EvaluateIs DEF Counted
<1> DEFINE ranks == HitRanks(c, First(e.response.evidence, TOP))
           h == Hits(ranks)
           v == Worth(ranks)
           u == 60 \div TOP
           more(x) == IF x THEN 1 ELSE 0
<1>2. /\ n \notin DOMAIN trail
      /\ Ordinary' = IF c.refusal THEN Ordinary ELSE Ordinary \cup {n}
      /\ Refusals' = IF c.refusal THEN Refusals \cup {n} ELSE Refusals
  BY <1>1, NextCase DEF Counted
<1>3. n \notin Ordinary /\ n \notin Refusals /\ IsFiniteSet(Ordinary) /\ IsFiniteSet(Refusals)
  BY <1>2 DEF Ordinary, Refusals, Tally
<1>4. /\ IsFiniteSet(Ordinary') /\ IsFiniteSet(Refusals')
      /\ Cardinality(Ordinary) \in Nat /\ Cardinality(Refusals) \in Nat
      /\ Cardinality(Ordinary') = Cardinality(Ordinary) + (IF c.refusal THEN 0 ELSE 1)
      /\ Cardinality(Refusals') = Cardinality(Refusals) + (IF c.refusal THEN 1 ELSE 0)
  <2>1. /\ IsFiniteSet(Ordinary \cup {n}) /\ Cardinality(Ordinary) \in Nat
        /\ Cardinality(Ordinary \cup {n}) = Cardinality(Ordinary) + 1
    BY <1>3, OneMore
  <2>2. /\ IsFiniteSet(Refusals \cup {n}) /\ Cardinality(Refusals) \in Nat
        /\ Cardinality(Refusals \cup {n}) = Cardinality(Refusals) + 1
    BY <1>3, OneMore
  <2> HIDE DEF n
  <2>3. CASE c.refusal
    BY <1>2, <1>3, <2>1, <2>2, <2>3
  <2>4. CASE ~c.refusal
    BY <1>2, <1>3, <2>1, <2>2, <2>4
  <2> QED
    BY <2>3, <2>4
<1>5. /\ report' \in Counters
      /\ c.refusal => /\ report'.correct \in {report.correct, report.correct + 1}
                      /\ report'.answered = report.answered /\ report'.technical = report.technical
                      /\ report'.hits = report.hits /\ report'.reciprocal = report.reciprocal
      /\ ~c.refusal =>
            /\ report'.correct = report.correct
            /\ \/ /\ report'.technical = report.technical + 1 /\ report'.answered = report.answered
                  /\ report'.hits = report.hits /\ report'.reciprocal = report.reciprocal
               \/ /\ report'.technical = report.technical
                  /\ client = "registered" => report'.answered = report.answered + 1
                  /\ report'.hits = report.hits + h /\ report'.reciprocal = report.reciprocal + v
  BY <1>1, JudgeIs DEF Counted
<1>6. h \in {0, 1} /\ v \in Nat /\ v <= h * 60 /\ h * u <= v
  <2>1. ranks \in SUBSET (1 .. TOP) /\ TOP \in Nat /\ TOP <= 6 /\ TOP # 0
    BY RanksAre, ShareOfTop
  <2>2. report \in Counters
    BY DEF Counted
  <2> HIDE DEF ranks
  <2>3. v \in Nat /\ v <= h * 60 /\ h * u <= v
    BY <2>1, <2>2, CreditIs
  <2> QED
    BY <2>3 DEF Hits
<1>7. u \in Nat
  BY ShareOfTop
<1>8. /\ report.answered \in Nat /\ report.technical \in Nat /\ report.correct \in Nat
      /\ report.hits \in Nat /\ report.reciprocal \in Nat
  BY DEF Counted, Counters
<1>9. client' = client /\ (client' = "demo" /\ suite' # <<>> => _parse_dataset(suite)')
  BY DEF Tally
<1> HIDE DEF n, ranks, h, v, u
<1>10. /\ report'.hits * u <= report'.reciprocal /\ report'.reciprocal <= report'.hits * 60
  <2>1. report.hits * u \in Nat /\ (report.hits + 1) * u = report.hits * u + u
    BY <1>7, <1>8, OneUnitMore
  <2>2. report.hits * u <= report.reciprocal /\ report.reciprocal <= report.hits * 60
    BY DEF Tally, u
  <2>3. CASE report'.hits = report.hits /\ report'.reciprocal = report.reciprocal
    BY <2>2, <2>3
  <2>4. CASE report'.hits = report.hits + h /\ report'.reciprocal = report.reciprocal + v
    <3>1. CASE h = 0
      <4>1. v = 0
        BY <1>6, <3>1
      <4> QED
        BY <1>8, <2>2, <2>4, <3>1, <4>1
    <3>2. CASE h = 1
      <4>1. u <= v /\ v <= 60
        BY <1>6, <1>7, <3>2
      <4>2. report'.hits * u = report.hits * u + u
        BY <2>1, <2>4, <3>2
      <4>3. report'.hits * 60 = report.hits * 60 + 60
        BY <1>8, <2>4, <3>2
      <4> QED
        BY <1>6, <1>7, <1>8, <2>1, <2>2, <2>4, <4>1, <4>2, <4>3
    <3> QED
      BY <1>6, <3>1, <3>2
  <2> QED
    BY <1>5, <2>3, <2>4
<1>11. /\ client' = "registered" => report'.answered + report'.technical = Cardinality(Ordinary')
       /\ report'.hits + report'.technical <= Cardinality(Ordinary')
       /\ report'.correct <= Cardinality(Refusals')
  <2>1. /\ client = "registered" => report.answered + report.technical = Cardinality(Ordinary)
        /\ report.hits + report.technical <= Cardinality(Ordinary)
        /\ report.correct <= Cardinality(Refusals)
    BY DEF Tally
  <2>2. CASE c.refusal
    BY <1>4, <1>5, <1>8, <1>9, <2>1, <2>2
  <2>3. CASE ~c.refusal
    <3>1. /\ Cardinality(Ordinary') = Cardinality(Ordinary) + 1
          /\ Cardinality(Refusals') = Cardinality(Refusals) /\ report'.correct = report.correct
      BY <1>4, <1>5, <2>3
    <3>2. CASE /\ report'.technical = report.technical + 1 /\ report'.answered = report.answered
               /\ report'.hits = report.hits
      BY <1>4, <1>8, <1>9, <2>1, <3>1, <3>2, SMTT(30)
    <3>3. CASE /\ report'.technical = report.technical
               /\ client = "registered" => report'.answered = report.answered + 1
               /\ report'.hits = report.hits + h
      <4>1. report'.hits <= report.hits + 1 /\ report'.hits \in Nat
        BY <1>6, <1>8, <3>3
      <4> QED
        BY <1>4, <1>8, <1>9, <2>1, <3>1, <3>3, <4>1, SMTT(30)
    <3> QED
      BY <1>5, <2>3, <3>2, <3>3
  <2> QED
    BY <2>2, <2>3
<1> QED
  BY <1>4, <1>9, <1>10, <1>11 DEF Tally, u

\* The latencies are those of exactly the calls whose clock worked.
TimesOf(f, lat) ==
    /\ f \in [1 .. Len(lat) -> Measured]
    /\ \A i, j \in 1 .. Len(lat) : f[i] = f[j] => i = j
    /\ \A m \in Measured : \E i \in 1 .. Len(lat) : f[i] = m
    /\ \A i \in 1 .. Len(lat) : trail[f[i]].elapsed = lat[i]

Kept == \E f : TimesOf(f, report.latencies)

LEMMA KeptBegins ==
  ASSUME Counted, trail = <<>>
  PROVE  Kept
<1>1. Measured = {} /\ report.latencies = <<>>
  BY TallyBegins DEF Zero
<1>2. 1 .. Len(report.latencies) = {}
  BY <1>1
<1>3. TimesOf([i \in {} |-> 0], report.latencies)
  BY <1>1, <1>2 DEF TimesOf
<1> QED
  BY <1>3 DEF Kept

LEMMA KeptCase ==
  ASSUME Counted, Kept, NEW w \in CaseWorlds, NEW reading \in Readings, Evaluate(w, reading)
  PROVE  Kept'
<1>0. PICK n, lat : n = Len(trail) + 1 /\ lat = report.latencies
  OBVIOUS
<1>1. PICK c \in Case, e \in Given :
         /\ n \in 1 .. Len(suite) /\ c = suite[n] /\ trail' = Append(trail, e) /\ suite' = suite
         /\ report' = Judge(client, report, c, e)
  BY <1>0, EvaluateIs DEF Counted
<1>2. /\ n \notin DOMAIN trail
      /\ trail'[n] = e /\ \A i \in DOMAIN trail : trail'[i] = trail[i]
      /\ Measured' = IF e.clock = "works" THEN Measured \cup {n} ELSE Measured
  BY <1>0, <1>1, NextCase DEF Counted
<1>3. report'.latencies = IF e.clock = "works" THEN Append(lat, e.elapsed) ELSE lat
  BY <1>0, <1>1, JudgeIs DEF Counted
<1>4. lat \in Seq(Nat) /\ e.elapsed \in Nat
  BY <1>0 DEF Counted, Counters, Given
<1>5. PICK f : TimesOf(f, lat)
  BY <1>0 DEF Kept
<1>6. \A m \in Measured : m \in DOMAIN trail /\ m # n /\ trail'[m] = trail[m]
  BY <1>2 DEF Measured
<1>7. CASE e.clock # "works"
  <2>1. Measured' = Measured /\ report'.latencies = lat
    BY <1>2, <1>3, <1>7
  <2>2. TimesOf(f, lat)'
    BY <1>5, <1>6, <2>1 DEF TimesOf
  <2> QED
    BY <2>1, <2>2 DEF Kept
<1>8. CASE e.clock = "works"
  <2> DEFINE k == Len(lat) + 1
             g == [i \in 1 .. k |-> IF i = k THEN n ELSE f[i]]
             longer == Append(lat, e.elapsed)
  <2>1. Measured' = Measured \cup {n} /\ report'.latencies = longer
    BY <1>2, <1>3, <1>8
  <2>2. /\ Len(longer) = k /\ longer[k] = e.elapsed /\ k \in Nat /\ k \in 1 .. k
        /\ \A i \in 1 .. k : i = k \/ (i \in 1 .. Len(lat) /\ i # k /\ longer[i] = lat[i])
        /\ \A i \in 1 .. Len(lat) : i \in 1 .. k /\ i # k
    BY <1>4
  <2>3. g[k] = n /\ \A i \in 1 .. Len(lat) : g[i] = f[i] /\ f[i] \in Measured
    BY <1>5, <2>2 DEF TimesOf
  <2> HIDE DEF longer, k
  <2>4. g \in [1 .. k -> Measured']
    BY <1>5, <2>1, <2>2 DEF TimesOf
  <2> HIDE DEF g
  <2>5. ASSUME NEW i \in 1 .. k, NEW j \in 1 .. k, g[i] = g[j] PROVE i = j
    <3>1. CASE i = k /\ j = k
      BY <3>1
    <3>2. CASE i = k /\ j # k
      BY <1>6, <2>2, <2>3, <2>5, <3>2
    <3>3. CASE i # k /\ j = k
      BY <1>6, <2>2, <2>3, <2>5, <3>3
    <3>4. CASE i # k /\ j # k
      BY <1>5, <2>2, <2>3, <2>5, <3>4 DEF TimesOf
    <3> QED
      BY <3>1, <3>2, <3>3, <3>4
  <2>6. ASSUME NEW m \in Measured' PROVE \E i \in 1 .. k : g[i] = m
    <3>1. CASE m = n
      BY <2>2, <2>3, <3>1
    <3>2. CASE m \in Measured
      BY <1>5, <2>2, <2>3, <3>2 DEF TimesOf
    <3> QED
      BY <2>1, <2>6, <3>1, <3>2
  <2>7. ASSUME NEW i \in 1 .. k PROVE trail'[g[i]].elapsed = longer[i]
    <3>1. CASE i = k
      BY <1>2, <2>2, <2>3, <3>1
    <3>2. CASE i # k
      BY <1>5, <1>6, <2>2, <2>3, <3>2 DEF TimesOf
    <3> QED
      BY <3>1, <3>2
  <2>8. TimesOf(g, longer)'
    BY <2>2, <2>4, <2>5, <2>6, <2>7 DEF TimesOf
  <2> QED
    BY <2>1, <2>8 DEF Kept
<1> QED
  BY <1>7, <1>8

Taken(f, S) == { f[k] : k \in S }

\* What an injection takes a set of positions to has as many elements.
LEMMA SameMany ==
  ASSUME NEW M, NEW n \in Nat, NEW f \in [1 .. n -> M], IsInjective(f),
         NEW S \in SUBSET (1 .. n)
  PROVE  Cardinality(Taken(f, S)) = Cardinality(S)
<1> DEFINE T == Taken(f, S)
           g == [k \in S |-> f[k]]
<1>1. IsFiniteSet(S)
  <2>1. IsFiniteSet(1 .. n)
    BY IntervalIs
  <2> QED
    BY <2>1, FS_Subset
<1>2. \A k \in S : k \in 1 .. n /\ g[k] = f[k]
  OBVIOUS
<1>3. g \in Surjection(S, T)
  BY <1>2 DEF Surjection, Taken
<1>4. g \in Injection(S, T)
  BY <1>2, <1>3 DEF Surjection, Injection, IsInjective
<1> HIDE DEF T, g
<1>5. Cardinality(T) = Cardinality(S)
  BY <1>1, <1>3, <1>4, FS_Surjection
<1> QED
  BY <1>5 DEF T

\* The report adds up to the cases, whatever the suite, the providers and the
\* clock: with the counters of every case before, and each latency tied to the
\* case it was measured in, the shares and the percentile are as promised.
THEOREM TheReportAddsUp == Spec => []ReportAddsUp
<1>1. Init => Counted /\ Tally /\ Kept
  <2> SUFFICES ASSUME Init PROVE Counted /\ Tally /\ Kept
    OBVIOUS
  <2>1. Counted /\ trail = <<>> /\ suite = <<>>
    BY CountedInitially DEF Init
  <2> QED
    BY <2>1, TallyOfNothing, KeptBegins
<1>2. Counted /\ Tally /\ Kept /\ [Next]_vars => Counted' /\ Tally' /\ Kept'
  <2> SUFFICES ASSUME Counted, Tally, Kept, [Next]_vars PROVE Counted' /\ Tally' /\ Kept'
    OBVIOUS
  <2>1. Counted'
    BY CountedStep
  <2>2. CASE UNCHANGED <<client, suite, trail, report, second>>
    <3>1. Tally'
      BY <2>2 DEF Tally, Ordinary, Refusals, Cases, _parse_dataset
    <3>2. Kept'
      BY <2>2 DEF Kept, TimesOf, Measured
    <3> QED
      BY <2>1, <3>1, <3>2
  <2>3. ASSUME trail = <<>>, suite = <<>>, NEW s \in Datasets, Load(s),
               UNCHANGED <<client, trail, report, second>>
        PROVE  Tally' /\ Kept'
    <3>1. client = "demo" => _parse_dataset(suite')
      BY <2>3 DEF Load
    <3>2. Tally'
      <4>1. Ordinary' = {} /\ Refusals' = {} /\ report' = Zero
        BY <2>1, <2>3, TallyBegins DEF Counted, Ordinary, Refusals
      <4>2. IsFiniteSet({}) /\ Cardinality({}) = 0
        BY FS_EmptySet
      <4>3. 0 * (60 \div TOP) = 0
        BY ShareOfTop
      <4> QED
        BY <2>3, <3>1, <4>1, <4>2, <4>3 DEF Tally, Zero
    <3>3. Kept'
      BY <2>3 DEF Kept, TimesOf, Measured
    <3> QED
      BY <3>2, <3>3
  <2>4. ASSUME NEW w \in CaseWorlds, NEW reading \in Readings, Evaluate(w, reading),
               UNCHANGED <<client, suite>>
        PROVE  Tally' /\ Kept'
    BY <2>4, TallyCase, KeptCase
  <2> QED
    BY <2>1, <2>2, <2>3, <2>4, CountedStep
<1>3. Counted /\ Tally /\ Kept => ReportAddsUp
  <2> SUFFICES ASSUME Counted, Tally, Kept PROVE ReportAddsUp
    OBVIOUS
  <2> DEFINE atMost(x) == Cardinality({ i \in Measured : trail[i].elapsed <= x })
             below(x) == Cardinality({ i \in Measured : trail[i].elapsed < x })
  <2>1. ASSUME client = "demo", suite # <<>>, Len(trail) = Len(suite)
        PROVE  Ordinary # {} /\ Refusals # {}
    <3>1. DOMAIN trail = DOMAIN suite
      BY <2>1 DEF Counted, Loaded
    <3>2. Ordinary = Cases(suite, FALSE) /\ Refusals = Cases(suite, TRUE)
      BY <3>1 DEF Ordinary, Refusals, Cases
    <3>3. Cardinality(Ordinary) >= MIN_ORDINARY /\ Cardinality(Refusals) >= MIN_REFUSAL
      BY <2>1, <3>2 DEF Tally, _parse_dataset
    <3>4. MIN_ORDINARY \in Nat \ {0} /\ MIN_REFUSAL \in Nat \ {0} /\ Cardinality({}) = 0
      BY EvaluationOK, FS_EmptySet
    <3> QED
      BY <3>3, <3>4
  <2>2. PICK lat, n, p : lat = report.latencies /\ n = Len(lat) /\ p = Percentile(lat)
    OBVIOUS
  <2>3. lat \in Seq(Nat) /\ n \in Nat /\ (lat = <<>> <=> n = 0)
    BY <2>2 DEF Counted, Counters
  <2>4. PICK f : /\ f \in [1 .. n -> Measured] /\ \A i, j \in 1 .. n : f[i] = f[j] => i = j
                 /\ \A m \in Measured : \E i \in 1 .. n : f[i] = m
                 /\ \A i \in 1 .. n : trail[f[i]].elapsed = lat[i]
    BY <2>2 DEF Kept, TimesOf
  <2>5. Measured = {} <=> lat = <<>>
    BY <2>3, <2>4
  <2>9. \A S \in SUBSET (1 .. n) : Cardinality(Taken(f, S)) = Cardinality(S)
    <3>1. f \in [1 .. n -> Measured] /\ IsInjective(f)
      BY <2>4 DEF IsInjective
    <3>2. n \in Nat
      BY <2>3
    <3> QED
      BY <3>1, <3>2, SameMany
  <2>6. Cardinality(Measured) = n
    <3>1. Measured = Taken(f, 1 .. n)
      BY <2>4 DEF Taken
    <3>2. Cardinality(Measured) = Cardinality(1 .. n)
      <4>1. 1 .. n \in SUBSET (1 .. n)
        OBVIOUS
      <4> QED
        BY <2>9, <3>1, <4>1
    <3> QED
      BY <2>3, <3>2, IntervalIs
  <2>7. CASE lat = <<>>
    <3>1. p = None
      BY <2>2, <2>7 DEF Percentile
    <3> QED
      BY <2>1, <2>2, <2>5, <2>7, <3>1 DEF ReportAddsUp, Tally
  <2>8. CASE lat # <<>>
    <3> DEFINE most == UpTo(lat, n, p)
               less == Under(lat, n, p)
    <3>1. /\ \E k \in 1 .. n : p = lat[k]
          /\ 100 * Cardinality(most) >= PERCENT * n /\ 100 * Cardinality(less) < PERCENT * n
      BY <2>2, <2>3, <2>8, PercentileIs
    <3>2. p # None /\ \E i \in Measured : trail[i].elapsed = p
      <4>1. PICK k \in 1 .. n : p = lat[k]
        BY <3>1
      <4>2. lat[k] \in Nat
        BY <2>2, <2>3
      <4>3. f[k] \in Measured /\ trail[f[k]].elapsed = p
        BY <2>4, <4>1
      <4> QED
        BY <4>1, <4>2, <4>3, EvaluationOK
    <3>3. atMost(p) = Cardinality(most)
      <4>1. { i \in Measured : trail[i].elapsed <= p } = Taken(f, most)
        BY <2>4 DEF Taken, UpTo
      <4>2. most \in SUBSET (1 .. n)
        BY DEF UpTo
      <4> HIDE DEF most
      <4> QED
        BY <2>9, <4>1, <4>2
    <3>4. below(p) = Cardinality(less)
      <4>1. { i \in Measured : trail[i].elapsed < p } = Taken(f, less)
        BY <2>4 DEF Taken, Under
      <4>2. less \in SUBSET (1 .. n)
        BY DEF Under
      <4> HIDE DEF less
      <4> QED
        BY <2>9, <4>1, <4>2
    <3>5. 100 * atMost(p) >= PERCENT * Cardinality(Measured) /\ 100 * below(p) < PERCENT * Cardinality(Measured)
      BY <2>6, <3>1, <3>3, <3>4
    <3> QED
      BY <2>1, <2>2, <2>5, <2>8, <3>2, <3>5 DEF ReportAddsUp, Tally
  <2> QED
    BY <2>7, <2>8
<1> QED
  BY <1>1, <1>2, <1>3, PTL DEF Spec

=============================================================================
