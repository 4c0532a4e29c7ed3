-------------------------- MODULE PublicDataProofs --------------------------
(***************************************************************************)
(* The readings of the past and the forecasts.  First the properties of    *)
(* PublicHistory for any histories, requests and limits, for floats of any *)
(* size, and whatever the host does to the file and to the registry: the   *)
(* lemmas say what rounding keeps, what an order statistic, a screen, an   *)
(* aggregate and a profile depend on, and the invariant says that every    *)
(* answer and every profile is that of a version.  Then what every         *)
(* delivery that passes the gate of ForecastContracts has in common, for   *)
(* any number of points, metrics and horizons.                             *)
(***************************************************************************)
EXTENDS PublicHistory, ForecastContracts, FiniteSetTheorems, TLAPS

-----------------------------------------------------------------------------
(* Extremes *)

\* The elements of S up to x.
UpTo(S, x) == { y \in S : y <= x }

LEMMA UpToCounts ==
    ASSUME NEW S \in SUBSET Int, IsFiniteSet(S), NEW x \in S
    PROVE  /\ IsFiniteSet(UpTo(S, x)) /\ x \in UpTo(S, x)
           /\ Cardinality(UpTo(S, x)) \in 1 .. Cardinality(S)
           /\ Cardinality(UpTo(S, x)) = Cardinality(S) => UpTo(S, x) = S
<1>1. UpTo(S, x) \in SUBSET S /\ x \in UpTo(S, x)
  BY DEF UpTo
<1>2. /\ IsFiniteSet(UpTo(S, x)) /\ Cardinality(UpTo(S, x)) <= Cardinality(S)
      /\ Cardinality(S) = Cardinality(UpTo(S, x)) => S = UpTo(S, x)
  BY <1>1, FS_Subset
<1>3. Cardinality(UpTo(S, x)) \in Nat /\ Cardinality(S) \in Nat
  BY <1>2, FS_CardinalityType
<1>4. Cardinality(UpTo(S, x)) # 0
  BY <1>1, <1>2, FS_EmptySet
<1> QED BY <1>1, <1>2, <1>3, <1>4

\* A finite set of numbers has a least and a greatest element, and Min and Max
\* find them.
LEMMA Extremes ==
    ASSUME NEW S \in SUBSET Int, IsFiniteSet(S), S # {}
    PROVE  /\ Min(S) \in S /\ \A y \in S : Min(S) <= y
           /\ Max(S) \in S /\ \A y \in S : y <= Max(S)
<1> DEFINE c == Cardinality(S)
           rank == [x \in S |-> Cardinality(UpTo(S, x))]
<1>1. c \in Nat /\ c # 0 /\ IsFiniteSet(1 .. c) /\ Cardinality(1 .. c) = c
  <2>1. c \in Nat
    BY FS_CardinalityType
  <2>2. c # 0
    BY FS_EmptySet
  <2> HIDE DEF c, rank
  <2>3. IsFiniteSet(1 .. c) /\ Cardinality(1 .. c) = IF 1 > c THEN 0 ELSE c - 1 + 1
    BY <2>1, FS_Interval
  <2> QED BY <2>1, <2>2, <2>3
<1>2. rank \in [S -> 1 .. c]
  BY UpToCounts
<1>3. \A x, y \in S : x < y => rank[x] # rank[y]
  <2> SUFFICES ASSUME NEW x \in S, NEW y \in S, x < y PROVE rank[x] # rank[y]
    OBVIOUS
  <2>0. x \in Int /\ y \in Int
    OBVIOUS
  <2> HIDE DEF c, rank
  <2>1. UpTo(S, x) \in SUBSET UpTo(S, y) /\ y \notin UpTo(S, x) /\ y \in UpTo(S, y)
    <3>1. \A z \in UpTo(S, x) : z \in S /\ z \in Int /\ z <= x
      BY DEF UpTo
    <3>2. \A z \in UpTo(S, x) : z \in S /\ z <= y
      BY <2>0, <3>1
    <3>3. UpTo(S, x) \subseteq UpTo(S, y)
      BY <3>2 DEF UpTo
    <3>4. y \notin UpTo(S, x)
      BY <2>0, <3>1
    <3> QED BY <2>0, <3>3, <3>4, UpToCounts
  <2>2. Cardinality(UpTo(S, y)) # Cardinality(UpTo(S, x))
    BY <2>1, UpToCounts, FS_Subset
  <2> QED BY <2>2 DEF rank
<1>4. rank \in Injection(S, 1 .. c)
  <2>1. \A x, y \in S : rank[x] = rank[y] => x = y
    <3> SUFFICES ASSUME NEW x \in S, NEW y \in S, rank[x] = rank[y] PROVE x = y
      OBVIOUS
    <3>1. x \in Int /\ y \in Int /\ ~(x < y) /\ ~(y < x)
      BY <1>3
    <3> QED BY <3>1
  <2> HIDE DEF rank
  <2> QED BY <1>2, <2>1 DEF Injection, IsInjective
<1>5. rank \in Surjection(S, 1 .. c)
  BY <1>1, <1>4, FS_Injection
<1> HIDE DEF rank
<1>6. \A k \in 1 .. c : \E x \in S : rank[x] = k
  BY <1>5 DEF Surjection
<1>7. \E x \in S : \A y \in S : x <= y
  <2>1. PICK x \in S : rank[x] = 1
    BY <1>1, <1>6
  <2>2. Cardinality(UpTo(S, x)) = 1 /\ IsFiniteSet(UpTo(S, x)) /\ x \in UpTo(S, x)
    BY <2>1, UpToCounts DEF rank
  <2>3. \A y \in UpTo(S, x) : y = x
    BY <2>2, FS_Singleton
  <2>4. \A y \in S : y < x => y \in UpTo(S, x)
    BY DEF UpTo
  <2>5. \A y \in S : x <= y
    BY <2>3, <2>4
  <2> QED BY <2>5
<1>8. \E x \in S : \A y \in S : x >= y
  <2>1. PICK x \in S : rank[x] = c
    BY <1>1, <1>6
  <2>2. UpTo(S, x) = S
    BY <2>1, UpToCounts DEF rank
  <2> QED BY <2>2 DEF UpTo
<1>9. Min(S) \in S /\ \A y \in S : Min(S) <= y
  BY <1>7 DEF Min
<1>10. Max(S) \in S /\ \A y \in S : Max(S) >= y
  BY <1>8 DEF Max
<1> QED BY <1>9, <1>10

LEMMA MinIs ==
    ASSUME NEW S \in SUBSET Int, NEW x \in S, \A y \in S : x <= y
    PROVE  Min(S) = x
<1>1. Min(S) \in S /\ \A y \in S : Min(S) <= y
  <2>1. \E z \in S : \A y \in S : z <= y
    OBVIOUS
  <2> QED BY <2>1 DEF Min
<1>2. Min(S) \in Int /\ x \in Int /\ Min(S) <= x /\ x <= Min(S)
  BY <1>1
<1> QED BY <1>2

LEMMA MaxIs ==
    ASSUME NEW S \in SUBSET Int, NEW x \in S, \A y \in S : y <= x
    PROVE  Max(S) = x
<1>1. Max(S) \in S /\ \A y \in S : Max(S) >= y
  <2>1. \E z \in S : \A y \in S : z >= y
    OBVIOUS
  <2> QED BY <2>1 DEF Max
<1>2. Max(S) \in Int /\ x \in Int /\ Max(S) <= x /\ x <= Max(S)
  BY <1>1
<1> QED BY <1>2

LEMMA OfOne ==
    ASSUME NEW x \in Int
    PROVE  Min({x}) = x /\ Max({x}) = x
<1>1. {x} \in SUBSET Int /\ (\A y \in {x} : x <= y) /\ (\A y \in {x} : y <= x) /\ x \in {x}
  OBVIOUS
<1> QED BY <1>1, MinIs, MaxIs

-----------------------------------------------------------------------------
(* Order statistics *)

\* Numbers at finitely many positions.
Measured(f) == IsFiniteSet(DOMAIN f) /\ f \in [DOMAIN f -> Int]

Figures(f) == { f[n] : n \in DOMAIN f }
Below(f, v) == { n \in DOMAIN f : f[n] < v }
Within(f, v) == { n \in DOMAIN f : f[n] <= v }

IsNth(f, k, v) ==
    v \in Figures(f) /\ Cardinality(Below(f, v)) < k /\ k <= Cardinality(Within(f, v))

LEMMA Parts ==
    ASSUME NEW f, Measured(f), NEW v
    PROVE  /\ IsFiniteSet(Below(f, v)) /\ Cardinality(Below(f, v)) \in Nat
           /\ IsFiniteSet(Within(f, v)) /\ Cardinality(Within(f, v)) \in Nat
           /\ Below(f, v) \subseteq DOMAIN f /\ Within(f, v) \subseteq DOMAIN f
<1>1. Below(f, v) \subseteq DOMAIN f /\ Within(f, v) \subseteq DOMAIN f
  BY DEF Below, Within
<1> QED BY <1>1, FS_Subset, FS_CardinalityType DEF Measured

LEMMA FiguresAre ==
    ASSUME NEW f, Measured(f)
    PROVE  Figures(f) \in SUBSET Int /\ IsFiniteSet(Figures(f))
<1>1. Figures(f) \in SUBSET Int
  BY DEF Figures, Measured
<1>2. f \in Surjection(DOMAIN f, Figures(f))
  BY DEF Figures, Measured, Surjection
<1>3. IsFiniteSet(Figures(f))
  BY <1>2, FS_Surjection DEF Measured
<1> QED BY <1>1, <1>3

LEMMA BelowGrows ==
    ASSUME NEW f, Measured(f), NEW x \in Int, NEW y \in Int, x < y
    PROVE  Cardinality(Within(f, x)) <= Cardinality(Below(f, y))
<1>1. ASSUME NEW n \in Within(f, x) PROVE n \in Below(f, y)
  <2>1. n \in DOMAIN f /\ f[n] <= x /\ f[n] \in Int
    BY DEF Within, Measured
  <2>2. f[n] < y
    BY <2>1
  <2> QED BY <2>1, <2>2 DEF Below
<1> QED BY <1>1, Parts, FS_Subset

LEMMA NthIsOne ==
    ASSUME NEW f, Measured(f), NEW k \in Int, NEW v, NEW w, IsNth(f, k, v), IsNth(f, k, w)
    PROVE  v = w
<1>1. v \in Int /\ w \in Int
  BY FiguresAre DEF IsNth
<1>2. ASSUME NEW x \in Int, NEW y \in Int, IsNth(f, k, x), IsNth(f, k, y), x < y
      PROVE  FALSE
  <2>2. Cardinality(Within(f, x)) <= Cardinality(Below(f, y))
    BY <1>2, BelowGrows
  <2>3. k <= Cardinality(Within(f, x)) /\ Cardinality(Below(f, y)) < k
    BY <1>2 DEF IsNth
  <2>4. Cardinality(Within(f, x)) \in Nat /\ Cardinality(Below(f, y)) \in Nat
    BY Parts
  <2> QED BY <2>2, <2>3, <2>4
<1>3. ~(v < w) /\ ~(w < v)
  BY <1>1, <1>2
<1> QED BY <1>1, <1>3

LEMMA NthIsThere ==
    ASSUME NEW f, Measured(f), NEW k \in 1 .. Cardinality(DOMAIN f)
    PROVE  \E v : IsNth(f, k, v)
<1> DEFINE good == { v \in Figures(f) : k <= Cardinality(Within(f, v)) }
<1>1. DOMAIN f # {} /\ Cardinality(DOMAIN f) \in Nat
  BY FS_EmptySet, FS_CardinalityType DEF Measured
<1>2. Figures(f) # {}
  BY <1>1 DEF Figures
<1>3. Max(Figures(f)) \in Figures(f) /\ \A y \in Figures(f) : y <= Max(Figures(f))
  BY <1>2, FiguresAre, Extremes
<1>4. Within(f, Max(Figures(f))) = DOMAIN f
  BY <1>3 DEF Within, Figures
<1>5. good # {} /\ good \in SUBSET Int /\ IsFiniteSet(good)
  <2>1. Max(Figures(f)) \in good
    BY <1>1, <1>3, <1>4
  <2>2. good \in SUBSET Figures(f)
    OBVIOUS
  <2> QED BY <2>1, <2>2, FiguresAre, FS_Subset
<1>6. PICK v \in good : \A y \in good : v <= y
  BY <1>5, Extremes
<1>7. v \in Figures(f) /\ v \in Int /\ k <= Cardinality(Within(f, v))
  BY <1>5
<1>8. Cardinality(Below(f, v)) < k
  <2> SUFFICES ASSUME ~(Cardinality(Below(f, v)) < k) PROVE FALSE
    OBVIOUS
  <2>1. Cardinality(Below(f, v)) \in Nat /\ Below(f, v) # {} /\ k <= Cardinality(Below(f, v))
    BY Parts, FS_EmptySet
  <2> DEFINE figures == { f[n] : n \in Below(f, v) }
  <2>2. figures \subseteq Figures(f) /\ figures # {}
    BY <2>1, Parts DEF Figures
  <2>3. PICK w \in figures : \A y \in figures : y <= w
    BY <2>2, FiguresAre, FS_Subset, Extremes
  <2>4. w \in Figures(f) /\ w \in Int /\ w < v
    BY <2>2, FiguresAre DEF Below
  <2>5. Below(f, v) \subseteq Within(f, w)
    BY <2>3 DEF Within, Below
  <2>6. Cardinality(Below(f, v)) <= Cardinality(Within(f, w)) /\ Cardinality(Within(f, w)) \in Nat
    BY <2>5, Parts, FS_Subset
  <2>7. k <= Cardinality(Within(f, w))
    BY <2>1, <2>6
  <2>8. w \in good
    BY <2>4, <2>7
  <2> HIDE DEF good
  <2> QED BY <1>6, <1>7, <2>4, <2>8
<1> QED BY <1>7, <1>8 DEF IsNth

\* Smallest finds the k-th smallest figure, the only one that has less than k
\* figures below it and at least k up to it.
LEMMA SmallestIs ==
    ASSUME NEW f, Measured(f), NEW k \in 1 .. Cardinality(DOMAIN f)
    PROVE  /\ IsNth(f, k, Smallest(f, k)) /\ Smallest(f, k) \in Int
           /\ \A v : IsNth(f, k, v) => v = Smallest(f, k)
<1>1. PICK v : IsNth(f, k, v)
  BY NthIsThere
<1>2. IsNth(f, k, Smallest(f, k))
  BY <1>1 DEF Smallest, IsNth, Figures, Below, Within
<1>3. Smallest(f, k) \in Int
  BY <1>2, FiguresAre DEF IsNth
<1>4. k \in Int
  BY FS_CardinalityType DEF Measured
<1> QED BY <1>2, <1>3, <1>4, NthIsOne

\* b pairs the elements of S with those of T.
Pairs(b, S, T) ==
    /\ b \in [S -> T]
    /\ \A m, n \in S : b[m] = b[n] => m = n
    /\ \A t \in T : \E s \in S : b[s] = t

LEMMA PairedSetsHaveOneSize ==
    ASSUME NEW b, NEW S, NEW T, Pairs(b, S, T), IsFiniteSet(S)
    PROVE  IsFiniteSet(T) /\ Cardinality(T) = Cardinality(S)
<1>1. b \in Bijection(S, T)
  BY DEF Pairs, Bijection, Injection, IsInjective, Surjection
<1> QED BY <1>1, FS_Bijection DEF ExistsBijection

\* g holds the figures of f at other positions.
Moved(b, f, g) ==
    /\ Measured(f) /\ Measured(g)
    /\ Pairs(b, DOMAIN g, DOMAIN f)
    /\ \A n \in DOMAIN g : g[n] = f[b[n]]

LEMMA SmallestStays ==
    ASSUME NEW b, NEW f, NEW g, Moved(b, f, g), NEW k \in 1 .. Cardinality(DOMAIN g)
    PROVE  Smallest(g, k) = Smallest(f, k)
<1>1. Cardinality(DOMAIN f) = Cardinality(DOMAIN g)
  BY PairedSetsHaveOneSize DEF Moved, Measured
<1>2. PICK v : v = Smallest(f, k)
  OBVIOUS
<1>3. IsNth(f, k, v)
  BY <1>1, <1>2, SmallestIs DEF Moved
<1>4. v \in Figures(g)
  BY <1>3 DEF IsNth, Figures, Moved, Pairs
<1>5. Cardinality(Below(g, v)) = Cardinality(Below(f, v))
  <2> DEFINE c == [n \in Below(g, v) |-> b[n]]
  <2>1. Pairs(c, Below(g, v), Below(f, v))
    BY DEF Pairs, Moved, Below
  <2> HIDE DEF c
  <2> QED BY <2>1, Parts, PairedSetsHaveOneSize DEF Moved
<1>6. Cardinality(Within(g, v)) = Cardinality(Within(f, v))
  <2> DEFINE c == [n \in Within(g, v) |-> b[n]]
  <2>1. Pairs(c, Within(g, v), Within(f, v))
    BY DEF Pairs, Moved, Within
  <2> HIDE DEF c
  <2> QED BY <2>1, Parts, PairedSetsHaveOneSize DEF Moved
<1>7. IsNth(g, k, v)
  BY <1>3, <1>4, <1>5, <1>6 DEF IsNth
<1> QED BY <1>2, <1>7, SmallestIs DEF Moved

Negative(f) == [n \in DOMAIN f |-> -f[n]]

LEMMA NegativeIsMeasured ==
    ASSUME NEW f, Measured(f)
    PROVE  Measured(Negative(f)) /\ DOMAIN Negative(f) = DOMAIN f
<1>1. DOMAIN Negative(f) = DOMAIN f
  BY DEF Negative
<1>2. \A n \in DOMAIN f : -f[n] \in Int
  BY DEF Measured
<1>3. Negative(f) \in [DOMAIN f -> Int]
  BY <1>2 DEF Negative
<1> QED BY <1>1, <1>3 DEF Measured

\* Mirrored figures are counted from the other end.
LEMMA SmallestMirrors ==
    ASSUME NEW f, Measured(f), NEW c, c = Cardinality(DOMAIN f), NEW k \in 1 .. c
    PROVE  Smallest(Negative(f), k) = -Smallest(f, c + 1 - k)
<1>1. c \in Nat /\ c + 1 - k \in 1 .. c
  BY FS_CardinalityType DEF Measured
<1>2. PICK w : w = Smallest(f, c + 1 - k)
  OBVIOUS
<1>3. IsNth(f, c + 1 - k, w) /\ w \in Int
  BY <1>1, <1>2, SmallestIs
<1> DEFINE g == Negative(f)
<1>4. \A n \in DOMAIN f : f[n] \in Int /\ g[n] = -f[n]
  BY DEF Negative, Measured
<1>5. DOMAIN g = DOMAIN f /\ Measured(g)
  BY NegativeIsMeasured
<1> HIDE DEF g
<1>6. -w \in Figures(g)
  BY <1>3, <1>4, <1>5 DEF IsNth, Figures
<1>7. Below(g, -w) = DOMAIN f \ Within(f, w)
  <2>1. \A n \in DOMAIN f : g[n] < -w <=> ~(f[n] <= w)
    BY <1>3, <1>4
  <2> QED BY <1>5, <2>1 DEF Below, Within
<1>8. Within(g, -w) = DOMAIN f \ Below(f, w)
  <2>1. \A n \in DOMAIN f : g[n] <= -w <=> ~(f[n] < w)
    BY <1>3, <1>4
  <2> QED BY <1>5, <2>1 DEF Below, Within
<1>9. /\ Cardinality(Below(g, -w)) = c - Cardinality(Within(f, w))
      /\ Cardinality(Within(g, -w)) = c - Cardinality(Below(f, w))
  <2>1. DOMAIN f \cap Within(f, w) = Within(f, w) /\ DOMAIN f \cap Below(f, w) = Below(f, w)
    BY Parts
  <2>2. Cardinality(DOMAIN f \ Within(f, w)) = c - Cardinality(DOMAIN f \cap Within(f, w))
    BY FS_Difference DEF Measured
  <2>3. Cardinality(DOMAIN f \ Below(f, w)) = c - Cardinality(DOMAIN f \cap Below(f, w))
    BY FS_Difference DEF Measured
  <2> QED BY <1>7, <1>8, <2>1, <2>2, <2>3
<1>10. /\ Cardinality(Within(f, w)) \in Nat /\ Cardinality(Below(f, w)) \in Nat
       /\ Cardinality(Below(f, w)) < c + 1 - k /\ c + 1 - k <= Cardinality(Within(f, w))
  BY <1>3, Parts DEF IsNth
<1>11. Cardinality(Below(g, -w)) < k /\ k <= Cardinality(Within(g, -w))
  BY <1>1, <1>9, <1>10
<1>12. IsNth(g, k, -w)
  BY <1>6, <1>11 DEF IsNth
<1>13. -w = Smallest(g, k)
  BY <1>5, <1>12, SmallestIs
<1> QED BY <1>2, <1>13 DEF g

LEMMA SmallestRises ==
    ASSUME NEW f, Measured(f), NEW j \in 1 .. Cardinality(DOMAIN f),
           NEW k \in 1 .. Cardinality(DOMAIN f), j <= k
    PROVE  Smallest(f, j) <= Smallest(f, k)
<1>1. PICK v : v = Smallest(f, j)
  OBVIOUS
<1>2. PICK w : w = Smallest(f, k)
  OBVIOUS
<1>3. IsNth(f, j, v) /\ IsNth(f, k, w) /\ v \in Int /\ w \in Int
  BY <1>1, <1>2, SmallestIs
<1>4. j \in Int /\ k \in Int
  BY FS_CardinalityType DEF Measured
<1>5. ASSUME w < v PROVE FALSE
  <2>2. Cardinality(Within(f, w)) <= Cardinality(Below(f, v))
    BY <1>3, <1>5, BelowGrows
  <2>3. k <= Cardinality(Within(f, w)) /\ Cardinality(Below(f, v)) < j
    BY <1>3 DEF IsNth
  <2>4. Cardinality(Within(f, w)) \in Nat /\ Cardinality(Below(f, v)) \in Nat
    BY Parts
  <2> QED BY <1>4, <2>2, <2>3, <2>4
<1> QED BY <1>1, <1>2, <1>3, <1>5

-----------------------------------------------------------------------------
(* Arithmetic *)

\* A set of numbers from 0 that holds the successors of its own up to N holds
\* all: there is no least number outside.
LEMMA Induction ==
    ASSUME NEW N \in Nat, NEW S, 0 \in S, \A n \in 0 .. N - 1 : n \in S => n + 1 \in S
    PROVE  \A n \in 0 .. N : n \in S
<1> SUFFICES ASSUME \E n \in 0 .. N : n \notin S PROVE FALSE
  OBVIOUS
<1>1. PICK out : out = { n \in 0 .. N : n \notin S }
  OBVIOUS
<1>2. out # {} /\ out \in SUBSET Int /\ IsFiniteSet(out)
  <2>1. IsFiniteSet(0 .. N)
    BY FS_Interval
  <2>2. out \subseteq 0 .. N
    BY <1>1
  <2>3. IsFiniteSet(out)
    BY <2>1, <2>2, FS_Subset
  <2> QED BY <1>1, <2>2, <2>3
<1>3. PICK m : m = Min(out)
  OBVIOUS
<1>4. m \in out /\ \A n \in out : m <= n
  BY <1>2, <1>3, Extremes
<1>5. m \in 0 .. N /\ m \notin S /\ m # 0
  BY <1>1, <1>4
<1>6. m - 1 \in 0 .. N - 1 /\ m - 1 \in S
  BY <1>1, <1>4, <1>5
<1> QED BY <1>5, <1>6

LEMMA AbsIs ==
    ASSUME NEW x \in Int
    PROVE  /\ Abs(x) \in Nat /\ (x < 0 => Abs(x) = -x) /\ (x >= 0 => Abs(x) = x)
           /\ -Abs(x) <= x /\ x <= Abs(x)
  BY DEF Abs

\* Division with remainder.
LEMMA Division ==
    ASSUME NEW x \in Nat, NEW n \in Nat \ {0}, NEW low, low = x \div n, NEW rest, rest = x % n
    PROVE  low \in Int /\ rest \in Int /\ 0 <= rest /\ rest < n /\ x = n * low + rest
<1>1. low \in Int /\ rest \in Int
  OBVIOUS
<1>2. 0 <= rest /\ rest < n
  OBVIOUS
<1>3. x = n * low + rest
  OBVIOUS
<1> QED BY <1>1, <1>2, <1>3

LEMMA ProductsRise ==
    ASSUME NEW n \in Nat, NEW a \in Int, NEW b \in Int, a <= b
    PROVE  n * a <= n * b
<1>1. b - a \in Nat
  OBVIOUS
<1>2. n * (b - a) \in Nat
  BY <1>1
<1>3. n * b = n * a + n * (b - a) /\ n * a \in Int
  OBVIOUS
<1> QED BY <1>2, <1>3

LEMMA Products ==
    ASSUME NEW n \in Nat \ {0}, NEW a \in Int, NEW b \in Int
    PROVE  /\ n * a \in Int /\ n * (a + 1) = n * a + n /\ n * (-a) = -(n * a)
           /\ n * a < n * b => a < b
<1>1. n * a \in Int /\ n * b \in Int
  OBVIOUS
<1>3. n * (a + 1) = n * a + n
  OBVIOUS
<1>4. n * (-a) = -(n * a)
  <2>1. PICK c \in Int : c = -a
    OBVIOUS
  <2>2. n * (a + c) = n * a + n * c /\ n * c \in Int /\ n * 0 = 0 /\ a + c = 0
    BY <2>1
  <2> QED BY <1>1, <2>1, <2>2
<1>2. ASSUME b <= a PROVE n * b <= n * a
  BY <1>2, ProductsRise
<1> QED BY <1>1, <1>2, <1>3, <1>4

LEMMA TimesKeepOrder ==
    ASSUME NEW n \in Nat \ {0}, NEW a \in Int, NEW b \in Int, n * a <= n * b
    PROVE  a <= b
<1>1. n * a \in Int /\ n * b \in Int /\ n * (b + 1) = n * b + n
  BY Products
<1>2. ASSUME b + 1 <= a PROVE FALSE
  <2>1. n * (b + 1) <= n * a
    BY <1>2, ProductsRise
  <2> QED BY <1>1, <2>1
<1> QED BY <1>2

-----------------------------------------------------------------------------
(* Powers of two and rounding *)

Exponents == 0 .. MAX_EXPONENT + PRECISION

Doubled(t, N) == t = [n \in 0 .. N |-> IF n = 0 THEN 1 ELSE 2 * t[n - 1]]

LEMMA DoubledExist ==
    ASSUME NEW N \in Nat
    PROVE  \E t : Doubled(t, N)
<1>1. PICK good : good = { m \in 0 .. N : \E t : Doubled(t, m) }
  OBVIOUS
<1>2. 0 \in good
  <2>1. PICK t : t = [n \in 0 .. 0 |-> 1]
    OBVIOUS
  <2>2. \A n \in 0 .. 0 : n = 0
    OBVIOUS
  <2>3. Doubled(t, 0)
    BY <2>1, <2>2 DEF Doubled
  <2> QED BY <1>1, <2>3
<1>3. ASSUME NEW m \in 0 .. N - 1, m \in good PROVE m + 1 \in good
  <2>1. PICK t : Doubled(t, m)
    BY <1>1, <1>3
  <2>2. PICK u : u = [n \in 0 .. m + 1 |-> IF n = m + 1 THEN 2 * t[m] ELSE t[n]]
    OBVIOUS
  <2>3. \A n \in 0 .. m : t[n] = IF n = 0 THEN 1 ELSE 2 * t[n - 1]
    BY <2>1 DEF Doubled
  <2>4. ASSUME NEW n \in 0 .. m + 1
        PROVE  u[n] = IF n = 0 THEN 1 ELSE 2 * u[n - 1]
    <3>1. CASE n = m + 1
      <4>1. n # 0 /\ n - 1 = m /\ m \in 0 .. m + 1 /\ m # m + 1
        BY <3>1
      <4>2. u[m] = t[m] /\ u[n] = 2 * t[m]
        BY <2>2, <3>1, <4>1
      <4> QED BY <4>1, <4>2
    <3>2. CASE n = 0
      BY <2>2, <2>3, <3>2
    <3>3. CASE n # m + 1 /\ n # 0
      <4>1. n \in 0 .. m /\ n - 1 \in 0 .. m + 1 /\ n - 1 # m + 1
        BY <3>3
      <4>2. u[n] = t[n] /\ u[n - 1] = t[n - 1]
        BY <2>2, <3>3, <4>1
      <4> QED BY <2>3, <3>3, <4>1, <4>2
    <3> QED BY <3>1, <3>2, <3>3
  <2>5. u = [n \in 0 .. m + 1 |-> u[n]]
    BY <2>2
  <2>6. Doubled(u, m + 1)
    BY <2>4, <2>5 DEF Doubled
  <2>7. m + 1 \in 0 .. N
    OBVIOUS
  <2> QED BY <1>1, <2>6, <2>7
<1>4. N \in good
  BY <1>2, <1>3, Induction
<1> QED BY <1>1, <1>4

\* Powers double, and the smaller ones divide the larger ones.
LEMMA PowersDouble ==
    ASSUME NEW N, N = MAX_EXPONENT + PRECISION
    PROVE  N \in Nat /\ Power[0] = 1 /\ \A n \in 0 .. N - 1 : Power[n + 1] = 2 * Power[n]
<1>1. N \in Nat
  BY FloatsOK
<1>2. Power = CHOOSE t : Doubled(t, N)
  BY DEF Power, Doubled
<1>3. Doubled(Power, N)
  BY <1>1, <1>2, DoubledExist
<1>4. \A n \in 0 .. N : Power[n] = IF n = 0 THEN 1 ELSE 2 * Power[n - 1]
  BY <1>3 DEF Doubled
<1>5. ASSUME NEW n \in 0 .. N - 1 PROVE Power[n + 1] = 2 * Power[n]
  <2>1. n + 1 \in 0 .. N /\ n + 1 # 0 /\ n + 1 - 1 = n
    BY <1>1
  <2> QED BY <1>4, <2>1
<1>6. Power[0] = 1
  BY <1>1, <1>4
<1> QED BY <1>1, <1>5, <1>6

LEMMA PowersAre ==
    /\ \A n \in Exponents : Power[n] \in Nat \ {0}
    /\ \A j, k \in Exponents : j <= k => \E m \in Nat : Power[k] = Power[j] * m
<1>1. PICK N : N = MAX_EXPONENT + PRECISION
  OBVIOUS
<1>2. N \in Nat /\ Power[0] = 1 /\ \A n \in 0 .. N - 1 : Power[n + 1] = 2 * Power[n]
  BY <1>1, PowersDouble
<1>3. PICK good : good = { n \in 0 .. N : Power[n] \in Nat \ {0} }
  OBVIOUS
<1>4. 0 \in good
  BY <1>2, <1>3
<1>5. ASSUME NEW n \in 0 .. N - 1, n \in good PROVE n + 1 \in good
  <2>1. PICK x : x = Power[n]
    OBVIOUS
  <2>2. Power[n + 1] = 2 * x /\ x \in Nat /\ x # 0 /\ n + 1 \in 0 .. N
    BY <1>2, <1>3, <1>5, <2>1
  <2> QED BY <1>3, <2>2
<1>6. \A n \in 0 .. N : n \in good
  BY <1>2, <1>4, <1>5, Induction
<1>7. ASSUME NEW j \in 0 .. N, NEW k \in 0 .. N, j <= k
      PROVE  \E m \in Nat : Power[k] = Power[j] * m
  <2>1. PICK up : up = { d \in 0 .. N - j : \E m \in Nat : Power[j + d] = Power[j] * m }
    OBVIOUS
  <2>2. PICK x : x = Power[j]
    OBVIOUS
  <2>3. x \in Nat
    BY <1>3, <1>6, <1>7, <2>2
  <2>4. 0 \in up
    <3>1. j + 0 = j /\ 0 \in 0 .. N - j
      BY <1>2, <1>7
    <3>2. x * 1 = x
      BY <2>3
    <3>3. Power[j + 0] = Power[j] * 1
      BY <2>2, <3>1, <3>2
    <3> QED BY <2>1, <3>1, <3>3
  <2>5. ASSUME NEW d \in 0 .. N - j - 1, d \in up PROVE d + 1 \in up
    <3>1. PICK m \in Nat : Power[j + d] = x * m
      BY <2>1, <2>2, <2>5
    <3>2. j + d \in 0 .. N - 1 /\ j + (d + 1) = j + d + 1 /\ d + 1 \in 0 .. N - j
      BY <1>2, <1>7
    <3>3. Power[j + (d + 1)] = 2 * (x * m)
      BY <1>2, <3>1, <3>2
    <3>4. 2 * (x * m) = x * (2 * m) /\ 2 * m \in Nat
      BY <2>3
    <3> QED BY <2>1, <2>2, <3>2, <3>3, <3>4
  <2>6. N - j \in Nat /\ k - j \in 0 .. N - j /\ j + (k - j) = k
    BY <1>2, <1>7
  <2>7. \A d \in 0 .. N - j : d \in up
    BY <2>4, <2>5, <2>6, Induction
  <2> QED BY <2>1, <2>6, <2>7
<1> QED BY <1>1, <1>3, <1>6, <1>7 DEF Exponents

\* The nearest integer to the quotient.
Nearest(x, n) ==
    LET low == Abs(x) \div n
        rest == Abs(x) % n
        up == \/ 2 * rest > n
              \/ 2 * rest = n /\ low % 2 = 1
        nearest == IF up THEN low + 1 ELSE low
    IN IF x < 0 THEN -nearest ELSE nearest

\* Between the limits of what is averaged.
LEMMA NearestIsBetween ==
    ASSUME NEW x \in Int, NEW n \in Nat \ {0}, NEW a \in Int, NEW b \in Int,
           n * a <= x, x <= n * b
    PROVE  Nearest(x, n) \in Int /\ a <= Nearest(x, n) /\ Nearest(x, n) <= b
<1>1. PICK y, low, rest : y = Abs(x) /\ low = y \div n /\ rest = y % n
  OBVIOUS
<1>2. /\ y \in Nat /\ low \in Int /\ rest \in Int /\ 0 <= rest /\ rest < n
      /\ y = n * low + rest
  BY <1>1, AbsIs, Division
<1>3. PICK near : near = IF 2 * rest > n \/ (2 * rest = n /\ low % 2 = 1) THEN low + 1 ELSE low
  OBVIOUS
<1>4. /\ near \in Int /\ (near = low \/ near = low + 1)
      /\ rest = 0 => near = low
  BY <1>2, <1>3
<1>5. Nearest(x, n) = IF x < 0 THEN -near ELSE near
  BY <1>1, <1>3 DEF Nearest
<1>6. ASSUME NEW c \in Int, NEW d \in Int, n * c <= y, y <= n * d
      PROVE  c <= near /\ near <= d
  <2>1. CASE rest = 0
    <3>1. n * c <= n * low /\ n * low <= n * d /\ near = low
      BY <1>2, <1>4, <1>6, <2>1
    <3>2. c <= low
      BY <1>2, <3>1, TimesKeepOrder
    <3> QED BY <1>2, <3>1, <3>2, TimesKeepOrder
  <2>2. CASE rest # 0
    <3>1. n * low < n * d /\ n * c < n * (low + 1)
      BY <1>2, <1>6, <2>2, Products
    <3>2. low < d /\ c < low + 1
      BY <1>2, <3>1, Products
    <3> QED BY <1>2, <1>4, <3>2
  <2> QED BY <2>1, <2>2
<1>7. CASE x < 0
  <2>1. y = -x /\ n * (-b) <= y /\ y <= n * (-a)
    BY <1>1, <1>7, AbsIs, Products
  <2>2. -b <= near /\ near <= -a
    BY <1>6, <2>1
  <2>3. Nearest(x, n) = -near
    BY <1>5, <1>7
  <2> QED BY <1>4, <2>2, <2>3
<1>8. CASE ~(x < 0)
  <2>1. y = x
    BY <1>1, <1>8, AbsIs
  <2>2. a <= near /\ near <= b
    BY <1>6, <2>1
  <2>3. Nearest(x, n) = near
    BY <1>5, <1>8
  <2> QED BY <1>4, <2>2, <2>3
<1> QED BY <1>7, <1>8

\* Powers of the exponents that a float and its significand may have.
LEMMA PowerIs ==
    ASSUME NEW k \in 0 .. MAX_EXPONENT
    PROVE  /\ k \in Exponents /\ k + PRECISION \in Exponents
           /\ Power[k] \in Nat \ {0} /\ Power[k + PRECISION] \in Nat \ {0}
<1>1. k \in Exponents /\ k + PRECISION \in Exponents
  BY FloatsOK DEF Exponents
<1> QED BY <1>1, PowersAre

LEMMA PowerDivides ==
    ASSUME NEW j \in Exponents, NEW k \in Exponents, j <= k
    PROVE  /\ \E m \in Nat \ {0} : Power[k] = Power[j] * m
           /\ Power[j] <= Power[k]
<1>1. PICK p, q : p = Power[j] /\ q = Power[k]
  OBVIOUS
<1>2. p \in Nat \ {0} /\ q \in Nat \ {0}
  BY <1>1, PowersAre
<1>3. PICK m \in Nat : q = p * m
  BY <1>1, PowersAre
<1>4. m # 0
  BY <1>2, <1>3
<1>5. p * 1 <= p * m
  BY <1>2, <1>4, ProductsRise
<1> QED BY <1>1, <1>2, <1>3, <1>4, <1>5

\* Whether k is the exponent of the last bit of the float next to x / n.
Fits(x, n, k) == k = MAX_EXPONENT \/ Abs(x) < n * Power[k + PRECISION]

FirstFit(x, n, k) ==
    k \in 0 .. MAX_EXPONENT /\ Fits(x, n, k) /\ \A j \in 0 .. k - 1 : ~Fits(x, n, j)

LEMMA FirstFits ==
    ASSUME NEW x \in Int, NEW n \in Nat \ {0}
    PROVE  \E k : FirstFit(x, n, k)
<1>1. PICK S : S = { k \in 0 .. MAX_EXPONENT : Fits(x, n, k) }
  OBVIOUS
<1>2. S \in SUBSET (0 .. MAX_EXPONENT) /\ MAX_EXPONENT \in S
  BY <1>1, FloatsOK DEF Fits
<1>3. S \in SUBSET Int /\ IsFiniteSet(S) /\ S # {}
  <2>1. IsFiniteSet(0 .. MAX_EXPONENT)
    BY FloatsOK, FS_Interval
  <2>2. IsFiniteSet(S)
    BY <1>2, <2>1, FS_Subset
  <2> QED BY <1>2, <2>2
<1>4. PICK k \in S : \A j \in S : k <= j
  BY <1>3, Extremes
<1>5. k \in 0 .. MAX_EXPONENT /\ Fits(x, n, k)
  BY <1>1
<1>6. ASSUME NEW j \in 0 .. k - 1, Fits(x, n, j) PROVE FALSE
  <2>1. j \in 0 .. MAX_EXPONENT /\ j < k
    BY <1>5, FloatsOK
  <2>2. j \in S
    BY <1>1, <1>6, <2>1
  <2> QED BY <1>4, <1>5, <2>1, <2>2
<1> QED BY <1>5, <1>6 DEF FirstFit

LEMMA FirstFitIsOne ==
    ASSUME NEW x, NEW n, NEW j, NEW k, FirstFit(x, n, j), FirstFit(x, n, k)
    PROVE  j = k
<1>1. j \in Int /\ k \in Int /\ 0 <= j /\ 0 <= k
  BY FloatsOK DEF FirstFit
<1>2. ~(j \in 0 .. k - 1) /\ ~(k \in 0 .. j - 1)
  BY DEF FirstFit
<1> QED BY <1>1, <1>2

\* The float is so many times its last bit.
LEMMA RoundedByUlp ==
    ASSUME NEW x, NEW n
    PROVE  Rounded(x, n) = IF x < 0 THEN -(Near(x, n * Ulp(x, n)) * Ulp(x, n))
                           ELSE Near(x, n * Ulp(x, n)) * Ulp(x, n)
<1>1. PICK ulp : ulp = Ulp(x, n)
  OBVIOUS
<1>2. Rounded(x, n) = IF x < 0 THEN -(Near(x, n * ulp) * ulp) ELSE Near(x, n * ulp) * ulp
  BY <1>1 DEF Rounded
<1> QED BY <1>1, <1>2

\* The float is as many times its last bit as the quotient rounds to.
LEMMA RoundedAt ==
    ASSUME NEW x \in Int, NEW n \in Nat \ {0}, NEW k, FirstFit(x, n, k)
    PROVE  /\ n * Power[k] \in Nat \ {0} /\ Nearest(x, n * Power[k]) \in Int
           /\ Rounded(x, n) = Power[k] * Nearest(x, n * Power[k])
<1>1. PICK ulp : ulp = Ulp(x, n)
  OBVIOUS
<1>2. Rounded(x, n) = IF x < 0 THEN -(Near(x, n * ulp) * ulp) ELSE Near(x, n * ulp) * ulp
  BY <1>1, RoundedByUlp
<1>3. k \in 0 .. MAX_EXPONENT
  BY DEF FirstFit
<1>4. ulp = Power[k]
  <2> DEFINE first(i) == Fits(x, n, i) /\ \A j \in 0 .. i - 1 : ~Fits(x, n, j)
             k0 == CHOOSE i \in 0 .. MAX_EXPONENT : first(i)
  <2>1. \A i \in 0 .. MAX_EXPONENT : first(i) <=> FirstFit(x, n, i)
    BY DEF FirstFit
  <2>2. ulp = Power[k0]
    BY <1>1 DEF Ulp, Fits
  <2> HIDE DEF first
  <2>3. first(k) /\ \A i \in 0 .. MAX_EXPONENT : first(i) => i = k
    BY <1>3, <2>1, FirstFitIsOne
  <2>4. k0 = k
    BY <1>3, <2>3
  <2> HIDE DEF k0
  <2> QED BY <2>2, <2>4
<1>5. ulp \in Nat \ {0} /\ n * ulp \in Nat \ {0}
  BY <1>3, <1>4, PowerIs
<1>6. PICK m, a : m = n * ulp /\ a = Near(x, m)
  OBVIOUS
<1>7. a \in Int
  <2>1. Abs(x) \div m \in Int
    BY <1>5, <1>6, AbsIs
  <2> QED BY <1>6, <2>1 DEF Near
<1>8. Nearest(x, m) = IF x < 0 THEN -a ELSE a
  BY <1>6 DEF Nearest, Near
<1>9. a * ulp = ulp * a /\ -(a * ulp) = ulp * (-a)
  BY <1>5, <1>7, Products
<1>10. Rounded(x, n) = ulp * Nearest(x, m) /\ Nearest(x, m) \in Int
  BY <1>2, <1>6, <1>7, <1>8, <1>9
<1> QED BY <1>4, <1>5, <1>6, <1>10

\* A multiple of the last bit bounds what rounds to that bit.
LEMMA RoundedStaysOn ==
    ASSUME NEW x \in Int, NEW n \in Nat \ {0}, NEW k, FirstFit(x, n, k), NEW c \in Int
    PROVE  /\ Rounded(x, n) \in Int /\ Power[k] * c \in Int
           /\ x <= n * (Power[k] * c) => Rounded(x, n) <= Power[k] * c
           /\ n * (Power[k] * c) <= x => Power[k] * c <= Rounded(x, n)
<1>1. PICK p, m, y : p = Power[k] /\ m = n * p /\ y = Nearest(x, m)
  OBVIOUS
<1>2. p \in Nat \ {0} /\ m \in Nat \ {0} /\ y \in Int /\ Rounded(x, n) = p * y
  BY <1>1, RoundedAt, PowerIs DEF FirstFit
<1>3. p * c \in Int /\ n * (p * c) = m * c /\ p * y \in Int
  BY <1>1, <1>2
<1>4. ASSUME x <= m * c PROVE y <= c
  <2>1. \E a \in Int : m * a <= x /\ a <= x
    <3>1. PICK a : a = -Abs(x)
      OBVIOUS
    <3>2. a \in Int /\ a <= x /\ a <= 0 /\ -a \in Nat
      BY <3>1, AbsIs
    <3>3. (-a) * 1 <= (-a) * m
      BY <1>2, <3>2, ProductsRise
    <3>4. (-a) * 1 = -a /\ (-a) * m = m * (-a) /\ m * (-a) = -(m * a) /\ m * a \in Int
      BY <1>2, <3>2, Products
    <3> QED BY <3>2, <3>3, <3>4
  <2>2. PICK a \in Int : m * a <= x
    BY <2>1
  <2>3. Nearest(x, m) <= c
    BY <1>2, <1>4, <2>2, NearestIsBetween
  <2> QED BY <1>1, <2>3
<1>5. ASSUME m * c <= x PROVE c <= y
  <2>1. PICK b : b = Abs(x)
    OBVIOUS
  <2>2. b \in Nat /\ x <= b
    BY <2>1, AbsIs
  <2>3. b * 1 <= b * m /\ b * 1 = b /\ b * m = m * b /\ m * b \in Int
    BY <1>2, <2>2, ProductsRise
  <2>4. x <= m * b
    BY <2>2, <2>3
  <2>5. b \in Int
    BY <2>2
  <2>6. c <= Nearest(x, m)
    BY <1>2, <1>5, <2>4, <2>5, NearestIsBetween
  <2> QED BY <1>1, <2>6
<1>6. y <= c => p * y <= p * c
  BY <1>2, ProductsRise
<1>7. c <= y => p * c <= p * y
  BY <1>2, ProductsRise
<1> QED BY <1>1, <1>2, <1>3, <1>4, <1>5, <1>6, <1>7

LEMMA RoundedIsInt ==
    ASSUME NEW x \in Int, NEW n \in Nat \ {0}
    PROVE  Rounded(x, n) \in Int
<1>1. PICK k : FirstFit(x, n, k)
  BY FirstFits
<1> QED BY <1>1, RoundedStaysOn

\* No more bits than a float has, from the last one that a float may have.
Fl(x) == \E k \in 0 .. MAX_EXPONENT, a \in Int : x = Power[k] * a /\ Abs(x) < Power[k + PRECISION]

\* What is a float stays what it is.
LEMMA RoundedExact ==
    ASSUME NEW x, Fl(x), NEW n \in Nat \ {0}
    PROVE  x \in Int /\ Rounded(n * x, n) = x
<1>1. PICK l \in 0 .. MAX_EXPONENT, a \in Int : x = Power[l] * a /\ Abs(x) < Power[l + PRECISION]
  BY DEF Fl
<1>2. PICK q : q = Power[l + PRECISION]
  OBVIOUS
<1>3. x \in Int /\ q \in Nat /\ n * x \in Int
  BY <1>1, <1>2, PowerIs
<1>4. Abs(n * x) < n * q
  <2>1. Abs(x) \in Nat /\ Abs(n * x) = n * Abs(x)
    <3>1. CASE x < 0
      <4>1. n * (-x) = -(n * x) /\ n * (-x) >= n * 0 /\ n * 0 = 0
        BY <1>3, <3>1, Products, ProductsRise
      <4>2. Abs(x) = -x /\ -x \in Nat
        BY <1>3, <3>1 DEF Abs
      <4>3. Abs(n * x) = -(n * x)
        BY <1>3, <4>1 DEF Abs
      <4> QED BY <4>1, <4>2, <4>3
    <3>2. CASE x >= 0
      <4>1. n * x >= n * 0 /\ n * 0 = 0
        BY <1>3, <3>2, ProductsRise
      <4> QED BY <1>3, <3>2, <4>1 DEF Abs
    <3> QED BY <1>3, <3>1, <3>2
  <2>2. PICK y : y = Abs(x)
    OBVIOUS
  <2>3. y \in Nat /\ y + 1 <= q
    BY <1>1, <1>2, <1>3, <2>1, <2>2
  <2>4. n * (y + 1) <= n * q /\ n * (y + 1) = n * y + n /\ n * y \in Int /\ n * q \in Int
    BY <1>3, <2>3, ProductsRise, Products
  <2>5. n * y < n * q
    BY <2>4
  <2> QED BY <2>1, <2>2, <2>5
<1>5. PICK k : FirstFit(n * x, n, k)
  BY <1>3, FirstFits
<1>6. k \in 0 .. MAX_EXPONENT /\ k <= l
  <2>1. Fits(n * x, n, l)
    BY <1>2, <1>4 DEF Fits
  <2>2. k \in 0 .. MAX_EXPONENT /\ ~(l \in 0 .. k - 1)
    BY <1>5, <2>1 DEF FirstFit
  <2> QED BY <2>2, FloatsOK
<1>7. PICK m \in Nat : Power[l] = Power[k] * m
  BY <1>6, PowerIs, PowerDivides
<1>8. PICK p, c : p = Power[k] /\ c = m * a
  OBVIOUS
<1>9. p \in Nat /\ c \in Int /\ x = p * c
  <2>1. p \in Nat
    BY <1>6, <1>8, PowerIs
  <2>2. c \in Int /\ (p * m) * a = p * (m * a)
    BY <1>8, <2>1
  <2> QED BY <1>1, <1>7, <1>8, <2>1, <2>2
<1>10. PICK z : z = n * x
  OBVIOUS
<1>11. z \in Int /\ z <= n * (Power[k] * c) /\ n * (Power[k] * c) <= z /\ FirstFit(z, n, k)
  BY <1>3, <1>5, <1>8, <1>9, <1>10
<1>12. Rounded(z, n) \in Int /\ Rounded(z, n) <= Power[k] * c /\ Power[k] * c <= Rounded(z, n)
  BY <1>9, <1>11, RoundedStaysOn
<1> QED BY <1>3, <1>8, <1>9, <1>10, <1>12

LEMMA RoundedSame ==
    ASSUME NEW x, Fl(x)
    PROVE  x \in Int /\ Rounded(x, 1) = x
<1>1. x \in Int /\ Rounded(1 * x, 1) = x
  BY RoundedExact
<1>2. 1 * x = x
  BY <1>1
<1> QED BY <1>1, <1>2

LEMMA ZeroAndOneAreFloats == Fl(0) /\ Fl(1)
<1>1. 0 \in 0 .. MAX_EXPONENT
  BY FloatsOK
<1>2. Power[0] = 1
  BY PowersDouble
<1>3. Power[0 + PRECISION] \in Nat /\ Power[0 + PRECISION] > 1
  <2>1. PICK N : N = MAX_EXPONENT + PRECISION
    OBVIOUS
  <2>2. 0 \in 0 .. N - 1 /\ 1 \in Exponents /\ 0 + PRECISION \in Exponents /\ 1 <= 0 + PRECISION
    BY <2>1, FloatsOK DEF Exponents
  <2>3. Power[0 + 1] = 2 * Power[0]
    BY <2>1, <2>2, PowersDouble
  <2>4. Power[1] = 2
    BY <1>2, <2>3
  <2>5. Power[1] <= Power[0 + PRECISION]
    BY <2>2, PowerDivides
  <2> QED BY <1>1, <2>4, <2>5, PowerIs
<1>4. 0 = Power[0] * 0 /\ 1 = Power[0] * 1 /\ Abs(0) = 0 /\ Abs(1) = 1
  BY <1>2 DEF Abs
<1> QED BY <1>1, <1>3, <1>4 DEF Fl

\* Mirrored, the same bits are kept.
LEMMA RoundedMirrors ==
    ASSUME NEW x \in Int, NEW n \in Nat \ {0}
    PROVE  Rounded(-x, n) = -Rounded(x, n)
<1>1. Abs(-x) = Abs(x)
  BY DEF Abs
<1>2. PICK k : FirstFit(x, n, k)
  BY FirstFits
<1>3. FirstFit(-x, n, k)
  BY <1>1, <1>2 DEF FirstFit, Fits
<1>4. PICK p, m : p = Power[k] /\ m = n * p
  OBVIOUS
<1>5. p \in Nat \ {0} /\ m \in Nat \ {0}
  BY <1>2, <1>4, RoundedAt, PowerIs DEF FirstFit
<1>6. /\ Nearest(x, m) \in Int /\ Rounded(x, n) = p * Nearest(x, m)
      /\ Rounded(-x, n) = p * Nearest(-x, m)
  BY <1>2, <1>3, <1>4, RoundedAt
<1>7. Nearest(-x, m) = -Nearest(x, m)
  <2> DEFINE low == Abs(x) \div m
             rest == Abs(x) % m
             near == IF 2 * rest > m \/ (2 * rest = m /\ low % 2 = 1) THEN low + 1 ELSE low
  <2>1. Nearest(x, m) = (IF x < 0 THEN -near ELSE near)
    BY DEF Nearest
  <2>2. Nearest(-x, m) = (IF -x < 0 THEN -near ELSE near)
    BY <1>1 DEF Nearest
  <2>3. near \in Int
    <3>1. low \in Int
      BY <1>5, AbsIs
    <3> QED BY <3>1
  <2>4. x = 0 => near = 0
    <3>1. ASSUME x = 0 PROVE low = 0 /\ rest = 0
      <4>1. Abs(x) = 0
        BY <3>1 DEF Abs
      <4> QED BY <1>5, <4>1
    <3> QED BY <1>5, <3>1
  <2> HIDE DEF near
  <2> QED BY <2>1, <2>2, <2>3, <2>4
<1> QED BY <1>5, <1>6, <1>7, Products

\* The two sides of a power of two between floats of different last bits.
LEMMA RoundedCrosses ==
    ASSUME NEW x \in Int, NEW y \in Int, NEW n \in Nat \ {0}, 0 <= x, 0 <= y,
           NEW j, NEW k, FirstFit(x, n, j), FirstFit(y, n, k), j < k
    PROVE  Rounded(x, n) <= Rounded(y, n)
<1>1. j \in 0 .. MAX_EXPONENT /\ k \in 0 .. MAX_EXPONENT /\ k - 1 \in 0 .. MAX_EXPONENT
  BY FloatsOK DEF FirstFit
<1>2. PICK q, r, s, t : /\ q = Power[j + PRECISION] /\ r = Power[k - 1 + PRECISION]
                        /\ s = Power[j] /\ t = Power[k]
  OBVIOUS
<1>3. q \in Nat /\ r \in Nat /\ s \in Nat /\ t \in Nat
  BY <1>1, <1>2, PowerIs
<1>4. x < n * q
  <2>1. Fits(x, n, j) /\ j # MAX_EXPONENT
    BY <1>1 DEF FirstFit
  <2>2. Abs(x) = x
    BY AbsIs
  <2> QED BY <1>2, <2>1, <2>2 DEF Fits
<1>5. n * r <= y
  <2>1. ~Fits(y, n, k - 1)
    BY <1>1 DEF FirstFit
  <2>2. Abs(y) = y
    BY AbsIs
  <2>3. ~(y < n * r) /\ n * r \in Int
    BY <1>2, <1>3, <2>1, <2>2 DEF Fits
  <2> QED BY <2>3
<1>6. q <= r
  <2>1. j + PRECISION <= k - 1 + PRECISION
    BY <1>1, FloatsOK
  <2> QED BY <1>1, <1>2, <2>1, PowerIs, PowerDivides
<1>7. PICK c \in Nat : q = s * c
  <2>1. j <= j + PRECISION
    BY <1>1, FloatsOK
  <2> QED BY <1>1, <1>2, <2>1, PowerIs, PowerDivides
<1>8. PICK d \in Nat : r = t * d
  <2>1. k <= k - 1 + PRECISION /\ k - 1 + PRECISION \in Exponents /\ k \in Exponents
    BY <1>1, FloatsOK DEF Exponents
  <2> QED BY <1>2, <2>1, PowerDivides
<1>9. Rounded(x, n) \in Int /\ Rounded(x, n) <= q
  <2>1. x <= n * (s * c)
    BY <1>3, <1>4, <1>7
  <2> QED BY <1>2, <1>7, <2>1, RoundedStaysOn
<1>10. Rounded(y, n) \in Int /\ r <= Rounded(y, n)
  <2>1. n * (t * d) <= y
    BY <1>5, <1>8
  <2> QED BY <1>2, <1>8, <2>1, RoundedStaysOn
<1> QED BY <1>3, <1>6, <1>9, <1>10

LEMMA NearestRises ==
    ASSUME NEW x \in Int, NEW y \in Int, NEW n \in Nat \ {0}, 0 <= x, x <= y
    PROVE  Nearest(x, n) <= Nearest(y, n)
<1>1. PICK a, b, c, d : a = x \div n /\ b = x % n /\ c = y \div n /\ d = y % n
  OBVIOUS
<1>2. a \in Int /\ b \in Int /\ 0 <= b /\ b < n /\ x = n * a + b
  BY <1>1, Division
<1>3. c \in Int /\ d \in Int /\ 0 <= d /\ d < n /\ y = n * c + d
  BY <1>1, Division
<1>4. Abs(x) = x /\ Abs(y) = y
  BY DEF Abs
<1>5. Nearest(x, n) = IF 2 * b > n \/ (2 * b = n /\ a % 2 = 1) THEN a + 1 ELSE a
  BY <1>1, <1>4 DEF Nearest
<1>6. Nearest(y, n) = IF 2 * d > n \/ (2 * d = n /\ c % 2 = 1) THEN c + 1 ELSE c
  BY <1>1, <1>4 DEF Nearest
<1>7. a <= c
  <2>1. n * a < n * (c + 1)
    BY <1>2, <1>3, Products
  <2>2. a < c + 1
    BY <1>2, <1>3, <2>1, Products
  <2> QED BY <1>2, <1>3, <2>2
<1>8. CASE a = c
  <2>1. b <= d
    <3>1. n * a = n * c /\ n * a \in Int
      BY <1>2, <1>8
    <3> QED BY <1>2, <1>3, <3>1
  <2> QED BY <1>2, <1>3, <1>5, <1>6, <1>8, <2>1
<1>9. CASE a < c
  BY <1>2, <1>3, <1>5, <1>6, <1>9
<1> QED BY <1>2, <1>3, <1>7, <1>8, <1>9

\* What is not less rounds to what is not less.
LEMMA RoundedRises ==
    ASSUME NEW x \in Int, NEW y \in Int, x <= y, NEW n \in Nat \ {0}
    PROVE  Rounded(x, n) <= Rounded(y, n)
<1>1. ASSUME NEW a \in Int, NEW b \in Int, 0 <= a, a <= b
      PROVE  Rounded(a, n) <= Rounded(b, n)
  <2>1. PICK j, k : FirstFit(a, n, j) /\ FirstFit(b, n, k)
    BY FirstFits
  <2>2. j \in 0 .. MAX_EXPONENT /\ k \in 0 .. MAX_EXPONENT
    BY <2>1 DEF FirstFit
  <2>3. j <= k
    <3> SUFFICES ASSUME k < j PROVE FALSE
      BY <2>2
    <3>1. k \in 0 .. j - 1 /\ k # MAX_EXPONENT
      BY <2>2
    <3>2. ~Fits(a, n, k) /\ Fits(b, n, k)
      BY <2>1, <3>1 DEF FirstFit
    <3>3. Abs(a) = a /\ Abs(b) = b
      BY <1>1, AbsIs
    <3>4. PICK q : q = n * Power[k + PRECISION]
      OBVIOUS
    <3>5. q \in Int
      BY <2>2, <3>4, PowerIs
    <3>6. ~(a < q) /\ b < q
      BY <3>1, <3>2, <3>3, <3>4 DEF Fits
    <3> QED BY <1>1, <3>5, <3>6
  <2>4. CASE j < k
    BY <1>1, <2>1, <2>4, RoundedCrosses
  <2>5. CASE j = k
    <3>1. PICK p, m : p = Power[k] /\ m = n * p
      OBVIOUS
    <3>2. /\ p \in Nat /\ m \in Nat \ {0} /\ Nearest(a, m) \in Int /\ Nearest(b, m) \in Int
          /\ Rounded(a, n) = p * Nearest(a, m) /\ Rounded(b, n) = p * Nearest(b, m)
      BY <2>1, <2>2, <2>5, <3>1, RoundedAt, PowerIs
    <3>3. Nearest(a, m) <= Nearest(b, m)
      BY <1>1, <3>2, NearestRises
    <3> QED BY <3>2, <3>3, ProductsRise
  <2> QED BY <2>2, <2>3, <2>4, <2>5
<1>2. Rounded(0, n) = 0
  <2>1. n * 0 = 0
    OBVIOUS
  <2> QED BY <2>1, ZeroAndOneAreFloats, RoundedExact
<1>3. Rounded(x, n) \in Int /\ Rounded(y, n) \in Int
  BY RoundedIsInt
<1>4. CASE 0 <= x
  BY <1>1, <1>4
<1>5. CASE x < 0 /\ 0 <= y
  <2>1. Rounded(0, n) <= Rounded(-x, n) /\ Rounded(0, n) <= Rounded(y, n)
    BY <1>1, <1>5
  <2>2. Rounded(-x, n) = -Rounded(x, n)
    BY RoundedMirrors
  <2> QED BY <1>2, <1>3, <2>1, <2>2
<1>6. CASE y < 0
  <2>1. Rounded(-y, n) <= Rounded(-x, n)
    BY <1>1, <1>6
  <2>2. Rounded(-y, n) = -Rounded(y, n) /\ Rounded(-x, n) = -Rounded(x, n)
    BY RoundedMirrors
  <2> QED BY <1>3, <2>1, <2>2
<1> QED BY <1>4, <1>5, <1>6

\* A float bounds what it bounds before it is rounded.
LEMMA RoundedWithin ==
    ASSUME NEW x \in Int, NEW n \in Nat \ {0}, NEW z, Fl(z)
    PROVE  /\ z \in Int /\ n * z \in Int
           /\ x <= n * z => Rounded(x, n) <= z
           /\ n * z <= x => z <= Rounded(x, n)
<1>1. z \in Int /\ Rounded(n * z, n) = z
  BY RoundedExact
<1>2. n * z \in Int
  BY <1>1
<1>3. PICK w : w = n * z
  OBVIOUS
<1>4. x <= w => Rounded(x, n) <= Rounded(w, n)
  BY <1>2, <1>3, RoundedRises
<1>5. w <= x => Rounded(w, n) <= Rounded(x, n)
  BY <1>2, <1>3, RoundedRises
<1> QED BY <1>1, <1>2, <1>3, <1>4, <1>5

\* The sign of a number is not rounded away.
LEMMA RoundedSign ==
    ASSUME NEW x \in Int, NEW n \in Nat \ {0}
    PROVE  Rounded(0, n) = 0 /\ (0 <= x => Rounded(x, n) \in Nat)
<1>1. n * 0 = 0
  OBVIOUS
<1>2. Rounded(0, n) = 0
  BY <1>1, ZeroAndOneAreFloats, RoundedExact
<1>3. 0 <= x => 0 <= Rounded(x, n)
  BY <1>1, ZeroAndOneAreFloats, RoundedWithin
<1> QED BY <1>2, <1>3, RoundedIsInt

LEMMA MaxFloatIs ==
    /\ MAX_FLOAT \in Nat /\ MAX_FLOAT < Power[MAX_EXPONENT + PRECISION]
    /\ Overflow \in Nat /\ ~Finite(Overflow) /\ Finite(0)
<1>1. PICK p, q : p = Power[MAX_EXPONENT] /\ q = Power[MAX_EXPONENT + PRECISION]
  OBVIOUS
<1>2. MAX_EXPONENT \in 0 .. MAX_EXPONENT /\ MAX_EXPONENT <= MAX_EXPONENT + PRECISION
  BY FloatsOK
<1>3. p \in Nat \ {0} /\ q \in Nat \ {0} /\ p <= q
  BY <1>1, <1>2, PowerIs, PowerDivides
<1>4. MAX_FLOAT \in Nat /\ MAX_FLOAT < q
  BY <1>1, <1>3 DEF MAX_FLOAT
<1>5. Overflow \in Nat /\ Overflow = MAX_FLOAT + 1
  BY <1>4 DEF Overflow
<1> HIDE DEF MAX_FLOAT, Overflow
<1> QED BY <1>1, <1>4, <1>5 DEF Finite, Abs

\* A cell that is a number holds a float.
LEMMA FloatIs ==
    ASSUME NEW x \in Float
    PROVE  x \in Int /\ Finite(x) /\ Fl(x)
<1>1. x \in Int /\ Finite(x) /\ Rounded(x, 1) = x
  BY DEF Float
<1>2. PICK k : FirstFit(x, 1, k)
  BY <1>1, FirstFits
<1>3. k \in 0 .. MAX_EXPONENT
  BY <1>2 DEF FirstFit
<1>4. PICK a \in Int : x = Power[k] * a
  BY <1>1, <1>2, RoundedAt
<1>5. Abs(x) < Power[k + PRECISION]
  <2>1. CASE k = MAX_EXPONENT
    <3>1. PICK y, z, q : y = Abs(x) /\ z = MAX_FLOAT /\ q = Power[MAX_EXPONENT + PRECISION]
      OBVIOUS
    <3>2. y \in Nat /\ y <= z
      BY <1>1, <3>1, AbsIs DEF Finite
    <3>3. z \in Nat /\ z < q /\ q \in Nat
      BY <1>3, <2>1, <3>1, MaxFloatIs, PowerIs
    <3> QED BY <2>1, <3>1, <3>2, <3>3
  <2>2. CASE k # MAX_EXPONENT
    <3>1. Abs(x) < 1 * Power[k + PRECISION]
      BY <1>2, <2>2 DEF FirstFit, Fits
    <3> QED BY <1>3, <3>1, PowerIs
  <2> QED BY <2>1, <2>2
<1> QED BY <1>1, <1>3, <1>4, <1>5 DEF Fl

LEMMA FloatMirrors ==
    ASSUME NEW x \in Int
    PROVE  /\ Abs(-x) = Abs(x) /\ (Finite(-x) <=> Finite(x))
           /\ Fl(-x) => Fl(x)
<1>1. Abs(-x) = Abs(x)
  BY DEF Abs
<1>2. ASSUME Fl(-x) PROVE Fl(x)
  <2>1. PICK k \in 0 .. MAX_EXPONENT, a \in Int : -x = Power[k] * a /\ Abs(-x) < Power[k + PRECISION]
    BY <1>2 DEF Fl
  <2>2. PICK p : p = Power[k]
    OBVIOUS
  <2>3. p \in Nat \ {0}
    BY <2>2, PowerIs
  <2>4. p * a \in Int /\ p * (-a) = -(p * a) /\ -a \in Int
    BY <2>3, Products
  <2>5. x = p * (-a)
    BY <2>1, <2>2, <2>4
  <2> QED BY <1>1, <2>1, <2>2, <2>4, <2>5 DEF Fl
<1> QED BY <1>1, <1>2 DEF Finite

\* What is finite when it is rounded is a float.
LEMMA RoundedIsFloat ==
    ASSUME NEW x \in Int, NEW n \in Nat \ {0}, Finite(Rounded(x, n))
    PROVE  Fl(Rounded(x, n))
<1>1. ASSUME NEW y \in Int, 0 <= y, Finite(Rounded(y, n)) PROVE Fl(Rounded(y, n))
  <2>1. PICK k : FirstFit(y, n, k)
    BY FirstFits
  <2>2. k \in 0 .. MAX_EXPONENT
    BY <2>1 DEF FirstFit
  <2>3. PICK p, q, z : p = Power[k] /\ q = Power[k + PRECISION] /\ z = Rounded(y, n)
    OBVIOUS
  <2>4. p \in Nat \ {0} /\ q \in Nat \ {0} /\ k <= k + PRECISION
    BY <2>2, <2>3, PowerIs, FloatsOK
  <2>5. PICK a \in Int : z = p * a
    BY <2>1, <2>3, RoundedAt
  <2>6. z \in Nat /\ Abs(z) = z
    <3>1. z \in Nat
      BY <1>1, <2>3, RoundedSign
    <3> QED BY <3>1, AbsIs
  <2>7. CASE z < q
    BY <2>2, <2>3, <2>5, <2>6, <2>7 DEF Fl
  <2>8. CASE ~(z < q)
    <3>1. k # MAX_EXPONENT
      <4>1. z <= MAX_FLOAT
        BY <1>1, <2>3, <2>6 DEF Finite
      <4>2. MAX_FLOAT \in Nat /\ MAX_FLOAT < Power[MAX_EXPONENT + PRECISION]
        BY MaxFloatIs
      <4> HIDE DEF MAX_FLOAT
      <4> QED BY <2>3, <2>4, <2>6, <2>8, <4>1, <4>2
    <3>2. k + 1 \in 0 .. MAX_EXPONENT /\ k + 1 \in Exponents /\ k + PRECISION \in Exponents
          /\ k + 1 <= k + PRECISION /\ k \in Exponents
      BY <2>2, <3>1, FloatsOK DEF Exponents
    <3>3. PICK m \in Nat : q = Power[k + 1] * m
      BY <2>3, <3>2, PowerDivides
    <3>4. PICK d \in Nat : q = p * d
      BY <2>3, <2>4, <3>2, PowerDivides
    <3>5. y < n * q
      <4>1. Abs(y) = y
        BY <1>1, AbsIs
      <4> QED BY <2>1, <2>3, <3>1, <4>1 DEF FirstFit, Fits
    <3>6. z <= q
      <4>1. n * (p * d) \in Int /\ y <= n * (p * d)
        BY <2>4, <3>4, <3>5
      <4> QED BY <2>1, <2>3, <3>4, <4>1, RoundedStaysOn
    <3>7. z = q
      BY <2>4, <2>6, <2>8, <3>6
    <3>8. q < Power[k + 1 + PRECISION]
      <4>1. PICK N : N = MAX_EXPONENT + PRECISION
        OBVIOUS
      <4>2. k + PRECISION \in 0 .. N - 1 /\ k + PRECISION + 1 = k + 1 + PRECISION
        BY <2>2, <3>1, <4>1, FloatsOK
      <4>3. Power[k + 1 + PRECISION] = 2 * q
        BY <2>3, <4>1, <4>2, PowersDouble
      <4> QED BY <2>4, <4>3
    <3> QED BY <2>3, <2>6, <3>2, <3>3, <3>7, <3>8 DEF Fl
  <2> QED BY <2>7, <2>8
<1>2. CASE 0 <= x
  BY <1>1, <1>2
<1>3. CASE x < 0
  <2>1. PICK y, z : y = -x /\ z = Rounded(x, n)
    OBVIOUS
  <2>2. y \in Int /\ 0 <= y /\ z \in Int /\ Rounded(y, n) = -z
    BY <1>3, <2>1, RoundedIsInt, RoundedMirrors
  <2>3. Finite(-z)
    BY <2>1, <2>2 DEF Finite, Abs
  <2>4. Fl(-z)
    BY <1>1, <2>2, <2>3
  <2> QED BY <2>1, <2>2, <2>4, FloatMirrors
<1> QED BY <1>2, <1>3

\* A third of the way, or two, from one float to another: the step that is added
\* is rounded twice, but is never longer than the way.
LEMMA StepFits ==
    ASSUME NEW w \in Nat, NEW d, d = Rounded(w, 1), Finite(d), NEW r \in 0 .. 3
    PROVE  d \in Nat /\ d * r \in Nat /\ Rounded(d * r, 4) \in Nat /\ Rounded(d * r, 4) <= w
<1>1. d \in Nat /\ Fl(d)
  BY RoundedSign, RoundedIsFloat
<1>2. d * r \in Nat /\ d * r <= d * 3 /\ d * 3 \in Nat
  <2>1. d * 3 \in Nat /\ d * r \in Nat
    BY <1>1
  <2>2. d * r <= d * 3
    BY <1>1, ProductsRise
  <2> QED BY <2>1, <2>2
<1>3. PICK z : z = Rounded(d * r, 4)
  OBVIOUS
<1>4. z \in Nat
  BY <1>2, <1>3, RoundedSign
<1>5. CASE d <= w
  <2>1. d * r <= 4 * d
    BY <1>1, <1>2
  <2>2. z <= d
    BY <1>1, <1>2, <1>3, <2>1, RoundedWithin
  <2> QED BY <1>1, <1>2, <1>3, <1>4, <1>5, <2>2
<1>6. CASE w < d
  <2>1. PICK k : FirstFit(w, 1, k)
    BY FirstFits
  <2>2. k \in 0 .. MAX_EXPONENT
    BY <2>1 DEF FirstFit
  <2>3. PICK u : u = Power[k]
    OBVIOUS
  <2>4. u \in Nat \ {0} /\ 1 * u = u
    BY <2>2, <2>3, PowerIs
  <2>5. PICK low, rest : low = w \div u /\ rest = w % u
    OBVIOUS
  <2>6. low \in Int /\ rest \in Int /\ 0 <= rest /\ rest < u /\ w = u * low + rest
    <3>1. u \in Nat \ {0}
      BY <2>4
    <3>2. low \in Int /\ rest \in Int
      BY <3>1, <2>5
    <3>3. 0 <= rest /\ rest < u
      BY <3>1, <2>5
    <3>4. w = u * low + rest
      BY <3>1, <2>5
    <3> QED BY <3>2, <3>3, <3>4
  <2>7. d = u * Nearest(w, u)
    BY <2>1, <2>3, <2>4, RoundedAt
  <2>8. Nearest(w, u) \in {low, low + 1} /\ (rest = 0 => Nearest(w, u) = low)
    <3>1. Abs(w) = w /\ ~(w < 0)
      BY AbsIs
    <3>2. Nearest(w, u) = IF 2 * rest > u \/ (2 * rest = u /\ low % 2 = 1) THEN low + 1 ELSE low
      BY <2>5, <3>1 DEF Nearest
    <3> QED BY <2>4, <2>6, <3>2
  <2>9. u * low \in Int /\ u * (low + 1) = u * low + u
    BY <2>4, <2>6, Products
  <2>10. d = u * low + u /\ rest # 0
    <3>1. PICK y : y = Nearest(w, u)
      OBVIOUS
    <3>2. y = low \/ (y = low + 1 /\ rest # 0)
      BY <2>8, <3>1
    <3>3. y # low
      BY <1>1, <1>6, <2>4, <2>6, <2>7, <2>9, <3>1
    <3> QED BY <2>7, <2>9, <3>1, <3>2, <3>3
  <2>11. k # 0
    <3>1. ASSUME k = 0 PROVE FALSE
      <4>1. u = 1
        BY <2>3, <3>1, PowersDouble
      <4> QED BY <2>6, <2>10, <4>1
    <3> QED BY <3>1
  <2>12. 4 * u <= w
    <3>1. PICK N : N = MAX_EXPONENT + PRECISION
      OBVIOUS
    <3>2. /\ k \in 0 .. N - 1 /\ k + 1 \in 0 .. N - 1 /\ k + 1 + 1 = k + 2
          /\ k + 2 <= k - 1 + PRECISION /\ k + 2 \in Exponents /\ k - 1 + PRECISION \in Exponents
          /\ k - 1 \in 0 .. k - 1 /\ k - 1 # MAX_EXPONENT
      BY <2>2, <2>11, <3>1, FloatsOK DEF Exponents
    <3>3. Power[k + 2] = 4 * u
      <4>1. Power[k + 1] = 2 * u
        BY <2>3, <3>1, <3>2, PowersDouble
      <4>2. Power[k + 2] = 2 * Power[k + 1]
        BY <3>1, <3>2, PowersDouble
      <4> QED BY <2>4, <4>1, <4>2
    <3>4. PICK q : q = Power[k - 1 + PRECISION]
      OBVIOUS
    <3>5. 4 * u <= q /\ q \in Nat
      BY <3>2, <3>3, <3>4, PowerDivides, PowersAre
    <3>6. ~Fits(w, 1, k - 1)
      BY <2>1, <3>2 DEF FirstFit
    <3>7. ~(w < 1 * q)
      <4>1. Abs(w) = w
        BY AbsIs
      <4> QED BY <3>2, <3>4, <3>6, <4>1 DEF Fits
    <3> QED BY <2>4, <3>5, <3>7
  <2>13. low >= 3
    <3>1. u * 4 < u * (low + 1)
      BY <2>4, <2>6, <2>9, <2>12
    <3>2. 4 < low + 1
      BY <2>4, <2>6, <3>1, Products
    <3> QED BY <2>6, <3>2
  <2>14. PICK g : g = u * low
    OBVIOUS
  <2>15. g \in Nat /\ g <= w /\ g < d /\ u * 3 <= g
    <3>1. u * 3 <= u * low
      BY <2>4, <2>6, <2>13, ProductsRise
    <3> QED BY <2>4, <2>6, <2>9, <2>10, <2>14, <3>1
  <2>16. Fl(g)
    <3>1. PICK q : q = Power[k + PRECISION]
      OBVIOUS
    <3>2. q \in Nat
      BY <2>2, <3>1, PowerIs
    <3>3. g < q
      <4>1. CASE k = MAX_EXPONENT
        <5>1. Abs(d) = d
          BY <1>1, AbsIs
        <5>2. PICK top : top = MAX_FLOAT
          OBVIOUS
        <5>3. d <= top /\ top \in Nat /\ top < q
          BY <3>1, <4>1, <5>1, <5>2, MaxFloatIs DEF Finite
        <5> QED BY <1>1, <2>15, <3>2, <5>3
      <4>2. CASE k # MAX_EXPONENT
        <5>1. Abs(w) = w
          BY AbsIs
        <5>2. w < 1 * q
          BY <2>1, <3>1, <4>2, <5>1 DEF FirstFit, Fits
        <5> QED BY <2>15, <3>2, <5>2
      <4> QED BY <4>1, <4>2
    <3>4. Abs(g) = g
      BY <2>15, AbsIs
    <3> QED BY <2>2, <2>3, <2>6, <2>14, <3>1, <3>3, <3>4 DEF Fl
  <2>17. d * r <= 4 * g
    BY <1>1, <1>2, <2>4, <2>6, <2>9, <2>10, <2>14, <2>15
  <2>18. z <= g
    BY <1>2, <1>3, <2>16, <2>17, RoundedWithin
  <2> QED BY <1>1, <1>2, <1>3, <1>4, <2>15, <2>18
<1> QED BY <1>1, <1>5, <1>6

-----------------------------------------------------------------------------
(* Medians, quartiles and scales *)

LEMMA Middle ==
    ASSUME NEW c \in Nat, c # 0
    PROVE  /\ (c + 1) \div 2 \in 1 .. c /\ c \div 2 + 1 \in 1 .. c
           /\ c + 1 - ((c + 1) \div 2) = c \div 2 + 1
           /\ c + 1 - (c \div 2 + 1) = (c + 1) \div 2
  OBVIOUS

LEMMA Quarters ==
    ASSUME NEW c \in Nat, c # 0, NEW m, m = c - 1
    PROVE  /\ m \div 4 + 1 \in 1 .. c /\ (m + 3) \div 4 + 1 \in 1 .. c
           /\ (3 * m) \div 4 + 1 \in 1 .. c /\ (3 * m + 3) \div 4 + 1 \in 1 .. c
           /\ c + 1 - (m \div 4 + 1) = (3 * m + 3) \div 4 + 1
           /\ c + 1 - ((m + 3) \div 4 + 1) = (3 * m) \div 4 + 1
           /\ c + 1 - ((3 * m) \div 4 + 1) = (m + 3) \div 4 + 1
           /\ c + 1 - ((3 * m + 3) \div 4 + 1) = m \div 4 + 1
  OBVIOUS

LEMMA CountIs ==
    ASSUME NEW f, Measured(f), DOMAIN f # {}
    PROVE  Cardinality(DOMAIN f) \in Nat /\ Cardinality(DOMAIN f) # 0
  BY FS_CardinalityType, FS_EmptySet DEF Measured

LEMMA RoundedAboveOne ==
    ASSUME NEW x \in Int, NEW n \in Nat \ {0}, n <= x
    PROVE  Rounded(x, n) \in Nat \ {0}
<1>1. n * 1 = n
  OBVIOUS
<1>2. 1 <= Rounded(x, n)
  BY <1>1, ZeroAndOneAreFloats, RoundedWithin
<1>3. Rounded(x, n) \in Int
  BY RoundedIsInt
<1> QED BY <1>2, <1>3

\* 1.0, 1.4826, 1.349 and 3.5 are positive.
LEMMA UnitsArePositive ==
    /\ UNIT \in Nat \ {0}
    /\ MAD_NORMALIZATION \in Nat /\ IQR_NORMALIZATION \in Nat \ {0}
    /\ ROBUST_SCORE_THRESHOLD \in Nat \ {0}
<1>1. UNIT \in Nat \ {0}
  BY HistoryOK, PowerIs
<1>2. PICK unit \in Nat \ {0} : unit = UNIT
  BY <1>1
<1>3. /\ 14826 * unit \in Int /\ 1349 * unit \in Int /\ 7 * unit \in Int
      /\ 10000 <= 14826 * unit /\ 1000 <= 1349 * unit /\ 2 <= 7 * unit
  OBVIOUS
<1>4. Rounded(14826 * unit, 10000) \in Nat
  BY <1>3, RoundedAboveOne
<1>5. Rounded(1349 * unit, 1000) \in Nat \ {0}
  BY <1>3, RoundedAboveOne
<1>6. Rounded(7 * unit, 2) \in Nat \ {0}
  BY <1>3, RoundedAboveOne
<1> QED BY <1>1, <1>2, <1>4, <1>5, <1>6
      DEF MAD_NORMALIZATION, IQR_NORMALIZATION, ROBUST_SCORE_THRESHOLD

\* The median spelled out: j and k are the middle positions, or k is.
MedianOf(low, high, odd) ==
    IF odd THEN high
    ELSE IF Finite(Rounded(low + high, 1)) THEN Rounded(Rounded(low + high, 1), 2) ELSE Overflow

LEMMA MedianSpelledOut ==
    ASSUME NEW f, Measured(f), DOMAIN f # {}, NEW c, c = Cardinality(DOMAIN f)
    PROVE  /\ c \in Nat /\ c # 0
           /\ c \div 2 + 1 \in 1 .. c
           /\ c % 2 # 1 => c \div 2 \in 1 .. c /\ c + 1 - (c \div 2 + 1) = c \div 2
           /\ c % 2 = 1 => c + 1 - (c \div 2 + 1) = c \div 2 + 1
           /\ Median(f) = MedianOf(Smallest(f, c \div 2), Smallest(f, c \div 2 + 1), c % 2 = 1)
<1>1. c \in Nat /\ c # 0
  BY CountIs
<1>2. Median(f) = MedianOf(Smallest(f, c \div 2), Smallest(f, c \div 2 + 1), c % 2 = 1)
  BY DEF Median, MedianOf, Half
<1> QED BY <1>1, <1>2

LEMMA MedianOfMirrors ==
    ASSUME NEW low \in Int, NEW high \in Int, NEW odd \in BOOLEAN
    PROVE  /\ MedianOf(low, high, odd) \in Int
           /\ 0 <= low /\ 0 <= high => MedianOf(low, high, odd) \in Nat
           /\ Finite(MedianOf(low, high, odd)) =>
                 MedianOf(-low, -high, odd) = -MedianOf(low, high, odd)
           /\ ~odd => MedianOf(-high, -low, odd) = MedianOf(-low, -high, odd)
<1>1. PICK s : s = Rounded(low + high, 1)
  OBVIOUS
<1>2. s \in Int /\ Rounded(s, 2) \in Int /\ Rounded(-s, 2) = -Rounded(s, 2)
  BY <1>1, RoundedIsInt, RoundedMirrors
<1>3. Rounded((-low) + (-high), 1) = -s
  <2>1. (-low) + (-high) = -(low + high) /\ low + high \in Int
    OBVIOUS
  <2> QED BY <1>1, <2>1, RoundedMirrors
<1>4. 0 <= low /\ 0 <= high => s \in Nat /\ Rounded(s, 2) \in Nat
  <2>1. ASSUME 0 <= low, 0 <= high PROVE s \in Nat
    BY <1>1, <2>1, RoundedSign
  <2>2. s \in Nat => Rounded(s, 2) \in Nat
    BY RoundedSign
  <2> QED BY <2>1, <2>2
<1>5. Finite(-s) <=> Finite(s)
  BY <1>2, FloatMirrors
<1>6. (-low) + (-high) = (-high) + (-low)
  OBVIOUS
<1>7. Overflow \in Nat /\ ~Finite(Overflow)
  BY MaxFloatIs
<1>8. MedianOf(low, high, odd) = IF odd THEN high ELSE IF Finite(s) THEN Rounded(s, 2) ELSE Overflow
  BY <1>1 DEF MedianOf
<1>9. MedianOf(-low, -high, odd) = IF odd THEN -high ELSE IF Finite(-s) THEN Rounded(-s, 2) ELSE Overflow
  BY <1>3 DEF MedianOf
<1>10. MedianOf(-high, -low, odd) = IF odd THEN -low ELSE IF Finite(-s) THEN Rounded(-s, 2) ELSE Overflow
  BY <1>3, <1>6 DEF MedianOf
<1>11. MedianOf(low, high, odd) \in Int
  BY <1>2, <1>7, <1>8
<1>12. 0 <= low /\ 0 <= high => MedianOf(low, high, odd) \in Nat
  BY <1>4, <1>7, <1>8
<1>13. Finite(MedianOf(low, high, odd)) => MedianOf(-low, -high, odd) = -MedianOf(low, high, odd)
  BY <1>2, <1>5, <1>7, <1>8, <1>9
<1> QED BY <1>9, <1>10, <1>11, <1>12, <1>13

LEMMA MedianIs ==
    ASSUME NEW f, Measured(f), DOMAIN f # {}
    PROVE  /\ Median(f) \in Int
           /\ (\A n \in DOMAIN f : 0 <= f[n]) => Median(f) \in Nat
<1>1. PICK c : c = Cardinality(DOMAIN f)
  OBVIOUS
<1>2. PICK low, high : low = Smallest(f, c \div 2) /\ high = Smallest(f, c \div 2 + 1)
  OBVIOUS
<1>3. /\ c \div 2 + 1 \in 1 .. c /\ (c % 2 # 1 => c \div 2 \in 1 .. c)
      /\ Median(f) = MedianOf(low, high, c % 2 = 1)
  BY <1>1, <1>2, MedianSpelledOut
<1>4. high \in Int /\ (c % 2 # 1 => low \in Int)
  BY <1>1, <1>2, <1>3, SmallestIs
<1>5. ASSUME \A n \in DOMAIN f : 0 <= f[n]
      PROVE  0 <= high /\ (c % 2 # 1 => 0 <= low)
  <2>1. \A k \in 1 .. c : Smallest(f, k) \in Figures(f)
    BY <1>1, SmallestIs DEF IsNth
  <2>2. \A x \in Figures(f) : 0 <= x
    BY <1>5 DEF Figures
  <2> QED BY <1>2, <1>3, <2>1, <2>2
<1>6. CASE c % 2 = 1
  <2>1. Median(f) = high
    BY <1>3, <1>6 DEF MedianOf
  <2> QED BY <1>4, <1>5, <2>1
<1>7. CASE c % 2 # 1
  <2>1. PICK odd \in BOOLEAN : odd = (c % 2 = 1)
    OBVIOUS
  <2>2. ~odd /\ Median(f) = MedianOf(low, high, odd)
    BY <1>3, <1>7, <2>1
  <2>3. low \in Int /\ high \in Int
    BY <1>4, <1>7
  <2>4. /\ MedianOf(low, high, odd) \in Int
        /\ 0 <= low /\ 0 <= high => MedianOf(low, high, odd) \in Nat
    BY <2>3, MedianOfMirrors
  <2> QED BY <1>5, <1>7, <2>2, <2>4
<1> QED BY <1>6, <1>7

LEMMA MedianStays ==
    ASSUME NEW b, NEW f, NEW g, Moved(b, f, g), DOMAIN g # {}
    PROVE  Median(g) = Median(f)
<1>1. PICK c : c = Cardinality(DOMAIN g)
  OBVIOUS
<1>2. c = Cardinality(DOMAIN f) /\ Measured(f) /\ Measured(g) /\ DOMAIN f # {}
  BY <1>1, CountIs, FS_EmptySet, PairedSetsHaveOneSize DEF Moved, Measured
<1>3. PICK i, j : i = c \div 2 /\ j = c \div 2 + 1
  OBVIOUS
<1>4. /\ j \in 1 .. c /\ (c % 2 # 1 => i \in 1 .. c)
      /\ Median(g) = MedianOf(Smallest(g, i), Smallest(g, j), c % 2 = 1)
      /\ Median(f) = MedianOf(Smallest(f, i), Smallest(f, j), c % 2 = 1)
  BY <1>1, <1>2, <1>3, MedianSpelledOut
<1>5. Smallest(g, j) = Smallest(f, j) /\ (c % 2 # 1 => Smallest(g, i) = Smallest(f, i))
  BY <1>1, <1>4, SmallestStays
<1>6. CASE c % 2 = 1
  BY <1>4, <1>5, <1>6 DEF MedianOf
<1>7. CASE c % 2 # 1
  BY <1>4, <1>5, <1>7
<1> QED BY <1>6, <1>7

LEMMA MedianMirrors ==
    ASSUME NEW f, Measured(f), DOMAIN f # {}, Finite(Median(f))
    PROVE  Median(Negative(f)) = -Median(f)
<1>1. PICK c : c = Cardinality(DOMAIN f)
  OBVIOUS
<1>2. PICK i, j : i = c \div 2 /\ j = c \div 2 + 1
  OBVIOUS
<1>3. Measured(Negative(f)) /\ DOMAIN Negative(f) = DOMAIN f
  BY NegativeIsMeasured
<1>4. PICK low, high : low = Smallest(f, i) /\ high = Smallest(f, j)
  OBVIOUS
<1>5. /\ j \in 1 .. c /\ (c % 2 # 1 => i \in 1 .. c /\ c + 1 - j = i)
      /\ c % 2 = 1 => c + 1 - j = j
      /\ Median(f) = MedianOf(low, high, c % 2 = 1)
  BY <1>1, <1>2, <1>4, MedianSpelledOut
<1>6. Median(Negative(f)) = MedianOf(Smallest(Negative(f), i), Smallest(Negative(f), j), c % 2 = 1)
  BY <1>1, <1>2, <1>3, MedianSpelledOut
<1>7. Smallest(Negative(f), j) = -Smallest(f, c + 1 - j) /\ high \in Int
  BY <1>1, <1>4, <1>5, SmallestMirrors, SmallestIs
<1>8. CASE c % 2 = 1
  <2>1. Median(f) = high /\ Median(Negative(f)) = Smallest(Negative(f), j)
    BY <1>5, <1>6, <1>8 DEF MedianOf
  <2> QED BY <1>4, <1>5, <1>7, <1>8, <2>1
<1>9. CASE c % 2 # 1
  <2>1. c + 1 - i = j
    <3>1. c \in Int /\ i \in Int
      BY <1>1, <1>5, <1>9, CountIs
    <3> QED BY <1>2, <3>1, <1>5, <1>9
  <2>2. Smallest(Negative(f), i) = -high /\ Smallest(Negative(f), j) = -low /\ low \in Int
    BY <1>1, <1>4, <1>5, <1>7, <1>9, <2>1, SmallestMirrors, SmallestIs
  <2>3. Median(Negative(f)) = MedianOf(-low, -high, c % 2 = 1)
    BY <1>6, <1>7, <1>9, <2>2, MedianOfMirrors
  <2>4. PICK odd \in BOOLEAN : odd = (c % 2 = 1)
    OBVIOUS
  <2>5. Median(f) = MedianOf(low, high, odd) /\ Median(Negative(f)) = MedianOf(-low, -high, odd)
    BY <1>5, <2>3, <2>4
  <2>6. Finite(MedianOf(low, high, odd))
    BY <2>5
  <2>7. MedianOf(-low, -high, odd) = -MedianOf(low, high, odd)
    BY <1>7, <2>2, <2>6, MedianOfMirrors
  <2> QED BY <2>5, <2>7
<1> QED BY <1>8, <1>9

LEMMA RoundedBetween ==
    ASSUME NEW x \in Int, NEW a, NEW b, Fl(a), Fl(b), a <= x, x <= b
    PROVE  Rounded(x, 1) \in Int /\ a <= Rounded(x, 1) /\ Rounded(x, 1) <= b
<1>1. a \in Int /\ b \in Int /\ Rounded(a, 1) = a /\ Rounded(b, 1) = b
  BY RoundedSame
<1>2. Rounded(a, 1) <= Rounded(x, 1) /\ Rounded(x, 1) <= Rounded(b, 1)
  BY <1>1, RoundedRises
<1> QED BY <1>1, <1>2, RoundedIsInt

\* Floats at finitely many positions.
Recorded(f) == IsFiniteSet(DOMAIN f) /\ f \in [DOMAIN f -> Float]

LEMMA RecordedIs ==
    ASSUME NEW f, Recorded(f)
    PROVE  /\ Measured(f)
           /\ \A k \in 1 .. Cardinality(DOMAIN f) : Smallest(f, k) \in Float
<1>1. \A n \in DOMAIN f : f[n] \in Float /\ f[n] \in Int
  BY FloatIs DEF Recorded
<1>2. f \in [DOMAIN f -> Int]
  BY <1>1 DEF Recorded
<1>3. Measured(f)
  BY <1>2 DEF Recorded, Measured
<1>4. Figures(f) \subseteq Float
  BY <1>1 DEF Figures
<1>5. \A k \in 1 .. Cardinality(DOMAIN f) : Smallest(f, k) \in Figures(f)
  BY <1>3, SmallestIs DEF IsNth
<1> QED BY <1>3, <1>4, <1>5

\* The positions at both sides of the quartiles.
LEMMA SidesAre ==
    ASSUME NEW f, NEW c, c = Cardinality(DOMAIN f), c \in Nat, c # 0, NEW m, m = c - 1
    PROVE  /\ m \in Nat /\ Position(f, 1) = m /\ Position(f, 3) = 3 * m
           /\ Lower(f, 1) = Smallest(f, m \div 4 + 1)
           /\ Upper(f, 1) = Smallest(f, (m + 3) \div 4 + 1)
           /\ Lower(f, 3) = Smallest(f, (3 * m) \div 4 + 1)
           /\ Upper(f, 3) = Smallest(f, (3 * m + 3) \div 4 + 1)
<1>1. (c - 1) * 1 = m /\ (c - 1) * 3 = 3 * m /\ m \in Nat
  OBVIOUS
<1>2. Position(f, 1) = m /\ Position(f, 3) = 3 * m
  BY <1>1 DEF Position
<1>3. Lower(f, 1) = Smallest(f, m \div 4 + 1) /\ Upper(f, 1) = Smallest(f, (m + 3) \div 4 + 1)
  BY <1>2 DEF Lower, Upper
<1>4. Lower(f, 3) = Smallest(f, (3 * m) \div 4 + 1)
      /\ Upper(f, 3) = Smallest(f, (3 * m + 3) \div 4 + 1)
  BY <1>2 DEF Lower, Upper
<1> QED BY <1>1, <1>2, <1>3, <1>4

LEMMA SidesRise ==
    ASSUME NEW f, Measured(f), DOMAIN f # {}, NEW k \in {1, 3}
    PROVE  /\ Lower(f, k) \in Int /\ Upper(f, k) \in Int /\ Lower(f, k) <= Upper(f, k)
           /\ Position(f, k) \in Nat
           /\ Recorded(f) => Lower(f, k) \in Float /\ Upper(f, k) \in Float
<1>1. PICK c, m : c = Cardinality(DOMAIN f) /\ m = c - 1
  OBVIOUS
<1>2. c \in Nat /\ c # 0 /\ m \in Nat /\ 3 * m \in Nat
  BY <1>1, CountIs
<1>3. PICK i1, j1, i3, j3 : /\ i1 = m \div 4 + 1 /\ j1 = (m + 3) \div 4 + 1
                            /\ i3 = (3 * m) \div 4 + 1 /\ j3 = (3 * m + 3) \div 4 + 1
  OBVIOUS
<1>4. i1 \in 1 .. c /\ j1 \in 1 .. c /\ i3 \in 1 .. c /\ j3 \in 1 .. c
  BY <1>1, <1>2, <1>3, Quarters
<1>5. i1 <= j1 /\ i3 <= j3
  BY <1>2, <1>3
<1>6. /\ Lower(f, 1) = Smallest(f, i1) /\ Upper(f, 1) = Smallest(f, j1)
      /\ Lower(f, 3) = Smallest(f, i3) /\ Upper(f, 3) = Smallest(f, j3)
      /\ Position(f, 1) = m /\ Position(f, 3) = 3 * m
  BY <1>1, <1>2, <1>3, SidesAre
<1>7. ASSUME NEW i \in 1 .. c, NEW j \in 1 .. c, i <= j
      PROVE  /\ Smallest(f, i) \in Int /\ Smallest(f, j) \in Int /\ Smallest(f, i) <= Smallest(f, j)
             /\ Recorded(f) => Smallest(f, i) \in Float /\ Smallest(f, j) \in Float
  BY <1>1, <1>7, SmallestIs, SmallestRises, RecordedIs
<1>8. CASE k = 1
  BY <1>2, <1>4, <1>5, <1>6, <1>7, <1>8
<1>9. CASE k = 3
  BY <1>2, <1>4, <1>5, <1>6, <1>7, <1>9
<1> QED BY <1>8, <1>9

\* A quartile lies between the readings at both sides of it, and is the reading
\* when they are one, although the way between them is rounded.
LEMMA QuartileIsBetween ==
    ASSUME NEW f, Recorded(f), DOMAIN f # {}, NEW k \in {1, 3},
           NEW q, q = _linear_percentile(f, k)
    PROVE  /\ q \in Int
           /\ Finite(q) => Lower(f, k) <= q /\ q <= Upper(f, k)
           /\ Lower(f, k) = Upper(f, k) => q = Lower(f, k)
<1>1. PICK a, b, m : a = Lower(f, k) /\ b = Upper(f, k) /\ m = Position(f, k)
  OBVIOUS
<1>2. a \in Float /\ b \in Float /\ a <= b /\ m \in Nat
  BY <1>1, RecordedIs, SidesRise
<1>3. a \in Int /\ b \in Int /\ Fl(a) /\ Fl(b)
  BY <1>2, FloatIs
<1>4. PICK w, d, r : w = b - a /\ d = Rounded(w, 1) /\ r = m % 4
  OBVIOUS
<1>5. w \in Nat /\ r \in 0 .. 3
  <2>1. w \in Nat
    BY <1>2, <1>3, <1>4
  <2>2. r \in 0 .. 3
    BY <1>2, <1>4
  <2> QED BY <2>1, <2>2
<1>6. q = IF Finite(d) THEN Rounded(a + Rounded(d * r, 4), 1) ELSE Overflow
  BY <1>1, <1>4 DEF _linear_percentile, Interpolated
<1>7. Overflow \in Nat /\ ~Finite(Overflow) /\ Finite(0)
  BY MaxFloatIs
<1>8. CASE ~Finite(d)
  <2>1. a # b
    <3>1. ASSUME a = b PROVE FALSE
      <4>1. w = 0 /\ Rounded(0, 1) = 0
        BY <1>3, <1>4, <3>1, RoundedSign
      <4> QED BY <1>4, <1>7, <1>8, <4>1
    <3> QED BY <3>1
  <2> QED BY <1>1, <1>6, <1>7, <1>8, <2>1
<1>9. CASE Finite(d)
  <2>1. PICK p : p = Rounded(d * r, 4)
    OBVIOUS
  <2>2. p \in Nat /\ p <= w
    BY <1>4, <1>5, <1>9, <2>1, StepFits
  <2>3. a + p \in Int /\ a <= a + p /\ a + p <= b
    BY <1>3, <1>4, <1>5, <2>2
  <2>4. q = Rounded(a + p, 1)
    BY <1>6, <1>9, <2>1
  <2>5. q \in Int /\ a <= q /\ q <= b
    BY <1>3, <2>3, <2>4, RoundedBetween
  <2> QED BY <1>1, <1>3, <2>5
<1> QED BY <1>8, <1>9

LEMMA QuartilesRise ==
    ASSUME NEW f, Recorded(f), DOMAIN f # {},
           NEW p, p = _linear_percentile(f, 1), NEW q, q = _linear_percentile(f, 3),
           Finite(p), Finite(q)
    PROVE  p \in Int /\ q \in Int /\ p <= q
<1>1. PICK c, m : c = Cardinality(DOMAIN f) /\ m = c - 1
  OBVIOUS
<1>2. Measured(f) /\ c \in Nat /\ c # 0 /\ m \in Nat /\ 3 * m \in Nat
  BY <1>1, RecordedIs, CountIs
<1>3. PICK i1, j1, i3, j3 : /\ i1 = m \div 4 + 1 /\ j1 = (m + 3) \div 4 + 1
                            /\ i3 = (3 * m) \div 4 + 1 /\ j3 = (3 * m + 3) \div 4 + 1
  OBVIOUS
<1>4. i1 \in 1 .. c /\ j1 \in 1 .. c /\ i3 \in 1 .. c /\ j3 \in 1 .. c
  BY <1>1, <1>2, <1>3, Quarters
<1>5. /\ Lower(f, 1) = Smallest(f, i1) /\ Upper(f, 1) = Smallest(f, j1)
      /\ Lower(f, 3) = Smallest(f, i3) /\ Upper(f, 3) = Smallest(f, j3)
      /\ Position(f, 1) = m /\ Position(f, 3) = 3 * m
  BY <1>1, <1>2, <1>3, SidesAre
<1>6. p \in Int /\ q \in Int /\ p <= Upper(f, 1) /\ Lower(f, 3) <= q
  BY QuartileIsBetween
<1>7. CASE m # 1
  <2>1. j1 <= i3
    BY <1>2, <1>3, <1>7
  <2>2. Upper(f, 1) <= Lower(f, 3)
    BY <1>1, <1>2, <1>4, <1>5, <2>1, SmallestRises
  <2>3. Upper(f, 1) \in Int /\ Lower(f, 3) \in Int
    BY <1>2, SidesRise
  <2> QED BY <1>6, <2>2, <2>3
<1>8. CASE m = 1
  <2>1. i1 = i3 /\ j1 = j3 /\ m % 4 = 1 /\ (3 * m) % 4 = 3
    BY <1>3, <1>8
  <2>2. PICK a, b : a = Lower(f, 1) /\ b = Upper(f, 1)
    OBVIOUS
  <2>3. a \in Int /\ b \in Int /\ a <= b /\ Lower(f, 3) = a /\ Upper(f, 3) = b
    BY <1>2, <1>5, <2>1, <2>2, SidesRise
  <2>4. PICK d : d = Rounded(b - a, 1)
    OBVIOUS
  <2>5. d \in Nat
    <3>1. b - a \in Int /\ 0 <= b - a
      BY <2>3
    <3> QED BY <2>4, <3>1, RoundedSign
  <2>6. /\ p = IF Finite(d) THEN Rounded(a + Rounded(d * 1, 4), 1) ELSE Overflow
        /\ q = IF Finite(d) THEN Rounded(a + Rounded(d * 3, 4), 1) ELSE Overflow
    <3>1. p = IF Finite(d) THEN Rounded(a + Rounded(d * 1, 4), 1) ELSE Overflow
      BY <1>5, <2>1, <2>2, <2>4 DEF _linear_percentile, Interpolated
    <3>2. q = IF Finite(d) THEN Rounded(a + Rounded(d * 3, 4), 1) ELSE Overflow
      BY <1>5, <2>1, <2>2, <2>3, <2>4 DEF _linear_percentile, Interpolated
    <3> QED BY <3>1, <3>2
  <2>7. PICK x, y : x = Rounded(d * 1, 4) /\ y = Rounded(d * 3, 4)
    OBVIOUS
  <2>8. x \in Int /\ y \in Int /\ x <= y
    <3>1. PICK g, h : g = d * 1 /\ h = d * 3
      OBVIOUS
    <3>2. g \in Int /\ h \in Int /\ g <= h
      BY <2>5, <3>1
    <3> QED BY <2>7, <3>1, <3>2, RoundedIsInt, RoundedRises
  <2>9. a + x \in Int /\ a + y \in Int /\ a + x <= a + y
    BY <2>3, <2>8
  <2>10. Rounded(a + x, 1) <= Rounded(a + y, 1)
    BY <2>9, RoundedRises
  <2>11. Finite(d)
    BY <2>6, MaxFloatIs
  <2> QED BY <1>6, <2>6, <2>7, <2>10, <2>11
<1> QED BY <1>7, <1>8

LEMMA QuartilesStay ==
    ASSUME NEW b, NEW f, NEW g, Moved(b, f, g), DOMAIN g # {}
    PROVE  /\ _linear_percentile(g, 1) = _linear_percentile(f, 1)
           /\ _linear_percentile(g, 3) = _linear_percentile(f, 3)
<1>1. PICK c, m : c = Cardinality(DOMAIN g) /\ m = c - 1
  OBVIOUS
<1>2. c \in Nat /\ c # 0 /\ c = Cardinality(DOMAIN f)
  BY <1>1, CountIs, PairedSetsHaveOneSize DEF Moved, Measured
<1>3. PICK i1, j1, i3, j3 : /\ i1 = m \div 4 + 1 /\ j1 = (m + 3) \div 4 + 1
                            /\ i3 = (3 * m) \div 4 + 1 /\ j3 = (3 * m + 3) \div 4 + 1
  OBVIOUS
<1>4. i1 \in 1 .. c /\ j1 \in 1 .. c /\ i3 \in 1 .. c /\ j3 \in 1 .. c
  BY <1>1, <1>2, <1>3, Quarters
<1>5. /\ Lower(g, 1) = Smallest(g, i1) /\ Upper(g, 1) = Smallest(g, j1)
      /\ Lower(g, 3) = Smallest(g, i3) /\ Upper(g, 3) = Smallest(g, j3)
      /\ Position(g, 1) = m /\ Position(g, 3) = 3 * m
  BY <1>1, <1>2, <1>3, SidesAre
<1>6. /\ Lower(f, 1) = Smallest(f, i1) /\ Upper(f, 1) = Smallest(f, j1)
      /\ Lower(f, 3) = Smallest(f, i3) /\ Upper(f, 3) = Smallest(f, j3)
      /\ Position(f, 1) = m /\ Position(f, 3) = 3 * m
  BY <1>1, <1>2, <1>3, SidesAre
<1>7. \A k \in 1 .. c : Smallest(g, k) = Smallest(f, k)
  BY <1>1, SmallestStays
<1>8. /\ Lower(g, 1) = Lower(f, 1) /\ Upper(g, 1) = Upper(f, 1)
      /\ Lower(g, 3) = Lower(f, 3) /\ Upper(g, 3) = Upper(f, 3)
      /\ Position(g, 1) = Position(f, 1) /\ Position(g, 3) = Position(f, 3)
  BY <1>4, <1>5, <1>6, <1>7
<1> QED BY <1>8 DEF _linear_percentile

\* Mirrored, the sides of the quartiles change places.
LEMMA SidesMirror ==
    ASSUME NEW f, Measured(f), DOMAIN f # {}
    PROVE  /\ Lower(Negative(f), 1) = -Upper(f, 3) /\ Upper(Negative(f), 1) = -Lower(f, 3)
           /\ Lower(Negative(f), 3) = -Upper(f, 1) /\ Upper(Negative(f), 3) = -Lower(f, 1)
<1>1. PICK c, m : c = Cardinality(DOMAIN f) /\ m = c - 1
  OBVIOUS
<1>2. c \in Nat /\ c # 0 /\ c = Cardinality(DOMAIN Negative(f))
  BY <1>1, CountIs, NegativeIsMeasured
<1>3. PICK i1, j1, i3, j3 : /\ i1 = m \div 4 + 1 /\ j1 = (m + 3) \div 4 + 1
                            /\ i3 = (3 * m) \div 4 + 1 /\ j3 = (3 * m + 3) \div 4 + 1
  OBVIOUS
<1>4. /\ i1 \in 1 .. c /\ j1 \in 1 .. c /\ i3 \in 1 .. c /\ j3 \in 1 .. c
      /\ c + 1 - i1 = j3 /\ c + 1 - j1 = i3 /\ c + 1 - i3 = j1 /\ c + 1 - j3 = i1
  <2>1. m \in Nat /\ c = m + 1
    BY <1>1, <1>2
  <2>2. PICK a, r : a = m \div 4 /\ r = m % 4
    OBVIOUS
  <2>3. a \in Nat /\ r \in 0 .. 3 /\ m = 4 * a + r
    BY <2>1, <2>2
  <2>4. CASE r = 0
    BY <1>3, <2>1, <2>3, <2>4
  <2>5. CASE r = 1
    BY <1>3, <2>1, <2>3, <2>5
  <2>6. CASE r = 2
    BY <1>3, <2>1, <2>3, <2>6
  <2>7. CASE r = 3
    BY <1>3, <2>1, <2>3, <2>7
  <2> QED BY <2>3, <2>4, <2>5, <2>6, <2>7
<1>5. /\ Lower(f, 1) = Smallest(f, i1) /\ Upper(f, 1) = Smallest(f, j1)
      /\ Lower(f, 3) = Smallest(f, i3) /\ Upper(f, 3) = Smallest(f, j3)
  BY <1>1, <1>2, <1>3, SidesAre
<1>6. PICK g : g = Negative(f)
  OBVIOUS
<1>7. /\ Lower(g, 1) = Smallest(g, i1) /\ Upper(g, 1) = Smallest(g, j1)
      /\ Lower(g, 3) = Smallest(g, i3) /\ Upper(g, 3) = Smallest(g, j3)
  BY <1>1, <1>2, <1>3, <1>6, SidesAre
<1>8. \A k \in 1 .. c : Smallest(g, k) = -Smallest(f, c + 1 - k)
  BY <1>1, <1>6, SmallestMirrors
<1> QED BY <1>4, <1>5, <1>6, <1>7, <1>8

Deviation(f) == Median(Deviations(f, Median(f)))
Spread(f) == Scale(f, Deviation(f))

LEMMA EstimatesAre ==
    ASSUME NEW f, NEW t, NEW e, e = Estimates(f, t)
    PROVE  /\ e.median = Median(f) /\ e.mad = Deviation(f) /\ e.scale = Spread(f)
           /\ e.score = Score(t, Median(f), Spread(f))
           /\ e = [median |-> e.median, mad |-> e.mad, scale |-> e.scale, score |-> e.score]
  BY DEF Estimates, Deviation, Spread

LEMMA DeviationsAreMeasured ==
    ASSUME NEW f, Measured(f), NEW c \in Int
    PROVE  /\ DOMAIN Deviations(f, c) = DOMAIN f /\ Measured(Deviations(f, c))
           /\ \A n \in DOMAIN f : Deviations(f, c)[n] \in Nat
<1>1. DOMAIN Deviations(f, c) = DOMAIN f
  BY DEF Deviations
<1>2. \A n \in DOMAIN f : Abs(Rounded(f[n] - c, 1)) \in Nat
  <2> SUFFICES ASSUME NEW n \in DOMAIN f PROVE Abs(Rounded(f[n] - c, 1)) \in Nat
    OBVIOUS
  <2>1. PICK x : x = f[n] - c
    OBVIOUS
  <2>2. x \in Int
    BY <2>1 DEF Measured
  <2>3. Rounded(x, 1) \in Int
    BY <2>2, RoundedIsInt
  <2> QED BY <2>1, <2>3, AbsIs
<1>3. \A n \in DOMAIN f : Deviations(f, c)[n] \in Nat
  BY <1>2 DEF Deviations
<1>4. Deviations(f, c) \in [DOMAIN f -> Int]
  BY <1>2 DEF Deviations
<1> QED BY <1>1, <1>3, <1>4 DEF Measured

LEMMA ScaleIs ==
    ASSUME NEW f, Recorded(f), DOMAIN f # {}, NEW mad \in Nat
    PROVE  Scale(f, mad) \in Nat
<1>1. PICK p, q, i : /\ p = _linear_percentile(f, 1) /\ q = _linear_percentile(f, 3)
                     /\ i = Rounded(q - p, 1)
  OBVIOUS
<1>2. Scale(f, mad) = IF mad # 0 THEN Rounded(MAD_NORMALIZATION * mad, UNIT)
                      ELSE IF Finite(p) /\ Finite(q) /\ Finite(i)
                      THEN Rounded(i * UNIT, IQR_NORMALIZATION)
                      ELSE Overflow
  BY <1>1 DEF Scale, QuartileScale
<1>3. PICK unit, m, n : unit = UNIT /\ m = MAD_NORMALIZATION /\ n = IQR_NORMALIZATION
  OBVIOUS
<1>4. unit \in Nat \ {0} /\ m \in Nat /\ n \in Nat \ {0}
  BY <1>3, UnitsArePositive
<1>5. Rounded(m * mad, unit) \in Nat
  <2>1. m * mad \in Nat
    BY <1>4
  <2> QED BY <1>4, <2>1, RoundedSign
<1>6. ASSUME Finite(p), Finite(q) PROVE Rounded(i * unit, n) \in Nat
  <2>1. p \in Int /\ q \in Int /\ p <= q
    BY <1>1, <1>6, QuartilesRise
  <2>2. i \in Nat
    <3>1. q - p \in Int /\ 0 <= q - p
      BY <2>1
    <3> QED BY <1>1, <3>1, RoundedSign
  <2>3. i * unit \in Nat
    BY <1>4, <2>2
  <2> QED BY <1>4, <2>3, RoundedSign
<1> QED BY <1>2, <1>3, <1>5, <1>6, MaxFloatIs

\* A scale is not negative.
LEMMA SpreadIs ==
    ASSUME NEW f, Recorded(f), DOMAIN f # {}
    PROVE  Median(f) \in Int /\ Deviation(f) \in Nat /\ Spread(f) \in Nat
<1>1. Median(f) \in Int
  BY RecordedIs, MedianIs
<1>2. PICK c : c = Median(f)
  OBVIOUS
<1>3. PICK d : d = Deviations(f, c)
  OBVIOUS
<1>4. Measured(d) /\ DOMAIN d = DOMAIN f /\ \A n \in DOMAIN d : d[n] \in Nat
  BY <1>1, <1>2, <1>3, RecordedIs, DeviationsAreMeasured
<1>5. Median(d) \in Nat
  BY <1>4, MedianIs
<1>6. Deviation(f) \in Nat
  BY <1>2, <1>3, <1>5 DEF Deviation
<1>7. Spread(f) \in Nat
  BY <1>6, ScaleIs DEF Spread
<1> QED BY <1>1, <1>6, <1>7

LEMMA EstimatesStay ==
    ASSUME NEW b, NEW f, NEW g, Moved(b, f, g), DOMAIN g # {}, NEW target
    PROVE  Estimates(g, target) = Estimates(f, target)
<1>1. Median(g) = Median(f) /\ Median(g) \in Int
  BY MedianStays, MedianIs DEF Moved
<1>2. PICK c \in Int : c = Median(f)
  BY <1>1
<1>3. PICK d, e : d = Deviations(f, c) /\ e = Deviations(g, c)
  OBVIOUS
<1>4. Moved(b, d, e) /\ DOMAIN e # {}
  <2>1. Measured(d) /\ DOMAIN d = DOMAIN f /\ Measured(e) /\ DOMAIN e = DOMAIN g
    BY <1>3, DeviationsAreMeasured DEF Moved
  <2>2. \A n \in DOMAIN g : b[n] \in DOMAIN f /\ g[n] = f[b[n]]
    BY DEF Moved, Pairs
  <2>3. \A n \in DOMAIN g : e[n] = d[b[n]]
    BY <1>3, <2>2 DEF Deviations
  <2> QED BY <2>1, <2>3 DEF Moved
<1>5. Deviation(g) = Deviation(f)
  BY <1>1, <1>2, <1>3, <1>4, MedianStays DEF Deviation
<1>6. Spread(g) = Spread(f)
  BY <1>5, QuartilesStay DEF Spread, Scale
<1>7. PICK x, y : x = Estimates(g, target) /\ y = Estimates(f, target)
  OBVIOUS
<1>8. x.median = y.median /\ x.mad = y.mad /\ x.scale = y.scale /\ x.score = y.score
  BY <1>1, <1>5, <1>6, <1>7, EstimatesAre
<1>9. /\ x = [median |-> x.median, mad |-> x.mad, scale |-> x.scale, score |-> x.score]
      /\ y = [median |-> y.median, mad |-> y.mad, scale |-> y.scale, score |-> y.score]
  BY <1>7, EstimatesAre
<1> QED BY <1>7, <1>8, <1>9

LEMMA DeviationMirrors ==
    ASSUME NEW f, Measured(f), DOMAIN f # {}, Finite(Median(f))
    PROVE  Median(Negative(f)) = -Median(f) /\ Deviation(Negative(f)) = Deviation(f)
<1>1. PICK c \in Int : c = Median(f)
  BY MedianIs
<1>2. Median(Negative(f)) = -c
  BY <1>1, MedianMirrors
<1>3. Deviations(Negative(f), -c) = Deviations(f, c)
  <2>1. \A n \in DOMAIN f : Abs(Rounded(Negative(f)[n] - (-c), 1)) = Abs(Rounded(f[n] - c, 1))
    <3> SUFFICES ASSUME NEW n \in DOMAIN f
                 PROVE  Abs(Rounded(Negative(f)[n] - (-c), 1)) = Abs(Rounded(f[n] - c, 1))
      OBVIOUS
    <3>1. f[n] \in Int /\ Negative(f)[n] = -f[n]
      BY DEF Measured, Negative
    <3>2. PICK x, y : x = f[n] - c /\ y = Rounded(x, 1)
      OBVIOUS
    <3>3. x \in Int /\ y \in Int /\ Negative(f)[n] - (-c) = -x
      BY <3>1, <3>2, RoundedIsInt
    <3>4. Rounded(-x, 1) = -y
      BY <3>2, <3>3, RoundedMirrors
    <3> QED BY <3>2, <3>3, <3>4, FloatMirrors
  <2>2. DOMAIN Negative(f) = DOMAIN f
    BY NegativeIsMeasured
  <2> QED BY <2>1, <2>2 DEF Deviations
<1> QED BY <1>1, <1>2, <1>3 DEF Deviation

LEMMA NegativeFloats ==
    ASSUME NEW x \in Float
    PROVE  -x \in Float
<1>1. x \in Int /\ Finite(x) /\ Rounded(x, 1) = x
  BY DEF Float
<1>2. -x \in Int /\ Finite(-x) /\ Rounded(-x, 1) = -x
  BY <1>1, FloatMirrors, RoundedMirrors
<1> QED BY <1>2 DEF Float

LEMMA NegativeRecords ==
    ASSUME NEW f, Recorded(f)
    PROVE  Recorded(Negative(f)) /\ DOMAIN Negative(f) = DOMAIN f
<1>1. DOMAIN Negative(f) = DOMAIN f
  BY DEF Negative
<1>2. \A n \in DOMAIN f : -f[n] \in Float
  BY NegativeFloats DEF Recorded
<1>3. Negative(f) \in [DOMAIN f -> Float]
  BY <1>2 DEF Negative
<1> QED BY <1>1, <1>3 DEF Recorded

LEMMA SpreadMirrors ==
    ASSUME NEW f, Recorded(f), DOMAIN f # {}, Finite(Median(f)),
           Deviation(f) = 0 => QuartilesAreReadings(f)
    PROVE  Spread(Negative(f)) = Spread(f)
<1>1. PICK g : g = Negative(f)
  OBVIOUS
<1>2. Recorded(g) /\ DOMAIN g # {} /\ Measured(f)
  BY <1>1, NegativeRecords, RecordedIs
<1>3. Deviation(g) = Deviation(f)
  BY <1>1, <1>2, DeviationMirrors
<1>4. CASE Deviation(f) # 0
  BY <1>1, <1>3, <1>4 DEF Spread, Scale
<1>5. CASE Deviation(f) = 0
  <2>1. PICK p, q : p = Lower(f, 1) /\ q = Lower(f, 3)
    OBVIOUS
  <2>2. p = Upper(f, 1) /\ q = Upper(f, 3)
    BY <1>5, <2>1 DEF QuartilesAreReadings
  <2>3. p \in Int /\ q \in Int
    BY <1>2, <2>1, SidesRise
  <2>4. /\ Lower(g, 1) = -q /\ Upper(g, 1) = -q
        /\ Lower(g, 3) = -p /\ Upper(g, 3) = -p
    BY <1>1, <1>2, <2>1, <2>2, SidesMirror
  <2>5. _linear_percentile(f, 1) = p /\ _linear_percentile(f, 3) = q
    BY <2>1, <2>2, QuartileIsBetween
  <2>6. _linear_percentile(g, 1) = -q /\ _linear_percentile(g, 3) = -p
    <3>1. Lower(g, 1) = Upper(g, 1) /\ Lower(g, 3) = Upper(g, 3)
      BY <2>4
    <3>2. /\ _linear_percentile(g, 1) = Lower(g, 1)
          /\ _linear_percentile(g, 3) = Lower(g, 3)
      BY <1>2, <3>1, QuartileIsBetween
    <3> QED BY <2>4, <3>2
  <2>7. (-p) - (-q) = q - p
    BY <2>3
  <2>8. (Finite(-q) <=> Finite(q)) /\ (Finite(-p) <=> Finite(p))
    BY <2>3, FloatMirrors
  <2>9. PICK i : i = Rounded(q - p, 1)
    OBVIOUS
  <2>10. Spread(f) = IF Finite(p) /\ Finite(q) /\ Finite(i)
                     THEN Rounded(i * UNIT, IQR_NORMALIZATION) ELSE Overflow
    BY <1>5, <2>5, <2>9 DEF Spread, Scale, QuartileScale
  <2>11. Spread(g) = IF Finite(-q) /\ Finite(-p) /\ Finite(i)
                     THEN Rounded(i * UNIT, IQR_NORMALIZATION) ELSE Overflow
    BY <1>3, <1>5, <2>6, <2>7, <2>9 DEF Spread, Scale, QuartileScale
  <2> QED BY <1>1, <2>8, <2>10, <2>11
<1> QED BY <1>4, <1>5

\* The score x of t, of a rounded distance d and a scale that is not zero.
ScoreOf(x, t, c, d, r) ==
    /\ d \in Int /\ r \in Int /\ x \in Int
    /\ x = IF Finite(d) THEN r ELSE Overflow
    /\ Finite(x) => Finite(d) /\ x = r
    /\ c <= t => 0 <= d /\ 0 <= r
    /\ t <= c => d <= 0 /\ r <= 0

LEMMA ScoreIs ==
    ASSUME NEW t \in Int, NEW c \in Int, NEW s \in Nat \ {0}, NEW d, d = Rounded(t - c, 1)
    PROVE  ScoreOf(Score(t, c, s), t, c, d, Rounded(d * UNIT, s))
<1>1. PICK unit : unit = UNIT
  OBVIOUS
<1>2. unit \in Nat \ {0}
  BY <1>1, UnitsArePositive
<1>3. t - c \in Int /\ d \in Int
  BY RoundedIsInt
<1>4. PICK e : e = d * unit
  OBVIOUS
<1>5. e \in Int /\ Rounded(e, s) \in Int
  BY <1>2, <1>3, <1>4, RoundedIsInt
<1>6. Score(t, c, s) = IF Finite(d) THEN Rounded(e, s) ELSE Overflow
  BY <1>1, <1>4 DEF Score
<1>7. Rounded(0, 1) = 0 /\ Rounded(0, s) = 0
  BY RoundedSign
<1>8. ASSUME c <= t PROVE 0 <= d /\ 0 <= Rounded(e, s)
  <2>1. 0 <= d
    <3>1. 0 <= t - c
      BY <1>8
    <3>2. Rounded(0, 1) <= Rounded(t - c, 1)
      BY <1>3, <3>1, RoundedRises
    <3> QED BY <1>7, <3>2
  <2>2. 0 <= e
    BY <1>2, <1>3, <1>4, <2>1
  <2>3. Rounded(0, s) <= Rounded(e, s)
    BY <1>5, <2>2, RoundedRises
  <2> QED BY <1>7, <2>1, <2>3
<1>9. ASSUME t <= c PROVE d <= 0 /\ Rounded(e, s) <= 0
  <2>1. d <= 0
    <3>1. t - c <= 0
      BY <1>9
    <3>2. Rounded(t - c, 1) <= Rounded(0, 1)
      BY <1>3, <3>1, RoundedRises
    <3> QED BY <1>7, <3>2
  <2>2. e <= 0
    <3>1. unit * d <= unit * 0 /\ unit * 0 = 0 /\ unit * d = d * unit
      BY <1>2, <1>3, <2>1, ProductsRise
    <3> QED BY <1>4, <3>1
  <2>3. Rounded(e, s) <= Rounded(0, s)
    BY <1>5, <2>2, RoundedRises
  <2> QED BY <1>7, <2>1, <2>3
<1>10. Overflow \in Nat /\ ~Finite(Overflow)
  BY MaxFloatIs
<1>11. Score(t, c, s) \in Int
  BY <1>5, <1>6, <1>10
<1>12. Finite(Score(t, c, s)) => Finite(d) /\ Score(t, c, s) = Rounded(e, s)
  BY <1>6, <1>10
<1> QED BY <1>1, <1>3, <1>4, <1>5, <1>6, <1>8, <1>9, <1>11, <1>12 DEF ScoreOf

LEMMA ScoreMirrors ==
    ASSUME NEW t \in Int, NEW c \in Int, NEW s \in Nat, Finite(Score(t, c, s))
    PROVE  Score(t, c, s) \in Int /\ Score(-t, -c, s) = -Score(t, c, s)
<1>1. CASE s = 0
  <2>1. Score(t, c, s) = 0 /\ Score(-t, -c, s) = 0
    BY <1>1 DEF Score
  <2> QED BY <2>1
<1>2. CASE s # 0
  <2>1. PICK d, z, unit : d = Rounded(t - c, 1) /\ z = Score(t, c, s) /\ unit = UNIT
    OBVIOUS
  <2>2. s \in Nat \ {0}
    BY <1>2
  <2>3. d \in Int /\ z \in Int /\ Finite(d) /\ z = Rounded(d * unit, s)
    <3>1. ScoreOf(z, t, c, d, Rounded(d * UNIT, s))
      BY <2>1, <2>2, ScoreIs
    <3> QED BY <2>1, <3>1 DEF ScoreOf
  <2>4. Rounded((-t) - (-c), 1) = -d
    <3>1. (-t) - (-c) = -(t - c) /\ t - c \in Int
      OBVIOUS
    <3> QED BY <2>1, <3>1, RoundedMirrors
  <2>5. Finite(-d)
    BY <2>3, FloatMirrors
  <2>6. Score(-t, -c, s) = Rounded((-d) * unit, s)
    BY <1>2, <2>1, <2>4, <2>5 DEF Score
  <2>7. unit \in Nat \ {0}
    BY <2>1, UnitsArePositive
  <2>8. d * unit \in Int /\ (-d) * unit = -(d * unit)
    <3>1. unit * d \in Int /\ unit * (-d) = -(unit * d)
      BY <2>3, <2>7, Products
    <3> QED BY <2>3, <2>7, <3>1
  <2>9. Rounded((-d) * unit, s) = -Rounded(d * unit, s)
    BY <2>2, <2>8, RoundedMirrors
  <2> QED BY <2>1, <2>3, <2>6, <2>9
<1> QED BY <1>1, <1>2

\* A score follows its target, as long as it is finite, and is finite as far
\* out on the same side as it is further out.
LEMMA ScoreRises ==
    ASSUME NEW t \in Int, NEW v \in Int, NEW c \in Int, NEW s \in Nat \ {0}, t <= v,
           NEW x, x = Score(t, c, s), NEW y, y = Score(v, c, s)
    PROVE  /\ x \in Int /\ y \in Int
           /\ Finite(x) /\ Finite(y) => x <= y
           /\ Finite(y) /\ c <= t => Finite(x)
           /\ Finite(x) /\ v <= c => Finite(y)
<1>1. PICK d, e, unit : d = Rounded(t - c, 1) /\ e = Rounded(v - c, 1) /\ unit = UNIT
  OBVIOUS
<1>0. /\ ScoreOf(x, t, c, d, Rounded(d * UNIT, s))
      /\ ScoreOf(y, v, c, e, Rounded(e * UNIT, s))
  BY <1>1, ScoreIs
<1>2. /\ d \in Int /\ x \in Int /\ x = (IF Finite(d) THEN Rounded(d * unit, s) ELSE Overflow)
      /\ Rounded(d * unit, s) \in Int /\ (Finite(x) => Finite(d) /\ x = Rounded(d * unit, s))
      /\ c <= t => 0 <= d /\ 0 <= Rounded(d * unit, s)
  BY <1>0, <1>1 DEF ScoreOf
<1>3. /\ e \in Int /\ y \in Int /\ y = (IF Finite(e) THEN Rounded(e * unit, s) ELSE Overflow)
      /\ Rounded(e * unit, s) \in Int /\ (Finite(y) => Finite(e) /\ y = Rounded(e * unit, s))
      /\ v <= c => e <= 0 /\ Rounded(e * unit, s) <= 0
  BY <1>0, <1>1 DEF ScoreOf
<1>4. d <= e
  <2>1. t - c \in Int /\ v - c \in Int /\ t - c <= v - c
    OBVIOUS
  <2> QED BY <1>1, <2>1, RoundedRises
<1>5. PICK a, b : a = Rounded(d * unit, s) /\ b = Rounded(e * unit, s)
  OBVIOUS
<1>6. a \in Int /\ b \in Int /\ a <= b
  <2>1. unit \in Nat
    BY <1>1, UnitsArePositive
  <2>2. unit * d <= unit * e
    BY <1>2, <1>3, <1>4, <2>1, ProductsRise
  <2>3. d * unit \in Int /\ e * unit \in Int /\ d * unit <= e * unit
    BY <1>2, <1>3, <2>1, <2>2
  <2> QED BY <1>2, <1>3, <1>5, <2>3, RoundedRises
<1>7. PICK top : top = MAX_FLOAT
  OBVIOUS
<1>8. ASSUME NEW i \in Int, NEW j \in Int
      PROVE  /\ 0 <= i /\ i <= j /\ Finite(j) => Finite(i)
             /\ j <= i /\ i <= 0 /\ Finite(j) => Finite(i)
  <2>1. top \in Nat
    BY <1>7, MaxFloatIs
  <2>2. (Finite(i) <=> Abs(i) <= top) /\ (Finite(j) <=> Abs(j) <= top)
    BY <1>7 DEF Finite
  <2> QED BY <2>1, <2>2 DEF Abs
<1>9. ASSUME Finite(y), c <= t PROVE Finite(x)
  <2>1. Finite(d)
    BY <1>2, <1>3, <1>4, <1>8, <1>9
  <2>2. Finite(a)
    BY <1>2, <1>3, <1>5, <1>6, <1>8, <1>9
  <2> QED BY <1>2, <1>5, <2>1, <2>2
<1>10. ASSUME Finite(x), v <= c PROVE Finite(y)
  <2>1. Finite(e)
    BY <1>2, <1>3, <1>4, <1>8, <1>10
  <2>2. Finite(b)
    BY <1>2, <1>3, <1>5, <1>6, <1>8, <1>10
  <2> QED BY <1>3, <1>5, <2>1, <2>2
<1> QED BY <1>2, <1>3, <1>5, <1>6, <1>9, <1>10

LEMMA NullIsNoNumber == Null \notin Int /\ \A x \in Int : Minus(x) = -x /\ -x # Null
<1>1. Null \notin Int
  BY FloatsOK
<1> QED BY <1>1 DEF Minus

FlippedVerdict(v) ==
    [baseline_median |-> Minus(v.baseline_median), baseline_scale |-> v.baseline_scale,
     robust_score |-> Minus(v.robust_score), method |-> v.method,
     direction |-> Opposite[v.direction], outcome |-> v.outcome]

LEMMA EstimatesMirror ==
    ASSUME NEW f, Recorded(f), DOMAIN f # {}, NEW t \in Int, NEW e, e = Estimates(f, t),
           ~Overflows(e), e.mad = 0 => QuartilesAreReadings(f),
           NEW r, r = Estimates(Negative(f), -t)
    PROVE  /\ e.median \in Int /\ e.mad \in Nat /\ e.scale \in Nat /\ e.score \in Int
           /\ r.median = -e.median /\ r.mad = e.mad /\ r.scale = e.scale /\ r.score = -e.score
<1>1. PICK c, d, s : c = Median(f) /\ d = Deviation(f) /\ s = Spread(f)
  OBVIOUS
<1>2. e.median = c /\ e.mad = d /\ e.scale = s /\ e.score = Score(t, c, s)
  BY <1>1, EstimatesAre
<1>3. c \in Int /\ d \in Nat /\ s \in Nat
  BY <1>1, SpreadIs
<1>4. Finite(c) /\ Finite(Score(t, c, s))
  BY <1>2 DEF Overflows
<1>5. Median(Negative(f)) = -c /\ Deviation(Negative(f)) = d
  BY <1>1, <1>4, RecordedIs, DeviationMirrors
<1>6. Spread(Negative(f)) = s
  BY <1>1, <1>2, <1>4, SpreadMirrors
<1>7. r.median = -c /\ r.mad = d /\ r.scale = s /\ r.score = Score(-t, -c, s)
  BY <1>5, <1>6, EstimatesAre
<1>8. Score(t, c, s) \in Int /\ Score(-t, -c, s) = -Score(t, c, s)
  BY <1>3, <1>4, ScoreMirrors
<1> QED BY <1>2, <1>3, <1>7, <1>8

LEMMA VerdictMirrors ==
    ASSUME NEW f, Recorded(f), DOMAIN f # {}, NEW t \in Int, NEW e, e = Estimates(f, t),
           ~Overflows(e), NEW r, r = Estimates(Negative(f), -t), NEW x, x = Verdict(e),
           x.method \in {"rolling_median_iqr_fallback", "insufficient_variability"}
              => QuartilesAreReadings(f)
    PROVE  ~Overflows(r) /\ Verdict(r) = FlippedVerdict(x)
<1>1. e.mad = 0 => QuartilesAreReadings(f)
  <2>1. e.mad = 0 => x.method \in {"rolling_median_iqr_fallback", "insufficient_variability"}
    BY DEF Verdict, Unscreened
  <2> QED BY <2>1
<1>2. /\ e.median \in Int /\ e.mad \in Nat /\ e.scale \in Nat /\ e.score \in Int
      /\ r.median = -e.median /\ r.mad = e.mad /\ r.scale = e.scale /\ r.score = -e.score
  BY <1>1, EstimatesMirror
<1>3. ~Overflows(r)
  <2>1. (Finite(-e.median) <=> Finite(e.median)) /\ (Finite(-e.score) <=> Finite(e.score))
    BY <1>2, FloatMirrors
  <2> QED BY <1>2, <2>1 DEF Overflows
<1>4. PICK c, z : c = e.median /\ z = e.score
  OBVIOUS
<1>5. c \in Int /\ z \in Int /\ Minus(c) = -c /\ Minus(z) = -z /\ Minus(Null) = Null
  BY <1>2, <1>4, NullIsNoNumber DEF Minus
<1>6. CASE e.scale = 0
  <2>1. x = Unscreened("insufficient_variability", c, e.scale)
    BY <1>4, <1>6 DEF Verdict
  <2>2. Verdict(r) = Unscreened("insufficient_variability", -c, e.scale)
    BY <1>2, <1>4, <1>6 DEF Verdict
  <2>3. /\ x.baseline_median = c /\ x.baseline_scale = e.scale /\ x.robust_score = Null
        /\ x.method = "insufficient_variability" /\ x.direction = "unavailable"
        /\ x.outcome = "insufficient_variability"
    BY <2>1 DEF Unscreened
  <2>4. Opposite["unavailable"] = "unavailable"
    BY DEF Opposite
  <2> QED BY <1>3, <1>5, <2>2, <2>3, <2>4 DEF FlippedVerdict, Unscreened
<1>7. CASE e.scale # 0
  <2>1. PICK d : d = IF z > 0 THEN "above_baseline" ELSE IF z < 0 THEN "below_baseline" ELSE "unavailable"
    OBVIOUS
  <2>2. PICK m, o : /\ m = (IF e.mad # 0 THEN "rolling_median_mad" ELSE "rolling_median_iqr_fallback")
                    /\ o = (IF Exceeds(z) THEN "anomaly" ELSE "normal")
    OBVIOUS
  <2>3. x = [baseline_median |-> c, baseline_scale |-> e.scale, robust_score |-> z,
             method |-> m, direction |-> d, outcome |-> o]
    BY <1>4, <1>7, <2>1, <2>2 DEF Verdict
  <2>4. Exceeds(-z) <=> Exceeds(z)
    BY <1>5, FloatMirrors DEF Exceeds
  <2>5. (IF -z > 0 THEN "above_baseline" ELSE IF -z < 0 THEN "below_baseline" ELSE "unavailable")
        = Opposite[d]
    <3>1. /\ Opposite["above_baseline"] = "below_baseline"
          /\ Opposite["below_baseline"] = "above_baseline"
          /\ Opposite["unavailable"] = "unavailable"
      BY DEF Opposite
    <3>2. CASE z > 0
      BY <1>5, <2>1, <3>1, <3>2
    <3>3. CASE z < 0
      BY <1>5, <2>1, <3>1, <3>3
    <3>4. CASE z = 0
      BY <2>1, <3>1, <3>4
    <3> QED BY <1>5, <3>2, <3>3, <3>4
  <2>6. Verdict(r) = [baseline_median |-> -c, baseline_scale |-> e.scale, robust_score |-> -z,
                      method |-> m, direction |-> Opposite[d], outcome |-> o]
    <3>1. r.median = -c /\ r.mad = e.mad /\ r.scale = e.scale /\ r.score = -z
      BY <1>2, <1>4
    <3>2. Verdict(r) = [baseline_median |-> -c, baseline_scale |-> e.scale, robust_score |-> -z,
             method |-> IF e.mad # 0 THEN "rolling_median_mad" ELSE "rolling_median_iqr_fallback",
             direction |-> IF -z > 0 THEN "above_baseline"
                           ELSE IF -z < 0 THEN "below_baseline" ELSE "unavailable",
             outcome |-> IF Exceeds(-z) THEN "anomaly" ELSE "normal"]
      BY <1>7, <3>1 DEF Verdict
    <3> QED BY <2>2, <2>4, <2>5, <3>2
  <2>7. /\ x.baseline_median = c /\ x.baseline_scale = e.scale /\ x.robust_score = z
        /\ x.method = m /\ x.direction = d /\ x.outcome = o
    BY <2>3
  <2> QED BY <1>3, <1>5, <2>6, <2>7 DEF FlippedVerdict
<1> QED BY <1>6, <1>7

\* What a verdict says when the scale is not zero.
LEMMA ScoredVerdict ==
    ASSUME NEW e, NEW x, x = Verdict(e), e.scale # 0
    PROVE  /\ x.baseline_median = e.median /\ x.baseline_scale = e.scale
           /\ x.robust_score = e.score
           /\ x.method = (IF e.mad # 0 THEN "rolling_median_mad" ELSE "rolling_median_iqr_fallback")
           /\ x.direction = (IF e.score > 0 THEN "above_baseline"
                             ELSE IF e.score < 0 THEN "below_baseline" ELSE "unavailable")
           /\ x.outcome = (IF Exceeds(e.score) THEN "anomaly" ELSE "normal")
  BY DEF Verdict

\* The verdict x on the target t, against the verdict y on the target v of the
\* same history, unless the statistics of v overflow.
Follows(x, t, v, overflows, y) ==
    \/ overflows /\ ~Between(v, x.baseline_median, t)
    \/ /\ ~overflows
       /\ y.baseline_median = x.baseline_median /\ y.baseline_scale = x.baseline_scale
       /\ v <= t => y.robust_score <= x.robust_score
       /\ t <= v => x.robust_score <= y.robust_score
       /\ x.outcome = "anomaly" /\ Between(t, x.baseline_median, v) =>
             y.outcome = "anomaly" /\ y.direction = x.direction

LEMMA VerdictFollows ==
    ASSUME NEW f, Recorded(f), DOMAIN f # {}, NEW t \in Int, NEW v \in Int,
           NEW e, e = Estimates(f, t), ~Overflows(e), NEW r, r = Estimates(f, v),
           NEW x, x = Verdict(e), x.outcome \in {"anomaly", "normal"}
    PROVE  Follows(x, t, v, Overflows(r), Verdict(r))
<1>1. PICK c, s : c = Median(f) /\ s = Spread(f)
  OBVIOUS
<1>2. PICK a, b : a = Score(t, c, s) /\ b = Score(v, c, s)
  OBVIOUS
<1>3. /\ e.median = c /\ e.scale = s /\ e.score = a
      /\ r.median = c /\ r.scale = s /\ r.score = b /\ r.mad = e.mad
  BY <1>1, <1>2, EstimatesAre
<1>4. e.scale # 0
  BY DEF Verdict, Unscreened
<1>5. c \in Int /\ s \in Nat \ {0}
  BY <1>1, <1>3, <1>4, SpreadIs
<1>6. Finite(a) /\ (Overflows(r) <=> ~Finite(b))
  BY <1>3 DEF Overflows
<1>7. a \in Int /\ b \in Int
  BY <1>2, <1>5, ScoreRises
<1>8. ASSUME v <= t PROVE (Finite(b) => b <= a) /\ (c <= v => Finite(b))
  <2>1. Finite(b) /\ Finite(a) => b <= a
    BY <1>2, <1>5, <1>8, ScoreRises
  <2>2. Finite(a) /\ c <= v => Finite(b)
    BY <1>2, <1>5, <1>8, ScoreRises
  <2> QED BY <1>6, <2>1, <2>2
<1>9. ASSUME t <= v PROVE (Finite(b) => a <= b) /\ (v <= c => Finite(b))
  <2>1. Finite(a) /\ Finite(b) => a <= b
    BY <1>2, <1>5, <1>9, ScoreRises
  <2>2. Finite(a) /\ v <= c => Finite(b)
    BY <1>2, <1>5, <1>9, ScoreRises
  <2> QED BY <1>6, <2>1, <2>2
<1>10. (c <= t => 0 <= a \/ ~Finite(a)) /\ (t <= c => a <= 0 \/ ~Finite(a))
  <2>1. ScoreOf(a, t, c, Rounded(t - c, 1), Rounded(Rounded(t - c, 1) * UNIT, s))
    BY <1>2, <1>5, ScoreIs
  <2> QED BY <2>1 DEF ScoreOf
<1>11. /\ x.baseline_median = c /\ x.baseline_scale = s /\ x.robust_score = a
       /\ x.direction = (IF a > 0 THEN "above_baseline"
                         ELSE IF a < 0 THEN "below_baseline" ELSE "unavailable")
       /\ x.outcome = (IF Exceeds(a) THEN "anomaly" ELSE "normal")
  BY <1>3, <1>4, ScoredVerdict
<1>12. PICK y : y = Verdict(r)
  OBVIOUS
<1>13. /\ y.baseline_median = c /\ y.baseline_scale = s /\ y.robust_score = b
       /\ y.direction = (IF b > 0 THEN "above_baseline"
                         ELSE IF b < 0 THEN "below_baseline" ELSE "unavailable")
       /\ y.outcome = (IF Exceeds(b) THEN "anomaly" ELSE "normal")
  <2>1. r.scale # 0
    BY <1>3, <1>4
  <2> QED BY <1>3, <1>12, <2>1, ScoredVerdict
<1>14. CASE ~Finite(b)
  <2>1. ~Between(v, c, t)
    BY <1>5, <1>8, <1>9, <1>14 DEF Between
  <2> QED BY <1>6, <1>11, <1>14, <2>1 DEF Follows
<1>15. CASE Finite(b)
  <2>1. ASSUME x.outcome = "anomaly", Between(t, c, v)
        PROVE  y.outcome = "anomaly" /\ y.direction = x.direction
    <3>1. Exceeds(a)
      BY <1>11, <2>1
    <3>2. PICK h \in Nat \ {0} : h = ROBUST_SCORE_THRESHOLD
      BY UnitsArePositive
    <3>3. Abs(a) >= h /\ (Abs(b) >= h => Exceeds(b))
      BY <3>1, <3>2 DEF Exceeds
    <3>4. CASE c <= t /\ t <= v
      <4>1. 0 <= a /\ a <= b
        BY <1>6, <1>9, <1>10, <1>15, <3>4
      <4>2. a >= h /\ b >= h /\ Abs(b) = b /\ a > 0 /\ b > 0
        BY <1>7, <3>3, <4>1 DEF Abs
      <4> QED BY <1>11, <1>13, <3>3, <4>2
    <3>5. CASE v <= t /\ t <= c
      <4>1. a <= 0 /\ b <= a
        BY <1>6, <1>8, <1>10, <1>15, <3>5
      <4>2. -a >= h /\ -b >= h /\ Abs(b) = -b /\ a < 0 /\ b < 0
        BY <1>7, <3>3, <4>1 DEF Abs
      <4> QED BY <1>7, <1>11, <1>13, <3>3, <4>2
    <3> QED BY <2>1, <3>4, <3>5 DEF Between
  <2> QED BY <1>6, <1>8, <1>9, <1>11, <1>12, <1>13, <1>15, <2>1 DEF Follows
<1> QED BY <1>12, <1>14, <1>15

-----------------------------------------------------------------------------
(* The rows of a window *)

\* Verified rows and a query that passed the boundary.
Usable(rows, q) ==
    /\ rows \in Seq(Observation) /\ Readable(rows)
    /\ q.indicator \in Indicators /\ q.end \in Int /\ q.hours \in Nat \ {0}

LEMMA RowsAre ==
    ASSUME NEW rows, NEW q, Usable(rows, q), NEW n \in DOMAIN rows
    PROVE  /\ rows[n].timestamp \in Int
           /\ rows[n].values[q.indicator] \in Float \cup {Null}
           /\ rows[n].values[q.indicator] \in Int \cup {Null}
<1>1. rows[n] \in Observation /\ ParsesRow(rows[n])
  BY DEF Usable, Readable
<1>2. rows[n].timestamp \in Int /\ rows[n].values[q.indicator] \in Cell
  BY <1>1 DEF Observation, ParsesRow, Usable
<1>3. rows[n].values[q.indicator] \in Float \cup {Null}
  BY <1>1, <1>2 DEF ParsesRow, Cell, Usable
<1> QED BY <1>2, <1>3, FloatIs

LEMMA PositionsAreFinite ==
    ASSUME NEW rows, rows \in Seq(Observation)
    PROVE  \A S : S \subseteq DOMAIN rows =>
              IsFiniteSet(S) /\ Cardinality(S) \in Nat /\ S \subseteq 1 .. Len(rows)
<1>1. DOMAIN rows = 1 .. Len(rows) /\ Len(rows) \in Int
  OBVIOUS
<1>2. IsFiniteSet(DOMAIN rows)
  BY <1>1, FS_Interval
<1> QED BY <1>1, <1>2, FS_Subset, FS_CardinalityType

LEMMA WindowParts ==
    ASSUME NEW rows, NEW q, NEW S, S \subseteq DOMAIN rows
    PROVE  /\ Baseline(rows, q) \subseteq DOMAIN rows /\ Targets(rows, q) \subseteq DOMAIN rows
           /\ Filled(rows, S, q.indicator) \subseteq S
  BY DEF Baseline, Targets, Filled

\* The readings of an indicator at the positions of S.
Column(rows, S, i) == [n \in Filled(rows, S, i) |-> rows[n].values[i]]

LEMMA ColumnIsMeasured ==
    ASSUME NEW rows, NEW q, Usable(rows, q), NEW S, S \subseteq DOMAIN rows,
           NEW i, i = q.indicator
    PROVE  /\ Measured(Column(rows, S, i)) /\ Recorded(Column(rows, S, i))
           /\ DOMAIN Column(rows, S, i) = Filled(rows, S, i)
           /\ Readings(rows, S, i) = Figures(Column(rows, S, i))
           /\ Readings(rows, S, i) \in SUBSET Int /\ IsFiniteSet(Readings(rows, S, i))
<1>1. DOMAIN Column(rows, S, i) = Filled(rows, S, i)
  BY DEF Column
<1>2. DOMAIN Column(rows, S, i) \subseteq DOMAIN rows
  BY <1>1, WindowParts
<1>3. IsFiniteSet(DOMAIN Column(rows, S, i))
  BY <1>2, PositionsAreFinite DEF Usable
<1>4. \A n \in DOMAIN Column(rows, S, i) : rows[n].values[i] \in Float
  BY <1>1, <1>2, RowsAre DEF Filled
<1>5. Column(rows, S, i) \in [DOMAIN Column(rows, S, i) -> Float]
  BY <1>1, <1>4 DEF Column
<1>6. Measured(Column(rows, S, i)) /\ Recorded(Column(rows, S, i))
  BY <1>3, <1>5, RecordedIs DEF Recorded
<1>7. Readings(rows, S, i) = Figures(Column(rows, S, i))
  BY DEF Readings, Figures, Column
<1> QED BY <1>1, <1>6, <1>7, FiguresAre

LEMMA HistoryIsMeasured ==
    ASSUME NEW rows, NEW q, Usable(rows, q)
    PROVE  /\ Measured(History(rows, q)) /\ Recorded(History(rows, q))
           /\ DOMAIN History(rows, q) = Filled(rows, Baseline(rows, q), q.indicator)
<1>1. History(rows, q) = Column(rows, Baseline(rows, q), q.indicator)
  BY DEF History, Column
<1>2. Baseline(rows, q) \subseteq DOMAIN rows
  BY DEF Baseline
<1>3. PICK S : S = Baseline(rows, q)
  OBVIOUS
<1> QED BY <1>1, <1>2, <1>3, ColumnIsMeasured

\* The screen of a target against enough of a history.
Assessed(q, base, f, t) ==
    IF Overflows(Estimates(f, t)) THEN Unavailable
    ELSE _summary(q, base, f, Verdict(Estimates(f, t)))

\* What a screen is made of.
ScreenOf(s, rows, q, f, base, goals) ==
    s = IF Cardinality(goals) # 1 \/ Filled(rows, goals, q.indicator) = {}
        THEN _summary(q, base, f, Unscreened("target_unavailable", Null, Null))
        ELSE IF Cardinality(DOMAIN f) < MIN_HISTORY_POINTS
        THEN _summary(q, base, f, Unscreened("insufficient_history", Null, Null))
        ELSE Assessed(q, base, f, Target(rows, q))

LEMMA ScreenIs ==
    ASSUME NEW rows, NEW q
    PROVE  ScreenOf(screen_public_anomaly(rows, q), rows, q, History(rows, q),
                    Baseline(rows, q), Targets(rows, q))
  BY DEF screen_public_anomaly, Assessed, ScreenOf

LEMMA PairsWithin ==
    ASSUME NEW b, NEW S, NEW T, Pairs(b, S, T), NEW A, NEW B, A \subseteq S, B \subseteq T,
           \A s \in S : s \in A <=> b[s] \in B
    PROVE  Pairs([s \in A |-> b[s]], A, B)
  BY DEF Pairs

LEMMA PairedPartsHaveOneSize ==
    ASSUME NEW b, NEW S, NEW T, Pairs(b, S, T), NEW A, NEW B, A \subseteq S, B \subseteq T,
           \A s \in S : s \in A <=> b[s] \in B, IsFiniteSet(A)
    PROVE  IsFiniteSet(B) /\ Cardinality(B) = Cardinality(A)
<1>1. PICK c : c = [s \in A |-> b[s]]
  OBVIOUS
<1>2. Pairs(c, A, B)
  BY <1>1, PairsWithin
<1> QED BY <1>2, PairedSetsHaveOneSize

\* The rows of the window of q, and its target.
Span(rows, q) == { n \in DOMAIN rows : rows[n].timestamp \in q.end - q.hours .. q.end }

SameRows(b, rows, other, q) ==
    /\ Pairs(b, Span(other, q), Span(rows, q))
    /\ \A n \in Span(other, q) : /\ other[n].timestamp = rows[b[n]].timestamp
                                 /\ other[n].values = rows[b[n]].values

LEMMA SpanParts ==
    ASSUME NEW rows, NEW q, Usable(rows, q)
    PROVE  /\ Baseline(rows, q) \subseteq Span(rows, q)
           /\ Targets(rows, q) \subseteq Span(rows, q)
           /\ \A n \in Span(rows, q) :
                 /\ n \in Baseline(rows, q) <=> InBaseline(q, rows[n].timestamp)
                 /\ n \in Targets(rows, q) <=> rows[n].timestamp = q.end
<1>1. q.end \in Int /\ q.hours \in Nat /\ q.hours # 0
  BY DEF Usable
<1>2. \A n \in DOMAIN rows : rows[n].timestamp \in Int
  BY RowsAre
<1>3. Baseline(rows, q) \subseteq Span(rows, q)
  BY <1>1, <1>2 DEF Baseline, Span, InBaseline
<1>4. Targets(rows, q) \subseteq Span(rows, q)
  BY <1>1, <1>2 DEF Targets, Span
<1>5. \A n \in Span(rows, q) : rows[n].timestamp = q.end => ~InBaseline(q, rows[n].timestamp)
  BY <1>1 DEF InBaseline
<1> QED BY <1>3, <1>4, <1>5 DEF Baseline, Targets, Span

\* A screen depends on the rows of its window alone, and not on their order.
LEMMA ScreenStays ==
    ASSUME NEW rows, NEW other, NEW q, Usable(rows, q), Usable(other, q),
           NEW b, SameRows(b, rows, other, q)
    PROVE  screen_public_anomaly(other, q) = screen_public_anomaly(rows, q)
<1> DEFINE i == q.indicator
           S == Span(other, q)
           T == Span(rows, q)
           base == Baseline(rows, q)
           base2 == Baseline(other, q)
           goals == Targets(rows, q)
           goals2 == Targets(other, q)
<1>1. /\ Pairs(b, S, T) /\ base \subseteq T /\ base2 \subseteq S /\ goals \subseteq T /\ goals2 \subseteq S
      /\ \A n \in S : /\ b[n] \in T
                      /\ other[n].timestamp = rows[b[n]].timestamp
                      /\ other[n].values = rows[b[n]].values
  BY SpanParts DEF SameRows, Pairs
<1>2. \A n \in S : n \in base2 <=> b[n] \in base
  BY <1>1, SpanParts
<1>3. \A n \in S : n \in goals2 <=> b[n] \in goals
  BY <1>1, SpanParts
<1>4. \A n \in S : /\ n \in Filled(other, base2, i) <=> b[n] \in Filled(rows, base, i)
                   /\ n \in Filled(other, goals2, i) <=> b[n] \in Filled(rows, goals, i)
  BY <1>1, <1>2, <1>3 DEF Filled
<1>5. /\ Filled(other, base2, i) \subseteq S /\ Filled(rows, base, i) \subseteq T
      /\ Filled(other, goals2, i) \subseteq S /\ Filled(rows, goals, i) \subseteq T
  BY <1>1 DEF Filled
<1>6. S \subseteq DOMAIN other /\ T \subseteq DOMAIN rows
  BY DEF Span
<1>7. /\ IsFiniteSet(base2) /\ IsFiniteSet(goals2)
      /\ IsFiniteSet(base2 \ Filled(other, base2, i))
  <2>1. /\ base2 \subseteq DOMAIN other /\ goals2 \subseteq DOMAIN other
        /\ base2 \ Filled(other, base2, i) \subseteq DOMAIN other
    BY <1>1, <1>6
  <2> QED BY <2>1, PositionsAreFinite DEF Usable
<1> HIDE DEF S, T, base, base2, goals, goals2
<1>8. Cardinality(base2) = Cardinality(base)
  BY <1>1, <1>2, <1>7, PairedPartsHaveOneSize
<1>9. Cardinality(goals2) = Cardinality(goals)
  BY <1>1, <1>3, <1>7, PairedPartsHaveOneSize
<1>10. Cardinality(base2 \ Filled(other, base2, i)) = Cardinality(base \ Filled(rows, base, i))
  <2>1. PICK A, B : A = base2 \ Filled(other, base2, i) /\ B = base \ Filled(rows, base, i)
    OBVIOUS
  <2>2. /\ A \subseteq S /\ B \subseteq T /\ IsFiniteSet(A) /\ Pairs(b, S, T)
        /\ \A n \in S : n \in A <=> b[n] \in B
    BY <1>1, <1>2, <1>4, <1>7, <2>1
  <2>3. Cardinality(B) = Cardinality(A)
    BY <2>2, PairedPartsHaveOneSize
  <2> QED BY <2>1, <2>3
<1>11. Filled(other, goals2, i) = {} <=> Filled(rows, goals, i) = {}
  BY <1>1, <1>4, <1>5 DEF Pairs
<1>12. ASSUME Cardinality(goals) = 1
       PROVE  Target(other, q) = Target(rows, q)
  <2>1. PICK x : goals2 = {x}
    BY <1>7, <1>9, <1>12, FS_Singleton
  <2>2. IsFiniteSet(goals)
    BY <1>1, <1>3, <1>7, PairedPartsHaveOneSize
  <2>3. PICK y : goals = {y}
    BY <1>12, <2>2, FS_Singleton
  <2>4. b[x] = y /\ x \in S
    BY <1>1, <1>3, <2>1, <2>3
  <2>5. other[x].values = rows[y].values
    BY <1>1, <2>4
  <2>6. (CHOOSE n \in goals2 : TRUE) = x /\ (CHOOSE n \in goals : TRUE) = y
    BY <2>1, <2>3
  <2> QED BY <2>5, <2>6 DEF Target, goals, goals2
<1>13. PICK f, g : f = History(rows, q) /\ g = History(other, q)
  OBVIOUS
<1>14. /\ Measured(f) /\ DOMAIN f = Filled(rows, base, i)
       /\ Measured(g) /\ DOMAIN g = Filled(other, base2, i)
  BY <1>13, HistoryIsMeasured DEF base, base2
<1>15. PICK c : c = [n \in DOMAIN g |-> b[n]]
  OBVIOUS
<1>16. Moved(c, f, g)
  <2>1. Pairs(c, DOMAIN g, DOMAIN f)
    BY <1>1, <1>4, <1>5, <1>14, <1>15, PairsWithin
  <2>2. \A n \in DOMAIN g : g[n] = f[c[n]]
    <3>1. ASSUME NEW n \in DOMAIN g PROVE g[n] = f[c[n]]
      <4>1. n \in S /\ c[n] = b[n] /\ b[n] \in DOMAIN f
        BY <1>4, <1>5, <1>14, <1>15
      <4>2. g[n] = other[n].values[i] /\ f[b[n]] = rows[b[n]].values[i]
        BY <1>13, <1>14, <4>1 DEF History
      <4> QED BY <1>1, <4>1, <4>2
    <3> QED BY <3>1
  <2> QED BY <1>14, <2>1, <2>2 DEF Moved
<1>17. Cardinality(DOMAIN g) = Cardinality(DOMAIN f)
  BY <1>14, <1>16, PairedSetsHaveOneSize DEF Moved, Measured
<1>18. ASSUME ~(Cardinality(DOMAIN f) < MIN_HISTORY_POINTS), NEW t
       PROVE  Estimates(g, t) = Estimates(f, t)
  <2>1. DOMAIN g # {}
    <3>1. SUFFICES ASSUME DOMAIN g = {} PROVE FALSE
      OBVIOUS
    <3>2. Cardinality(DOMAIN f) = 0
      BY <1>17, <3>1, FS_EmptySet
    <3> QED BY <1>18, <3>2, HistoryOK
  <2> QED BY <1>16, <2>1, EstimatesStay
<1> QED
  <2>1. base = Baseline(rows, q) /\ base2 = Baseline(other, q) /\ goals = Targets(rows, q) /\ goals2 = Targets(other, q)
    BY DEF base, base2, goals, goals2
  <2>2. ASSUME NEW v PROVE _summary(q, base2, g, v) = _summary(q, base, f, v)
    BY <1>8, <1>10, <1>14 DEF _summary
  <2>3. ASSUME ~(Cardinality(DOMAIN f) < MIN_HISTORY_POINTS), NEW t
        PROVE  Assessed(q, base2, g, t) = Assessed(q, base, f, t)
    BY <1>18, <2>2, <2>3 DEF Assessed
  <2>4. PICK s, r : s = screen_public_anomaly(rows, q) /\ r = screen_public_anomaly(other, q)
    OBVIOUS
  <2>0. /\ ScreenOf(s, rows, q, f, base, goals)
        /\ ScreenOf(r, other, q, g, base2, goals2)
    BY <1>13, <2>1, <2>4, ScreenIs
  <2>5. s = IF Cardinality(goals) # 1 \/ Filled(rows, goals, i) = {}
            THEN _summary(q, base, f, Unscreened("target_unavailable", Null, Null))
            ELSE IF Cardinality(DOMAIN f) < MIN_HISTORY_POINTS
            THEN _summary(q, base, f, Unscreened("insufficient_history", Null, Null))
            ELSE Assessed(q, base, f, Target(rows, q))
    BY <2>0 DEF ScreenOf
  <2>6. r = IF Cardinality(goals2) # 1 \/ Filled(other, goals2, i) = {}
            THEN _summary(q, base2, g, Unscreened("target_unavailable", Null, Null))
            ELSE IF Cardinality(DOMAIN g) < MIN_HISTORY_POINTS
            THEN _summary(q, base2, g, Unscreened("insufficient_history", Null, Null))
            ELSE Assessed(q, base2, g, Target(other, q))
    BY <2>0 DEF ScreenOf
  <2>7. CASE Cardinality(goals) # 1 \/ Filled(rows, goals, i) = {}
    BY <1>9, <1>11, <2>2, <2>4, <2>5, <2>6, <2>7
  <2>8. CASE ~(Cardinality(goals) # 1 \/ Filled(rows, goals, i) = {})
    BY <1>9, <1>11, <1>12, <1>17, <2>2, <2>3, <2>4, <2>5, <2>6, <2>8
  <2> QED BY <2>7, <2>8

LEMMA SwappedIs ==
    ASSUME NEW rows, NEW q, Usable(rows, q), NEW m \in DOMAIN rows, NEW n \in DOMAIN rows, m # n
    PROVE  screen_public_anomaly(Swapped(rows, m, n), q) = screen_public_anomaly(rows, q)
<1>1. PICK other : other = Swapped(rows, m, n)
  OBVIOUS
<1>2. PICK p : p = [k \in DOMAIN rows |-> IF k = m THEN n ELSE IF k = n THEN m ELSE k]
  OBVIOUS
<1>3. /\ rows \in Seq(Observation) /\ Readable(rows)
  BY DEF Usable
<1>4. other \in Seq(Observation) /\ DOMAIN other = DOMAIN rows
  BY <1>1, <1>3 DEF Swapped
<1>5. \A k \in DOMAIN rows : other[k] = rows[p[k]] /\ p[k] \in DOMAIN rows /\ p[p[k]] = k
  BY <1>1, <1>2 DEF Swapped
<1>6. Usable(other, q)
  <2>1. Readable(other)
    BY <1>3, <1>4, <1>5 DEF Readable
  <2> QED BY <1>4, <2>1 DEF Usable
<1>7. PICK b : b = [k \in Span(other, q) |-> p[k]]
  OBVIOUS
<1>8. SameRows(b, rows, other, q)
  <2>1. \A k \in Span(other, q) : k \in DOMAIN rows /\ p[k] \in Span(rows, q) /\ b[k] = p[k]
    BY <1>4, <1>5, <1>7 DEF Span
  <2>2. \A k \in Span(rows, q) : p[k] \in Span(other, q) /\ b[p[k]] = k
    BY <1>4, <1>5, <1>7 DEF Span
  <2>3. \A k, l \in Span(other, q) : b[k] = b[l] => k = l
    BY <1>5, <2>1
  <2>4. Pairs(b, Span(other, q), Span(rows, q))
    BY <1>7, <2>1, <2>2, <2>3 DEF Pairs
  <2> QED BY <1>5, <2>1, <2>4 DEF SameRows
<1> QED BY <1>1, <1>6, <1>8, ScreenStays

LEMMA RemovedIs ==
    ASSUME NEW rows, rows \in Seq(Observation), NEW n \in DOMAIN rows
    PROVE  /\ RemoveAt(rows, n) \in Seq(Observation)
           /\ Len(RemoveAt(rows, n)) = Len(rows) - 1
           /\ \A k \in 1 .. Len(rows) - 1 :
                 RemoveAt(rows, n)[k] = rows[IF k < n THEN k ELSE k + 1]
<1>1. Len(rows) \in Nat /\ n \in 1 .. Len(rows)
  OBVIOUS
<1>2. PICK x, y : x = SubSeq(rows, 1, n - 1) /\ y = SubSeq(rows, n + 1, Len(rows))
  OBVIOUS
<1>3. /\ x \in Seq(Observation) /\ Len(x) = n - 1
      /\ \A k \in 1 .. n - 1 : x[k] = rows[k]
  BY <1>1, <1>2
<1>4. /\ y \in Seq(Observation) /\ Len(y) = Len(rows) - n
      /\ \A k \in 1 .. Len(rows) - n : y[k] = rows[n + k]
  BY <1>1, <1>2
<1>5. RemoveAt(rows, n) = x \o y
  BY <1>2 DEF RemoveAt
<1>6. ASSUME NEW k \in 1 .. Len(rows) - 1
      PROVE  (x \o y)[k] = rows[IF k < n THEN k ELSE k + 1]
  <2>1. CASE k < n
    BY <1>1, <1>3, <1>4, <2>1
  <2>2. CASE ~(k < n)
    <3>1. (x \o y)[k] = y[k - (n - 1)]
      BY <1>1, <1>3, <1>4, <2>2, SMTT(30)
    <3>2. k - (n - 1) \in 1 .. Len(rows) - n /\ n + (k - (n - 1)) = k + 1
      BY <1>1, <2>2
    <3> QED BY <1>4, <2>2, <3>1, <3>2
  <2> QED BY <2>1, <2>2
<1> QED BY <1>1, <1>3, <1>4, <1>5, <1>6

LEMMA RowsBesideGo ==
    ASSUME NEW rows, NEW q, Usable(rows, q), NEW n \in DOMAIN rows,
           rows[n].timestamp \notin q.end - q.hours .. q.end
    PROVE  screen_public_anomaly(RemoveAt(rows, n), q) = screen_public_anomaly(rows, q)
<1>1. PICK other : other = RemoveAt(rows, n)
  OBVIOUS
<1>2. PICK p : p = [k \in 1 .. Len(rows) - 1 |-> IF k < n THEN k ELSE k + 1]
  OBVIOUS
<1>3. rows \in Seq(Observation) /\ Readable(rows) /\ Len(rows) \in Nat /\ n \in 1 .. Len(rows)
      /\ DOMAIN rows = 1 .. Len(rows)
  BY DEF Usable
<1>4. /\ other \in Seq(Observation) /\ DOMAIN other = 1 .. Len(rows) - 1
      /\ \A k \in DOMAIN other : other[k] = rows[p[k]]
  <2>1. /\ other \in Seq(Observation) /\ Len(other) = Len(rows) - 1
        /\ \A k \in 1 .. Len(rows) - 1 : other[k] = rows[IF k < n THEN k ELSE k + 1]
    BY <1>1, <1>3, RemovedIs
  <2>2. DOMAIN other = 1 .. Len(rows) - 1
    BY <2>1
  <2> QED BY <1>2, <2>1, <2>2
<1>5. /\ \A k \in DOMAIN other : p[k] \in DOMAIN rows /\ p[k] # n
      /\ \A k, l \in DOMAIN other : p[k] = p[l] => k = l
      /\ \A j \in DOMAIN rows : j # n => \E k \in DOMAIN other : p[k] = j
  <2>1. \A k \in DOMAIN other : p[k] \in DOMAIN rows /\ p[k] # n
    BY <1>2, <1>3, <1>4
  <2>2. \A k, l \in DOMAIN other : p[k] = p[l] => k = l
    BY <1>2, <1>3, <1>4
  <2>3. ASSUME NEW j \in DOMAIN rows, j # n
        PROVE  \E k \in DOMAIN other : p[k] = j
    <3>1. CASE j < n
      <4>1. j \in DOMAIN other /\ p[j] = j
        BY <1>2, <1>3, <1>4, <3>1
      <4> QED BY <4>1
    <3>2. CASE n < j
      <4>1. j - 1 \in DOMAIN other /\ p[j - 1] = j
        BY <1>2, <1>3, <1>4, <3>2
      <4> QED BY <4>1
    <3> QED BY <1>3, <2>3, <3>1, <3>2
  <2> QED BY <2>1, <2>2, <2>3
<1>6. Usable(other, q)
  <2>1. Readable(other)
    BY <1>3, <1>4, <1>5 DEF Readable
  <2> QED BY <1>4, <2>1 DEF Usable
<1>7. PICK b : b = [k \in Span(other, q) |-> p[k]]
  OBVIOUS
<1>8. SameRows(b, rows, other, q)
  <2>1. \A k \in Span(other, q) : k \in DOMAIN other /\ p[k] \in Span(rows, q) /\ b[k] = p[k]
    BY <1>4, <1>5, <1>7 DEF Span
  <2>2. \A j \in Span(rows, q) : \E k \in Span(other, q) : b[k] = j
    <3>1. ASSUME NEW j \in Span(rows, q) PROVE \E k \in Span(other, q) : b[k] = j
      <4>1. j \in DOMAIN rows /\ j # n
        BY DEF Span
      <4>2. PICK k \in DOMAIN other : p[k] = j
        BY <1>5, <4>1
      <4>3. k \in Span(other, q)
        BY <1>4, <4>2 DEF Span
      <4> QED BY <1>7, <4>2, <4>3
    <3> QED BY <3>1
  <2>3. \A k, l \in Span(other, q) : b[k] = b[l] => k = l
    BY <1>5, <2>1
  <2>4. Pairs(b, Span(other, q), Span(rows, q))
    BY <1>7, <2>1, <2>2, <2>3 DEF Pairs
  <2> QED BY <1>4, <2>1, <2>4 DEF SameRows
<1> QED BY <1>1, <1>6, <1>8, ScreenStays

\* Rows that only differ in their readings: their windows are the same.
LEMMA SameTimes ==
    ASSUME NEW rows, NEW other, NEW q, DOMAIN other = DOMAIN rows,
           \A n \in DOMAIN rows : other[n].timestamp = rows[n].timestamp
    PROVE  Baseline(other, q) = Baseline(rows, q) /\ Targets(other, q) = Targets(rows, q)
  BY DEF Baseline, Targets

LEMMA ScreenKinds ==
    ASSUME NEW rows, NEW q, Usable(rows, q), NEW s, s = screen_public_anomaly(rows, q),
           NEW i, i = q.indicator, NEW f, f = History(rows, q),
           NEW goals, goals = Targets(rows, q)
    PROVE  \/ /\ Cardinality(goals) # 1 \/ Filled(rows, goals, i) = {}
              /\ s = _summary(q, Baseline(rows, q), f,
                              Unscreened("target_unavailable", Null, Null))
           \/ /\ Cardinality(goals) = 1 /\ Filled(rows, goals, i) # {}
              /\ Cardinality(DOMAIN f) < MIN_HISTORY_POINTS
              /\ s = _summary(q, Baseline(rows, q), f,
                              Unscreened("insufficient_history", Null, Null))
           \/ /\ Cardinality(goals) = 1
              /\ ~(Cardinality(DOMAIN f) < MIN_HISTORY_POINTS) /\ DOMAIN f # {}
              /\ \E g : /\ goals = {g} /\ g \in DOMAIN rows /\ rows[g].timestamp = q.end
                        /\ rows[g].values[i] \in Float /\ Target(rows, q) = rows[g].values[i]
                        /\ s = Assessed(q, Baseline(rows, q), f, rows[g].values[i])
<1>0. ScreenOf(s, rows, q, f, Baseline(rows, q), goals)
  BY ScreenIs
<1>1. CASE Cardinality(goals) # 1 \/ Filled(rows, goals, i) = {}
  BY <1>0, <1>1 DEF ScreenOf
<1>2. CASE /\ Cardinality(goals) = 1 /\ Filled(rows, goals, i) # {}
           /\ Cardinality(DOMAIN f) < MIN_HISTORY_POINTS
  BY <1>0, <1>2 DEF ScreenOf
<1>3. CASE /\ Cardinality(goals) = 1 /\ Filled(rows, goals, i) # {}
           /\ ~(Cardinality(DOMAIN f) < MIN_HISTORY_POINTS)
  <2>1. goals \subseteq DOMAIN rows /\ \A n \in goals : rows[n].timestamp = q.end
    BY DEF Targets
  <2>2. IsFiniteSet(goals)
    BY <2>1, PositionsAreFinite DEF Usable
  <2>3. PICK g : goals = {g}
    BY <1>3, <2>2, FS_Singleton
  <2>4. (CHOOSE n \in goals : TRUE) = g /\ g \in DOMAIN rows
    BY <2>1, <2>3
  <2>5. rows[g].values[i] # Null
    BY <1>3, <2>3 DEF Filled
  <2>6. rows[g].values[i] \in Float /\ Target(rows, q) = rows[g].values[i]
    BY <2>4, <2>5, RowsAre DEF Target
  <2>7. s = Assessed(q, Baseline(rows, q), f, rows[g].values[i])
    BY <1>0, <1>3, <2>6 DEF ScreenOf
  <2>8. DOMAIN f # {}
    <3>1. SUFFICES ASSUME DOMAIN f = {} PROVE FALSE
      OBVIOUS
    <3>2. Cardinality(DOMAIN f) = 0
      BY <3>1, FS_EmptySet
    <3> QED BY <1>3, <3>2, HistoryOK
  <2>9. rows[g].timestamp = q.end
    BY <2>1, <2>3
  <2> QED BY <1>3, <2>3, <2>4, <2>6, <2>7, <2>8, <2>9
<1> QED BY <1>1, <1>2, <1>3

LEMMA MirroredIs ==
    ASSUME NEW rows, NEW q, Usable(rows, q), NEW other, other = Mirrored(rows)
    PROVE  /\ DOMAIN other = DOMAIN rows
           /\ \A n \in DOMAIN rows :
                 /\ other[n].timestamp = rows[n].timestamp
                 /\ other[n].values[q.indicator] = Minus(rows[n].values[q.indicator])
<1>1. DOMAIN other = DOMAIN rows
  BY DEF Mirrored
<1>2. ASSUME NEW n \in DOMAIN rows
      PROVE  /\ other[n].timestamp = rows[n].timestamp
             /\ other[n].values[q.indicator] = Minus(rows[n].values[q.indicator])
  <2>1. rows[n] \in Observation /\ q.indicator \in Indicators
    BY DEF Usable
  <2>2. PICK w : w = [i \in Indicators |-> Minus(rows[n].values[i])]
    OBVIOUS
  <2>3. other[n] = [rows[n] EXCEPT !.values = w]
    BY <2>2 DEF Mirrored
  <2>4. other[n].timestamp = rows[n].timestamp /\ other[n].values = w
    BY <2>1, <2>3 DEF Observation
  <2> QED BY <2>1, <2>2, <2>4
<1> QED BY <1>1, <1>2

LEMMA FlippedSummary ==
    ASSUME NEW q, NEW base, NEW f, NEW v
    PROVE  Flipped(_summary(q, base, f, v)) = _summary(q, base, f, FlippedVerdict(v))
<1>1. PICK s, a, b, d : /\ s = _summary(q, base, f, v)
                        /\ a = Minus(v.baseline_median) /\ b = Minus(v.robust_score)
                        /\ d = Opposite[v.direction]
  OBVIOUS
<1>2. PICK time, start, count, nulls : /\ time = q.end /\ start = q.end - q.hours
                                       /\ count = Cardinality(base)
                                       /\ nulls = Cardinality(base \ DOMAIN f)
  OBVIOUS
<1>3. PICK median, scale, score, method, direction, outcome :
           /\ median = v.baseline_median /\ scale = v.baseline_scale /\ score = v.robust_score
           /\ method = v.method /\ direction = v.direction /\ outcome = v.outcome
  OBVIOUS
<1> DEFINE Rec(x, y, z) ==
      [target_time |-> time, baseline_start |-> start, baseline_end |-> time,
       history_count |-> count, history_null_count |-> nulls,
       baseline_median |-> x, baseline_scale |-> scale, robust_score |-> y,
       method |-> method, direction |-> z, outcome |-> outcome]
<1>4. s = Rec(median, score, direction)
  BY <1>1, <1>2, <1>3 DEF _summary
<1>5. _summary(q, base, f, FlippedVerdict(v)) = Rec(a, b, d)
  BY <1>1, <1>2, <1>3 DEF _summary, FlippedVerdict
<1>6. /\ s.baseline_median = v.baseline_median /\ s.robust_score = v.robust_score
      /\ s.direction = v.direction
  BY <1>3, <1>4
<1>7. Flipped(s) = [s EXCEPT !.baseline_median = a, !.robust_score = b, !.direction = d]
  BY <1>1, <1>6 DEF Flipped
<1>8. PICK s1 : s1 = [s EXCEPT !.baseline_median = a]
  OBVIOUS
<1>9. PICK s2 : s2 = [s1 EXCEPT !.robust_score = b]
  OBVIOUS
<1>10. PICK s3 : s3 = [s2 EXCEPT !.direction = d]
  OBVIOUS
<1>11. [s EXCEPT !.baseline_median = a, !.robust_score = b, !.direction = d] = s3
  BY <1>8, <1>9, <1>10
<1>12. s1 = Rec(a, score, direction)
  BY <1>4, <1>8
<1>13. s2 = Rec(a, b, direction)
  BY <1>9, <1>12
<1>14. s3 = Rec(a, b, d)
  BY <1>10, <1>13
<1> HIDE DEF Rec
<1> QED BY <1>1, <1>5, <1>7, <1>11, <1>14

LEMMA UnscreenedFlips ==
    ASSUME NEW reason
    PROVE  FlippedVerdict(Unscreened(reason, Null, Null)) = Unscreened(reason, Null, Null)
<1>1. Minus(Null) = Null /\ Opposite["unavailable"] = "unavailable"
  BY DEF Minus, Opposite
<1> QED BY <1>1 DEF FlippedVerdict, Unscreened

\* Mirrored rows give the mirrored screen, unless quartiles that lie between
\* readings made its scale.
LEMMA ScreenMirrors ==
    ASSUME NEW rows, NEW q, Usable(rows, q), NEW s, s = screen_public_anomaly(rows, q),
           s # Unavailable
    PROVE  MirrorsVerdict(rows, q, s)
<1>1. PICK other, i : other = Mirrored(rows) /\ i = q.indicator
  OBVIOUS
<1>2. /\ DOMAIN other = DOMAIN rows
      /\ \A n \in DOMAIN rows : /\ other[n].timestamp = rows[n].timestamp
                                /\ other[n].values[i] = Minus(rows[n].values[i])
  BY <1>1, MirroredIs
<1>3. PICK base, goals : base = Baseline(rows, q) /\ goals = Targets(rows, q)
  OBVIOUS
<1>4. base = Baseline(other, q) /\ goals = Targets(other, q)
  BY <1>2, <1>3, SameTimes
<1>5. base \subseteq DOMAIN rows /\ goals \subseteq DOMAIN rows
  BY <1>3 DEF Baseline, Targets
<1>6. \A n \in DOMAIN rows : /\ rows[n].values[i] \in Int \cup {Null}
                             /\ other[n].values[i] = Null <=> rows[n].values[i] = Null
  <2>1. \A n \in DOMAIN rows : rows[n].values[i] \in Int \cup {Null}
    BY <1>1, RowsAre
  <2>2. Minus(Null) = Null
    BY DEF Minus
  <2> QED BY <1>2, <2>1, <2>2, NullIsNoNumber
<1>7. /\ Filled(other, base, i) = Filled(rows, base, i)
      /\ Filled(other, goals, i) = Filled(rows, goals, i)
  BY <1>5, <1>6 DEF Filled
<1>8. PICK f, g, r : f = History(rows, q) /\ g = History(other, q) /\ r = screen_public_anomaly(other, q)
  OBVIOUS
<1>9. Recorded(f) /\ DOMAIN f = Filled(rows, base, i)
  BY <1>1, <1>3, <1>8, HistoryIsMeasured
<1>10. g = Negative(f) /\ DOMAIN g = DOMAIN f
  <2>1. DOMAIN g = DOMAIN f /\ \A n \in DOMAIN f : g[n] = other[n].values[i] /\ f[n] = rows[n].values[i]
    BY <1>1, <1>3, <1>4, <1>7, <1>8 DEF History
  <2>2. \A n \in DOMAIN f : n \in DOMAIN rows /\ rows[n].values[i] # Null
    BY <1>5, <1>9 DEF Filled
  <2>3. \A n \in DOMAIN f : g[n] = -f[n]
    BY <1>2, <2>1, <2>2 DEF Minus
  <2>4. g = [n \in DOMAIN g |-> g[n]]
    BY <1>8 DEF History
  <2> QED BY <2>1, <2>3, <2>4 DEF Negative
<1>11. r = IF Cardinality(goals) # 1 \/ Filled(rows, goals, i) = {}
           THEN _summary(q, base, g, Unscreened("target_unavailable", Null, Null))
           ELSE IF Cardinality(DOMAIN f) < MIN_HISTORY_POINTS
           THEN _summary(q, base, g, Unscreened("insufficient_history", Null, Null))
           ELSE Assessed(q, base, g, Target(other, q))
  <2>1. ScreenOf(r, other, q, g, base, goals)
    BY <1>4, <1>8, ScreenIs
  <2> QED BY <1>1, <1>7, <1>10, <2>1 DEF ScreenOf
<1>20. ScreenOf(s, rows, q, f, base, goals)
  BY <1>3, <1>8, ScreenIs
<1>12. ASSUME NEW v PROVE _summary(q, base, g, v) = _summary(q, base, f, v)
  BY <1>10 DEF _summary
<1>13. ASSUME s.method \in {"rolling_median_iqr_fallback", "insufficient_variability"}
                 => QuartilesAreReadings(f)
       PROVE  r = Flipped(s)
  <2>1. CASE Cardinality(goals) # 1 \/ Filled(rows, goals, i) = {}
    <3>1. s = _summary(q, base, f, Unscreened("target_unavailable", Null, Null))
      BY <1>1, <1>20, <2>1 DEF ScreenOf
    <3> QED BY <1>11, <1>12, <2>1, <3>1, FlippedSummary, UnscreenedFlips
  <2>2. CASE /\ ~(Cardinality(goals) # 1 \/ Filled(rows, goals, i) = {})
             /\ Cardinality(DOMAIN f) < MIN_HISTORY_POINTS
    <3>1. s = _summary(q, base, f, Unscreened("insufficient_history", Null, Null))
      BY <1>1, <1>20, <2>2 DEF ScreenOf
    <3> QED BY <1>11, <1>12, <2>2, <3>1, FlippedSummary, UnscreenedFlips
  <2>3. CASE /\ ~(Cardinality(goals) # 1 \/ Filled(rows, goals, i) = {})
             /\ ~(Cardinality(DOMAIN f) < MIN_HISTORY_POINTS)
    <3>1. /\ DOMAIN f # {}
          /\ \E n : /\ goals = {n} /\ n \in DOMAIN rows /\ rows[n].values[i] \in Float
                    /\ s = Assessed(q, base, f, rows[n].values[i])
      BY <1>1, <1>3, <1>8, <2>3, ScreenKinds
    <3>2. PICK n : /\ goals = {n} /\ n \in DOMAIN rows /\ rows[n].values[i] \in Float
                   /\ s = Assessed(q, base, f, rows[n].values[i])
      BY <3>1
    <3>3. PICK t : t = rows[n].values[i]
      OBVIOUS
    <3>4. t \in Int
      BY <3>2, <3>3, FloatIs
    <3>5. Target(other, q) = -t
      <4>1. (CHOOSE k \in goals : TRUE) = n
        BY <3>2
      <4>2. other[n].values[i] = -t
        BY <1>2, <3>2, <3>3, <3>4, NullIsNoNumber
      <4> QED BY <1>1, <1>4, <4>1, <4>2 DEF Target
    <3>6. PICK e, d : e = Estimates(f, t) /\ d = Estimates(g, -t)
      OBVIOUS
    <3>7. ~Overflows(e) /\ s = _summary(q, base, f, Verdict(e))
      BY <3>2, <3>3, <3>6 DEF Assessed
    <3>8. PICK x : x = Verdict(e)
      OBVIOUS
    <3>9. s.method = x.method
      BY <3>7, <3>8 DEF _summary
    <3>10. ~Overflows(d) /\ Verdict(d) = FlippedVerdict(x)
      BY <1>9, <1>10, <1>13, <3>1, <3>4, <3>6, <3>7, <3>8, <3>9, VerdictMirrors
    <3>11. r = _summary(q, base, g, FlippedVerdict(x))
      BY <1>11, <2>3, <3>5, <3>6, <3>10 DEF Assessed
    <3>12. _summary(q, base, g, FlippedVerdict(x)) = _summary(q, base, f, FlippedVerdict(x))
      BY <1>12
    <3> QED BY <3>7, <3>8, <3>11, <3>12, FlippedSummary
  <2> QED BY <2>1, <2>2, <2>3
<1> QED BY <1>1, <1>8, <1>13 DEF MirrorsVerdict

LEMMA TargetIs ==
    ASSUME NEW rows, NEW q, Usable(rows, q), NEW v, NEW other, other = WithTarget(rows, q, v)
    PROVE  /\ DOMAIN other = DOMAIN rows
           /\ \A n \in DOMAIN rows :
                 /\ other[n].timestamp = rows[n].timestamp
                 /\ other[n].values[q.indicator] =
                       IF rows[n].timestamp = q.end THEN v ELSE rows[n].values[q.indicator]
<1>1. DOMAIN other = DOMAIN rows
  BY DEF WithTarget
<1>2. ASSUME NEW n \in DOMAIN rows
      PROVE  /\ other[n].timestamp = rows[n].timestamp
             /\ other[n].values[q.indicator] =
                   IF rows[n].timestamp = q.end THEN v ELSE rows[n].values[q.indicator]
  <2>1. rows[n] \in Observation /\ q.indicator \in Indicators
    BY DEF Usable
  <2>2. other[n] = IF rows[n].timestamp = q.end
                   THEN [rows[n] EXCEPT !.values[q.indicator] = v] ELSE rows[n]
    BY DEF WithTarget
  <2> QED BY <2>1, <2>2 DEF Observation
<1> QED BY <1>1, <1>2

\* A target that is another reading of the file moves the score alone.
LEMMA ScreenFollows ==
    ASSUME NEW rows, NEW q, Usable(rows, q), NEW s, s = screen_public_anomaly(rows, q),
           s # Unavailable, s.outcome \in {"anomaly", "normal"}, NEW v \in Int
    PROVE  FollowsTarget(rows, q, s, v)
<1>1. PICK other, i : other = WithTarget(rows, q, v) /\ i = q.indicator
  OBVIOUS
<1>2. /\ DOMAIN other = DOMAIN rows
      /\ \A n \in DOMAIN rows :
            /\ other[n].timestamp = rows[n].timestamp
            /\ other[n].values[i] = IF rows[n].timestamp = q.end THEN v ELSE rows[n].values[i]
  BY <1>1, TargetIs
<1>3. PICK base, goals : base = Baseline(rows, q) /\ goals = Targets(rows, q)
  OBVIOUS
<1>4. base = Baseline(other, q) /\ goals = Targets(other, q)
  BY <1>2, <1>3, SameTimes
<1>5. /\ base \subseteq DOMAIN rows /\ goals \subseteq DOMAIN rows
      /\ \A n \in base : rows[n].timestamp # q.end
  <2>1. ~InBaseline(q, q.end)
    BY DEF InBaseline, Usable
  <2> QED BY <1>3, <2>1 DEF Baseline, Targets
<1>6. Filled(other, base, i) = Filled(rows, base, i)
  BY <1>2, <1>5 DEF Filled
<1>7. PICK f : f = History(rows, q)
  OBVIOUS
<1>8. Recorded(f) /\ DOMAIN f = Filled(rows, base, i)
  BY <1>1, <1>3, <1>7, HistoryIsMeasured
<1>9. History(other, q) = f
  <2>1. \A n \in Filled(rows, base, i) : other[n].values[i] = rows[n].values[i]
    BY <1>2, <1>5 DEF Filled
  <2> QED BY <1>1, <1>3, <1>4, <1>6, <1>7, <2>1 DEF History
<1>10. /\ Cardinality(goals) = 1 /\ ~(Cardinality(DOMAIN f) < MIN_HISTORY_POINTS)
       /\ DOMAIN f # {}
       /\ \E n : /\ goals = {n} /\ n \in DOMAIN rows /\ rows[n].timestamp = q.end
                 /\ rows[n].values[i] \in Float /\ Target(rows, q) = rows[n].values[i]
                 /\ s = Assessed(q, base, f, rows[n].values[i])
  <2>1. s # _summary(q, base, f, Unscreened("target_unavailable", Null, Null))
    BY DEF _summary, Unscreened
  <2>2. s # _summary(q, base, f, Unscreened("insufficient_history", Null, Null))
    BY DEF _summary, Unscreened
  <2> QED BY <1>1, <1>3, <1>7, <2>1, <2>2, ScreenKinds
<1>11. PICK n : /\ goals = {n} /\ n \in DOMAIN rows /\ rows[n].timestamp = q.end
                /\ rows[n].values[i] \in Float /\ Target(rows, q) = rows[n].values[i]
                /\ s = Assessed(q, base, f, rows[n].values[i])
  BY <1>10
<1>12. PICK t \in Int : t = rows[n].values[i]
  BY <1>11, FloatIs
<1>13. other[n].values[i] = v /\ v # Null
  BY <1>2, <1>11, NullIsNoNumber
<1>14. Target(other, q) = v
  <2>1. (CHOOSE k \in goals : TRUE) = n
    BY <1>11
  <2> QED BY <1>1, <1>4, <1>13, <2>1 DEF Target
<1>15. Filled(other, goals, i) # {}
  BY <1>11, <1>13 DEF Filled
<1>16. PICK moved : moved = screen_public_anomaly(other, q)
  OBVIOUS
<1>17. moved = Assessed(q, base, f, v)
  <2>1. ScreenOf(moved, other, q, f, base, goals)
    BY <1>4, <1>9, <1>16, ScreenIs
  <2> QED BY <1>1, <1>10, <1>14, <1>15, <2>1 DEF ScreenOf
<1>18. PICK e, r, x, y : e = Estimates(f, t) /\ r = Estimates(f, v) /\ x = Verdict(e) /\ y = Verdict(r)
  OBVIOUS
<1>19. ~Overflows(e) /\ s = _summary(q, base, f, x)
  BY <1>11, <1>12, <1>18 DEF Assessed
<1>20. /\ x.outcome = s.outcome /\ x.baseline_median = s.baseline_median
       /\ x.baseline_scale = s.baseline_scale /\ x.robust_score = s.robust_score
       /\ x.direction = s.direction
  BY <1>19 DEF _summary
<1>21. Follows(x, t, v, Overflows(r), y)
  BY <1>8, <1>10, <1>18, <1>19, <1>20, VerdictFollows
<1>22. CASE Overflows(r)
  <2>1. moved = Unavailable
    BY <1>17, <1>18, <1>22 DEF Assessed
  <2>2. ~Between(v, s.baseline_median, t)
    BY <1>20, <1>21, <1>22 DEF Follows
  <2> QED BY <1>1, <1>11, <1>12, <1>16, <2>1, <2>2 DEF FollowsTarget
<1>23. CASE ~Overflows(r)
  <2>1. moved = _summary(q, base, f, y)
    BY <1>17, <1>18, <1>23 DEF Assessed
  <2>2. /\ y.outcome = moved.outcome /\ y.baseline_median = moved.baseline_median
        /\ y.baseline_scale = moved.baseline_scale /\ y.robust_score = moved.robust_score
        /\ y.direction = moved.direction
    BY <2>1 DEF _summary
  <2>3. /\ moved.baseline_median = s.baseline_median /\ moved.baseline_scale = s.baseline_scale
        /\ v <= t => moved.robust_score <= s.robust_score
        /\ t <= v => s.robust_score <= moved.robust_score
        /\ s.outcome = "anomaly" /\ Between(t, s.baseline_median, v) =>
              moved.outcome = "anomaly" /\ moved.direction = s.direction
    BY <1>20, <1>21, <1>23, <2>2 DEF Follows
  <2>4. Target(rows, q) = t
    BY <1>11, <1>12
  <2> QED BY <1>1, <1>16, <2>3, <2>4 DEF FollowsTarget
<1> QED BY <1>22, <1>23

-----------------------------------------------------------------------------
(* Windows *)

Window(rows, q) == { n \in DOMAIN rows : InWindow(q, rows[n].timestamp) }

\* What an aggregate says of the readings of indicator i at w.
Describes(s, rows, w, i) ==
    /\ s.row_count = Cardinality(w)
    /\ s.null_count = Cardinality(w \ Filled(rows, w, i))
    /\ s.minimum = IF Filled(rows, w, i) = {} THEN Null ELSE Min(Readings(rows, w, i))
    /\ s.maximum = IF Filled(rows, w, i) = {} THEN Null ELSE Max(Readings(rows, w, i))

LEMMA AggregateIs ==
    ASSUME NEW rows, NEW q, summarize_public_window(rows, q) # Unavailable
    PROVE  Describes(summarize_public_window(rows, q), rows, Window(rows, q), q.indicator)
  BY DEF summarize_public_window, Window, Describes

\* The limits of a set of numbers, that an empty set does not have.
Low(S) == IF S = {} THEN Null ELSE Min(S)
High(S) == IF S = {} THEN Null ELSE Max(S)

\* The least and the greatest of two sets of numbers, one of which may be empty.
LEMMA Merged ==
    ASSUME NEW A \in SUBSET Int, IsFiniteSet(A), NEW B \in SUBSET Int, IsFiniteSet(B),
           A # {} \/ B # {}
    PROVE  /\ Min(A \cup B) = Min({Low(A), Low(B)} \ {Null})
           /\ Max(A \cup B) = Max({High(A), High(B)} \ {Null})
<1> USE DEF Low, High
<1>0. PICK a, b, c, d : a = Low(A) /\ b = Low(B) /\ c = High(A) /\ d = High(B)
  OBVIOUS
<1>2. A # {} => /\ Min(A) \in A /\ \A y \in A : Min(A) <= y
                /\ Max(A) \in A /\ \A y \in A : y <= Max(A)
  BY Extremes
<1>3. B # {} => /\ Min(B) \in B /\ \A y \in B : Min(B) <= y
                /\ Max(B) \in B /\ \A y \in B : y <= Max(B)
  BY Extremes
<1>4. IsFiniteSet(A \cup B) /\ A \cup B \in SUBSET Int /\ A \cup B # {}
  BY FS_Union
<1>5. PICK m, n : m = Min(A \cup B) /\ n = Max(A \cup B)
  OBVIOUS
<1>6. /\ m \in A \cup B /\ \A y \in A \cup B : m <= y
      /\ n \in A \cup B /\ \A y \in A \cup B : y <= n
  BY <1>4, <1>5, Extremes
<1>7. CASE A # {} /\ B # {}
  <2>1. a \in A /\ b \in B /\ c \in A /\ d \in B
    BY <1>0, <1>2, <1>3, <1>7
  <2>2. {a, b} \ {Null} = {a, b} /\ {c, d} \ {Null} = {c, d}
    BY <2>1, NullIsNoNumber
  <2>3. m <= a /\ m <= b /\ (a <= m \/ b <= m) /\ c <= n /\ d <= n /\ (n <= c \/ n <= d)
    BY <1>0, <1>2, <1>3, <1>6, <1>7
  <2>4. m \in {a, b} /\ n \in {c, d}
    BY <1>6, <2>1, <2>3
  <2>5. Min({a, b}) = m /\ Max({c, d}) = n
    <3>1. {a, b} \in SUBSET Int /\ {c, d} \in SUBSET Int
      BY <2>1
    <3>2. (\A y \in {a, b} : m <= y) /\ (\A y \in {c, d} : y <= n)
      BY <2>3
    <3> QED BY <2>4, <3>1, <3>2, MinIs, MaxIs
  <2> QED BY <1>0, <1>4, <1>5, <2>2, <2>5
<1>8. CASE A = {}
  <2>1. b \in B /\ d \in B /\ a = Null /\ c = Null /\ A \cup B = B /\ b = Min(B) /\ d = Max(B)
    BY <1>0, <1>3, <1>8
  <2>2. {a, b} \ {Null} = {b} /\ {c, d} \ {Null} = {d} /\ b \in Int /\ d \in Int
    BY <2>1, NullIsNoNumber
  <2>3. Min({b}) = b /\ Max({d}) = d
    BY <2>2, OfOne
  <2> QED BY <1>0, <1>4, <2>1, <2>2, <2>3
<1>9. CASE B = {}
  <2>1. a \in A /\ c \in A /\ b = Null /\ d = Null /\ A \cup B = A /\ a = Min(A) /\ c = Max(A)
    BY <1>0, <1>2, <1>9
  <2>2. {a, b} \ {Null} = {a} /\ {c, d} \ {Null} = {c} /\ a \in Int /\ c \in Int
    BY <2>1, NullIsNoNumber
  <2>3. Min({a}) = a /\ Max({c}) = c
    BY <2>2, OfOne
  <2> QED BY <1>0, <1>4, <2>1, <2>2, <2>3
<1> QED BY <1>7, <1>8, <1>9

CutInto(whole, early, late, rows, q, h) ==
    /\ h \in 1 .. q.hours - 1
    /\ whole = summarize_public_window(rows, q)
    /\ early = Aggregate(rows, q.indicator, q.hours - h, q.end - h)
    /\ late = Aggregate(rows, q.indicator, h, q.end)
    /\ Unavailable \notin {whole, early, late}

MergedFrom(whole, early, late) ==
    /\ whole.row_count = early.row_count + late.row_count
    /\ whole.null_count = early.null_count + late.null_count
    /\ {early.minimum, late.minimum} \ {Null} # {} =>
          /\ whole.minimum = Min({early.minimum, late.minimum} \ {Null})
          /\ whole.maximum = Max({early.maximum, late.maximum} \ {Null})

\* The aggregate of a window is the merge of the aggregates of two windows that
\* it is cut into.
LEMMA WindowsMerge ==
    ASSUME NEW rows, NEW q, Usable(rows, q), NEW h, NEW whole, NEW early, NEW late,
           CutInto(whole, early, late, rows, q, h)
    PROVE  MergedFrom(whole, early, late)
<1>0. /\ h \in 1 .. q.hours - 1 /\ whole = summarize_public_window(rows, q)
      /\ early = Aggregate(rows, q.indicator, q.hours - h, q.end - h)
      /\ late = Aggregate(rows, q.indicator, h, q.end)
      /\ whole # Unavailable /\ early # Unavailable /\ late # Unavailable
  BY DEF CutInto
<1>1. PICK i, e, l : /\ i = q.indicator
                     /\ e = [indicator |-> i, hours |-> q.hours - h, end |-> q.end - h]
                     /\ l = [indicator |-> i, hours |-> h, end |-> q.end]
  OBVIOUS
<1>2. PICK w, x, y : w = Window(rows, q) /\ x = Window(rows, e) /\ y = Window(rows, l)
  OBVIOUS
<1>3. /\ q.end \in Int /\ q.hours \in Nat /\ h \in Int /\ 0 < h /\ h < q.hours
      /\ \A n \in DOMAIN rows : rows[n].timestamp \in Int
  BY <1>0, RowsAre DEF Usable
<1>4. /\ x \cup y = w /\ x \cap y = {}
      /\ x \subseteq DOMAIN rows /\ y \subseteq DOMAIN rows /\ w \subseteq DOMAIN rows
  <2>1. \A t \in Int : /\ InWindow(q, t) <=> InWindow(e, t) \/ InWindow(l, t)
                       /\ ~(InWindow(e, t) /\ InWindow(l, t))
    BY <1>1, <1>3 DEF InWindow
  <2> QED BY <1>2, <1>3, <2>1 DEF Window
<1>5. PICK fw, fx, fy : fw = Filled(rows, w, i) /\ fx = Filled(rows, x, i) /\ fy = Filled(rows, y, i)
  OBVIOUS
<1>6. /\ fx \cup fy = fw /\ fx \subseteq x /\ fy \subseteq y
      /\ (x \ fx) \cup (y \ fy) = w \ fw /\ (x \ fx) \cap (y \ fy) = {}
  BY <1>4, <1>5 DEF Filled
<1>7. \A A, B : A \subseteq DOMAIN rows /\ B \subseteq DOMAIN rows /\ A \cap B = {} =>
         Cardinality(A \cup B) = Cardinality(A) + Cardinality(B)
  <2> SUFFICES ASSUME NEW A, NEW B, A \subseteq DOMAIN rows, B \subseteq DOMAIN rows, A \cap B = {}
               PROVE  Cardinality(A \cup B) = Cardinality(A) + Cardinality(B)
    OBVIOUS
  <2>1. /\ IsFiniteSet(A) /\ Cardinality(A) \in Nat
        /\ IsFiniteSet(B) /\ Cardinality(B) \in Nat
    BY PositionsAreFinite DEF Usable
  <2>2. Cardinality(A \cup B) = Cardinality(A) + Cardinality(B) - Cardinality(A \cap B)
    BY <2>1, FS_Union
  <2>3. Cardinality(A \cap B) = 0
    BY FS_EmptySet
  <2> QED BY <2>1, <2>2, <2>3
<1>8. Cardinality(w) = Cardinality(x) + Cardinality(y)
  BY <1>4, <1>7
<1>9. Cardinality(w \ fw) = Cardinality(x \ fx) + Cardinality(y \ fy)
  BY <1>4, <1>6, <1>7
<1>10. PICK A, B : A = Readings(rows, x, i) /\ B = Readings(rows, y, i)
  OBVIOUS
<1>11. /\ A \in SUBSET Int /\ IsFiniteSet(A) /\ B \in SUBSET Int /\ IsFiniteSet(B)
       /\ A = {} <=> fx = {}
       /\ B = {} <=> fy = {}
       /\ Readings(rows, w, i) = A \cup B
  <2>1. /\ A \in SUBSET Int /\ IsFiniteSet(A) /\ B \in SUBSET Int /\ IsFiniteSet(B)
    BY <1>1, <1>4, <1>10, ColumnIsMeasured
  <2>2. A = { rows[n].values[i] : n \in fx }
    BY <1>5, <1>10 DEF Readings
  <2>3. B = { rows[n].values[i] : n \in fy }
    BY <1>5, <1>10 DEF Readings
  <2>4. A = {} <=> fx = {}
    BY <2>2
  <2>5. B = {} <=> fy = {}
    BY <2>3
  <2>6. Readings(rows, w, i) = { rows[n].values[i] : n \in fw }
    BY <1>5 DEF Readings
  <2>7. Readings(rows, w, i) = A \cup B
    BY <1>6, <2>2, <2>3, <2>6
  <2> QED BY <2>1, <2>4, <2>5, <2>7
<1>12. /\ whole.row_count = Cardinality(w) /\ whole.null_count = Cardinality(w \ fw)
       /\ whole.minimum = IF fw = {} THEN Null ELSE Min(A \cup B)
       /\ whole.maximum = IF fw = {} THEN Null ELSE Max(A \cup B)
  <2>1. Describes(whole, rows, w, i)
    BY <1>0, <1>1, <1>2, AggregateIs
  <2> QED BY <1>5, <1>11, <2>1 DEF Describes
<1>13. /\ early.row_count = Cardinality(x) /\ early.null_count = Cardinality(x \ fx)
       /\ early.minimum = Low(A)
       /\ early.maximum = High(A)
  <2>1. summarize_public_window(rows, e) = early /\ e.indicator = i
    BY <1>0, <1>1 DEF Aggregate
  <2>2. Describes(early, rows, x, i)
    BY <1>0, <1>2, <2>1, AggregateIs
  <2> QED BY <1>5, <1>10, <1>11, <2>2 DEF Describes, Low, High
<1>14. /\ late.row_count = Cardinality(y) /\ late.null_count = Cardinality(y \ fy)
       /\ late.minimum = Low(B)
       /\ late.maximum = High(B)
  <2>1. summarize_public_window(rows, l) = late /\ l.indicator = i
    BY <1>0, <1>1 DEF Aggregate
  <2>2. Describes(late, rows, y, i)
    BY <1>0, <1>2, <2>1, AggregateIs
  <2> QED BY <1>5, <1>10, <1>11, <2>2 DEF Describes, Low, High
<1>15. ASSUME {early.minimum, late.minimum} \ {Null} # {}
       PROVE  /\ whole.minimum = Min({early.minimum, late.minimum} \ {Null})
              /\ whole.maximum = Max({early.maximum, late.maximum} \ {Null})
  <2>1. A # {} \/ B # {}
    BY <1>13, <1>14, <1>15 DEF Low
  <2>2. /\ Min(A \cup B) = Min({Low(A), Low(B)} \ {Null})
        /\ Max(A \cup B) = Max({High(A), High(B)} \ {Null})
    BY <1>11, <2>1, Merged
  <2>3. fw # {}
    BY <1>6, <1>11, <2>1
  <2> QED BY <1>12, <1>13, <1>14, <2>2, <2>3
<1> QED BY <1>8, <1>9, <1>12, <1>13, <1>14, <1>15 DEF MergedFrom

LEMMA CountRows ==
    ASSUME NEW v, v \in Seq(Observation)
    PROVE  /\ DOMAIN v = 1 .. Len(v) /\ Len(v) \in Nat
           /\ IsFiniteSet(DOMAIN v) /\ Cardinality(DOMAIN v) = Len(v)
<1>1. DOMAIN v = 1 .. Len(v) /\ Len(v) \in Nat
  OBVIOUS
<1>2. IsFiniteSet(1 .. Len(v)) /\ Cardinality(1 .. Len(v)) = IF 1 > Len(v) THEN 0 ELSE Len(v) - 1 + 1
  BY <1>1, FS_Interval
<1> QED BY <1>1, <1>2

\* The window from the first to the last hour of a file holds all of it.
LEMMA WholeWindowIs ==
    ASSUME NEW v, v \in Seq(Observation), Readable(v), NEW i \in Indicators,
           NEW p, p = profile_wwtp_langmatt_csv(v), p # Unavailable,
           NEW q, q = [indicator |-> i, hours |-> p.end - p.start + 1, end |-> p.end]
    PROVE  /\ Usable(v, q) /\ q.indicator = i
           /\ Window(v, q) = DOMAIN v /\ Filled(v, DOMAIN v, i) = Numeric(v, i)
<1>1. PICK times : times = { v[n].timestamp : n \in DOMAIN v }
  OBVIOUS
<1>2. v # <<>> /\ p.start = Min(times) /\ p.end = Max(times)
  BY <1>1 DEF profile_wwtp_langmatt_csv
<1>3. \A n \in DOMAIN v : v[n].timestamp \in Int
  <2>1. \A n \in DOMAIN v : v[n] \in Observation /\ ParsesRow(v[n])
    BY DEF Readable
  <2> QED BY <2>1 DEF ParsesRow, Observation
<1>4. times \in SUBSET Int /\ IsFiniteSet(times) /\ times # {}
  <2>1. PICK f : f = [n \in DOMAIN v |-> v[n].timestamp]
    OBVIOUS
  <2>2. IsFiniteSet(DOMAIN v)
    BY PositionsAreFinite
  <2>3. Measured(f) /\ Figures(f) = times
    BY <1>1, <1>3, <2>1, <2>2 DEF Measured, Figures
  <2>4. times # {}
    <3>1. 1 \in DOMAIN v
      BY <1>2
    <3> QED BY <1>1, <3>1
  <2> QED BY <2>3, <2>4, FiguresAre
<1>5. /\ p.start \in Int /\ p.end \in Int /\ p.start <= p.end
      /\ \A n \in DOMAIN v : p.start <= v[n].timestamp /\ v[n].timestamp <= p.end
  <2>1. /\ Min(times) \in times /\ \A y \in times : Min(times) <= y
        /\ Max(times) \in times /\ \A y \in times : y <= Max(times)
    BY <1>4, Extremes
  <2>2. \A n \in DOMAIN v : v[n].timestamp \in times
    BY <1>1
  <2>3. Min(times) \in Int /\ Max(times) \in Int
    BY <1>4, <2>1
  <2> QED BY <1>2, <2>1, <2>2, <2>3
<1>6. Usable(v, q) /\ q.indicator = i
  <2>1. p.end - p.start + 1 \in Nat \ {0}
    BY <1>5
  <2> QED BY <1>5, <2>1 DEF Usable
<1>7. Window(v, q) = DOMAIN v
  <2>1. \A n \in DOMAIN v : InWindow(q, v[n].timestamp)
    BY <1>3, <1>5 DEF InWindow
  <2> QED BY <2>1 DEF Window
<1>8. Filled(v, DOMAIN v, i) = Numeric(v, i)
  BY DEF Numeric, Filled, Readable, ParsesRow
<1> QED BY <1>6, <1>7, <1>8

\* What is aggregated of the whole of a file is what is profiled of it.
LEMMA WholeFile ==
    ASSUME NEW v, v \in Seq(Observation), Readable(v), NEW i \in Indicators,
           NEW p, p = profile_wwtp_langmatt_csv(v), p # Unavailable,
           NEW s, s = Aggregate(v, i, p.end - p.start + 1, p.end), s # Unavailable
    PROVE  /\ s.row_count = p.row_count /\ s.null_count = p.numeric_columns[i].null_count
           /\ s.minimum = p.numeric_columns[i].minimum
           /\ s.maximum = p.numeric_columns[i].maximum
<1>1. PICK q : q = [indicator |-> i, hours |-> p.end - p.start + 1, end |-> p.end]
  OBVIOUS
<1>2. /\ Usable(v, q) /\ q.indicator = i
      /\ Window(v, q) = DOMAIN v /\ Filled(v, DOMAIN v, i) = Numeric(v, i)
  BY <1>1, WholeWindowIs
<1>3. p.row_count = Len(v) /\ p.numeric_columns[i] = _numeric_summary(v, i)
  BY DEF profile_wwtp_langmatt_csv
<1>4. Describes(s, v, DOMAIN v, i)
  <2>1. s = summarize_public_window(v, q)
    BY <1>1 DEF Aggregate
  <2> QED BY <1>2, <2>1, AggregateIs
<1>5. PICK numeric : numeric = Numeric(v, i)
  OBVIOUS
<1>6. /\ s.row_count = Len(v) /\ s.null_count = Cardinality(DOMAIN v \ numeric)
      /\ s.minimum = IF numeric = {} THEN Null ELSE Min({ v[n].values[i] : n \in numeric })
      /\ s.maximum = IF numeric = {} THEN Null ELSE Max({ v[n].values[i] : n \in numeric })
  BY <1>2, <1>4, <1>5, CountRows DEF Describes, Readings
<1> QED BY <1>3, <1>5, <1>6 DEF _numeric_summary

-----------------------------------------------------------------------------
(* Sums and means *)

\* One number more: n is added if f has a reading there.
Added(f, exact, n, x) ==
    IF n \in DOMAIN f THEN IF exact THEN x + f[n] ELSE Rounded(x + f[n], 1) ELSE x

\* t holds the running totals of the readings f up to N, rounded or exact.
Runs(t, N, f, exact) ==
    t = [n \in 0 .. N |-> IF n = 0 THEN 0 ELSE Added(f, exact, n, t[n - 1])]

\* There are running totals.
LEMMA RunsExist ==
    ASSUME NEW N \in Nat, NEW f, NEW exact
    PROVE  \E t : Runs(t, N, f, exact)
<1>1. PICK good : good = { m \in 0 .. N : \E t : Runs(t, m, f, exact) }
  OBVIOUS
<1>2. 0 \in good
  <2>1. PICK t : t = [n \in 0 .. 0 |-> 0]
    OBVIOUS
  <2>2. \A n \in 0 .. 0 : n = 0
    OBVIOUS
  <2>3. Runs(t, 0, f, exact)
    BY <2>1, <2>2 DEF Runs
  <2> QED BY <1>1, <2>3
<1>3. ASSUME NEW m \in 0 .. N - 1, m \in good PROVE m + 1 \in good
  <2>1. PICK t : Runs(t, m, f, exact)
    BY <1>1, <1>3
  <2>2. PICK u : u = [n \in 0 .. m + 1 |->
                         IF n = m + 1 THEN Added(f, exact, n, t[m]) ELSE t[n]]
    OBVIOUS
  <2>3. \A n \in 0 .. m : t[n] = IF n = 0 THEN 0 ELSE Added(f, exact, n, t[n - 1])
    BY <2>1 DEF Runs
  <2>4. ASSUME NEW n \in 0 .. m + 1
        PROVE  u[n] = IF n = 0 THEN 0 ELSE Added(f, exact, n, u[n - 1])
    <3>1. CASE n = m + 1
      <4>1. n # 0 /\ n - 1 = m /\ m \in 0 .. m + 1 /\ m # m + 1
        BY <3>1
      <4>2. u[m] = t[m] /\ u[n] = Added(f, exact, n, t[m])
        BY <2>2, <3>1, <4>1
      <4> QED BY <4>1, <4>2
    <3>2. CASE n = 0
      BY <2>2, <2>3, <3>2
    <3>3. CASE n # m + 1 /\ n # 0
      <4>1. n \in 0 .. m /\ n - 1 \in 0 .. m + 1 /\ n - 1 # m + 1
        BY <3>3
      <4>2. u[n] = t[n] /\ u[n - 1] = t[n - 1]
        BY <2>2, <3>3, <4>1
      <4> QED BY <2>3, <3>3, <4>1, <4>2
    <3> QED BY <3>1, <3>2, <3>3
  <2>5. u = [n \in 0 .. m + 1 |-> u[n]]
    BY <2>2
  <2>6. Runs(u, m + 1, f, exact)
    BY <2>4, <2>5 DEF Runs
  <2>7. m + 1 \in 0 .. N
    OBVIOUS
  <2> QED BY <1>1, <2>6, <2>7
<1>4. N \in good
  BY <1>2, <1>3, Induction
<1> QED BY <1>1, <1>4

\* Running totals, step by step.
Steps(t, N, f, exact) ==
    /\ t[0] = 0
    /\ \A n \in 0 .. N - 1 : t[n + 1] = Added(f, exact, n + 1, t[n])

LEMMA RunsAre ==
    ASSUME NEW t, NEW N \in Nat, NEW f, NEW exact, Runs(t, N, f, exact)
    PROVE  Steps(t, N, f, exact)
<1>1. \A n \in 0 .. N : t[n] = IF n = 0 THEN 0 ELSE Added(f, exact, n, t[n - 1])
  BY DEF Runs
<1>2. t[0] = 0
  BY <1>1
<1>3. ASSUME NEW n \in 0 .. N - 1 PROVE t[n + 1] = Added(f, exact, n + 1, t[n])
  <2>1. n + 1 \in 0 .. N /\ n + 1 # 0 /\ n + 1 - 1 = n
    OBVIOUS
  <2> QED BY <1>1, <2>1
<1> QED BY <1>2, <1>3 DEF Steps

LEMMA TotalsRun ==
    ASSUME NEW rows, Len(rows) \in Nat, NEW S, NEW i
    PROVE  Runs(Totals(rows, S, i), Len(rows), Column(rows, S, i), FALSE)
<1>1. PICK f, N : f = Column(rows, S, i) /\ N = Len(rows)
  OBVIOUS
<1> DEFINE Total(g) == g = [n \in 0 .. Len(rows) |->
                IF n = 0 THEN 0
                ELSE IF n \in Filled(rows, S, i) THEN Rounded(g[n - 1] + rows[n].values[i], 1)
                ELSE g[n - 1]]
<1>2. Totals(rows, S, i) = CHOOSE g : Total(g)
  BY DEF Totals
<1>3. DOMAIN f = Filled(rows, S, i) /\ \A n \in DOMAIN f : f[n] = rows[n].values[i]
  BY <1>1 DEF Column
<1>4. ASSUME NEW g
      PROVE  Total(g) <=> Runs(g, N, f, FALSE)
  <2>1. \A n : Added(f, FALSE, n, g[n - 1]) =
          IF n \in Filled(rows, S, i) THEN Rounded(g[n - 1] + rows[n].values[i], 1) ELSE g[n - 1]
    BY <1>3 DEF Added
  <2>2. [n \in 0 .. Len(rows) |-> IF n = 0 THEN 0
                ELSE IF n \in Filled(rows, S, i) THEN Rounded(g[n - 1] + rows[n].values[i], 1)
                ELSE g[n - 1]]
        = [n \in 0 .. N |-> IF n = 0 THEN 0 ELSE Added(f, FALSE, n, g[n - 1])]
    BY <1>1, <2>1
  <2> QED BY <2>2 DEF Runs
<1> HIDE DEF Total
<1>5. \E g : Total(g)
  <2>1. PICK g : Runs(g, N, f, FALSE)
    BY <1>1, RunsExist
  <2> QED BY <1>4, <2>1
<1>6. Total(Totals(rows, S, i))
  BY <1>2, <1>5
<1> QED BY <1>1, <1>4, <1>6

\* The exact sum of the profile is rounded once.
LEMMA SumRuns ==
    ASSUME NEW rows, Len(rows) \in Nat, NEW i, NEW f,
           f = [n \in Numeric(rows, i) |-> rows[n].values[i]]
    PROVE  \E u : Runs(u, Len(rows), f, TRUE) /\ Sum(rows, i) = Rounded(u[Len(rows)], 1)
<1>1. PICK N : N = Len(rows)
  OBVIOUS
<1> DEFINE Total(g) == g = [n \in 0 .. Len(rows) |->
                IF n = 0 THEN 0
                ELSE IF n \in Numeric(rows, i) THEN g[n - 1] + rows[n].values[i] ELSE g[n - 1]]
           sum == CHOOSE g : Total(g)
<1>2. Sum(rows, i) = Rounded(sum[Len(rows)], 1)
  BY DEF Sum
<1>3. DOMAIN f = Numeric(rows, i) /\ \A n \in DOMAIN f : f[n] = rows[n].values[i]
  OBVIOUS
<1>4. ASSUME NEW g
      PROVE  Total(g) <=> Runs(g, N, f, TRUE)
  <2>1. \A n : Added(f, TRUE, n, g[n - 1]) =
          IF n \in Numeric(rows, i) THEN g[n - 1] + rows[n].values[i] ELSE g[n - 1]
    BY <1>3 DEF Added
  <2>2. [n \in 0 .. Len(rows) |-> IF n = 0 THEN 0
                ELSE IF n \in Numeric(rows, i) THEN g[n - 1] + rows[n].values[i] ELSE g[n - 1]]
        = [n \in 0 .. N |-> IF n = 0 THEN 0 ELSE Added(f, TRUE, n, g[n - 1])]
    BY <1>1, <2>1
  <2> QED BY <2>2 DEF Runs
<1> HIDE DEF Total
<1>5. \E g : Total(g)
  <2>1. PICK g : Runs(g, N, f, TRUE)
    BY <1>1, RunsExist
  <2> QED BY <1>4, <2>1
<1>6. Total(sum)
  BY <1>5
<1> HIDE DEF sum
<1> QED BY <1>1, <1>2, <1>4, <1>6

Multiple(x, k) == \E a \in Int : x = Power[k] * a

\* Readings up to M in size, at positions up to N, that are multiples of the last
\* bit of a float that holds every sum of them.
Small(f, N, M, k) ==
    /\ Measured(f) /\ DOMAIN f \subseteq 1 .. N /\ DOMAIN f # {}
    /\ M \in Nat /\ \A n \in DOMAIN f : Abs(f[n]) <= M
    /\ k \in 0 .. MAX_EXPONENT
    /\ \A n \in DOMAIN f : Multiple(f[n], k)
    /\ N * M < Power[k + PRECISION]

IsExact(x, N, M, k) == x \in Int /\ Abs(x) <= N * M /\ Multiple(x, k)

\* Of small readings no sum is rounded: the running totals are one another's.
LEMMA TotalsAreExact ==
    ASSUME NEW N \in Nat, NEW f, NEW M, NEW k, Small(f, N, M, k), NEW exact,
           NEW t, Runs(t, N, f, exact), NEW u, Runs(u, N, f, TRUE)
    PROVE  t[N] = u[N] /\ IsExact(u[N], N, M, k)
<1>1. PICK p, q : p = Power[k] /\ q = Power[k + PRECISION]
  OBVIOUS
<1>2. PICK good : good = { n \in 0 .. N : /\ u[n] \in Int /\ t[n] = u[n]
                                          /\ -(n * M) <= u[n] /\ u[n] <= n * M
                                          /\ \E a \in Int : u[n] = p * a }
  OBVIOUS
<1>3. M \in Nat /\ N * M < q /\ k \in 0 .. MAX_EXPONENT /\ p \in Nat /\ q \in Nat
  <2>1. M \in Nat /\ N * M < q /\ k \in 0 .. MAX_EXPONENT
    BY <1>1 DEF Small
  <2>2. k \in Exponents /\ k + PRECISION \in Exponents
    BY <2>1, FloatsOK DEF Exponents
  <2> QED BY <1>1, <2>1, <2>2, PowersAre
<1>4. /\ t[0] = 0 /\ u[0] = 0
      /\ \A n \in 0 .. N - 1 : /\ t[n + 1] = Added(f, exact, n + 1, t[n])
                               /\ u[n + 1] = Added(f, TRUE, n + 1, u[n])
  <2>1. Steps(t, N, f, exact)
    BY RunsAre
  <2>2. Steps(u, N, f, TRUE)
    BY RunsAre
  <2> QED BY <2>1, <2>2 DEF Steps
<1>5. 0 \in good
  <2>1. 0 * M = 0 /\ p * 0 = 0 /\ 0 \in 0 .. N
    BY <1>3
  <2>2. u[0] \in Int /\ t[0] = u[0] /\ -(0 * M) <= u[0] /\ u[0] <= 0 * M /\ u[0] = p * 0
    BY <1>4, <2>1
  <2> QED BY <1>2, <2>1, <2>2
<1>6. ASSUME NEW n \in 0 .. N - 1, n \in good PROVE n + 1 \in good
  <2>1. /\ t[n + 1] = Added(f, exact, n + 1, t[n])
        /\ u[n + 1] = Added(f, TRUE, n + 1, u[n])
    BY <1>4
  <2>2. PICK x, low, high : x = u[n] /\ low = n * M /\ high = (n + 1) * M
    OBVIOUS
  <2>3. /\ x \in Int /\ t[n] = x /\ -low <= x /\ x <= low /\ low \in Int
        /\ \E a \in Int : x = p * a
    BY <1>2, <1>3, <1>6, <2>2
  <2>4. high = low + M /\ high \in Int
    BY <1>3, <2>2
  <2>5. high < q
    <3>1. M * (n + 1) <= M * N
      BY <1>3, ProductsRise
    <3>2. M * (n + 1) = high /\ M * N = N * M /\ N * M \in Int
      BY <1>3, <2>2
    <3> QED BY <1>3, <2>4, <3>1, <3>2
  <2>6. n + 1 \in 0 .. N
    OBVIOUS
  <2>7. CASE n + 1 \in DOMAIN f
    <3>1. PICK y : y = f[n + 1]
      OBVIOUS
    <3>2. y \in Int /\ Abs(y) <= M /\ \E b \in Int : y = p * b
      BY <1>1, <2>7, <3>1 DEF Small, Measured, Multiple
    <3>3. -M <= y /\ y <= M
      BY <1>3, <3>2, AbsIs
    <3>4. x + y \in Int /\ -high <= x + y /\ x + y <= high
      BY <1>3, <2>3, <2>4, <3>2, <3>3
    <3>5. PICK c \in Int : x + y = p * c
      <4>1. PICK a \in Int, b \in Int : x = p * a /\ y = p * b
        BY <2>3, <3>2
      <4>2. p * a + p * b = p * (a + b) /\ a + b \in Int
        BY <1>3
      <4> QED BY <4>1, <4>2
    <3>6. Abs(x + y) < q
      BY <1>3, <2>4, <2>5, <3>4 DEF Abs
    <3>7. Rounded(x + y, 1) = x + y
      <4>1. Fl(x + y)
        BY <1>1, <1>3, <3>5, <3>6 DEF Fl
      <4> QED BY <4>1, RoundedSame
    <3>8. t[n + 1] = x + y /\ u[n + 1] = x + y
      BY <2>1, <2>2, <2>3, <2>7, <3>1, <3>7 DEF Added
    <3> QED BY <1>2, <2>2, <2>6, <3>4, <3>5, <3>8
  <2>8. CASE n + 1 \notin DOMAIN f
    <3>1. t[n + 1] = x /\ u[n + 1] = x
      BY <2>1, <2>2, <2>3, <2>8 DEF Added
    <3>2. -high <= x /\ x <= high
      BY <1>3, <2>3, <2>4
    <3> QED BY <1>2, <2>2, <2>3, <2>6, <3>1, <3>2
  <2> QED BY <2>7, <2>8
<1>7. N \in good
  BY <1>5, <1>6, Induction
<1>8. N * M \in Int
  BY <1>3
<1> QED BY <1>1, <1>2, <1>7, <1>8 DEF Abs, Multiple, IsExact

\* A sum of c readings lies between c times the least and c times the greatest.
LEMMA TotalsAreBetween ==
    ASSUME NEW N \in Nat, NEW f, Measured(f), DOMAIN f \subseteq 1 .. N,
           NEW low \in Int, NEW high \in Int,
           \A n \in DOMAIN f : low <= f[n] /\ f[n] <= high,
           NEW u, Runs(u, N, f, TRUE), NEW c, c = Cardinality(DOMAIN f)
    PROVE  u[N] \in Int /\ c * low <= u[N] /\ u[N] <= c * high
<1>0. u[0] = 0 /\ \A n \in 0 .. N - 1 : u[n + 1] = Added(f, TRUE, n + 1, u[n])
  <2>1. Steps(u, N, f, TRUE)
    BY RunsAre
  <2> QED BY <2>1 DEF Steps
<1> DEFINE Upto(n) == DOMAIN f \cap (1 .. n)
           k(n) == Cardinality(Upto(n))
<1>1. PICK good : good = { n \in 0 .. N : /\ u[n] \in Int
                                          /\ k(n) * low <= u[n] /\ u[n] <= k(n) * high }
  OBVIOUS
<1>2. \A n \in 0 .. N : IsFiniteSet(Upto(n)) /\ k(n) \in Nat
  BY FS_Subset, FS_CardinalityType DEF Measured
<1>3. 0 \in good
  <2>1. Upto(0) = {}
    OBVIOUS
  <2>2. k(0) = 0
    BY <2>1, FS_EmptySet
  <2>3. 0 * low = 0 /\ 0 * high = 0
    OBVIOUS
  <2> HIDE DEF k
  <2> QED BY <1>0, <1>1, <2>2, <2>3
<1>4. ASSUME NEW n \in 0 .. N - 1, n \in good PROVE n + 1 \in good
  <2>0. n + 1 \in 0 .. N /\ n \in 0 .. N
    OBVIOUS
  <2>1. u[n + 1] = Added(f, TRUE, n + 1, u[n])
    BY <1>0

  <2>2. PICK x, j : x = u[n] /\ j = k(n)
    OBVIOUS
  <2>3. x \in Int /\ j \in Nat /\ j * low <= x /\ x <= j * high
    BY <1>1, <1>2, <1>4, <2>2
  <2>4. CASE n + 1 \in DOMAIN f
    <3>1. Upto(n + 1) = Upto(n) \cup {n + 1} /\ n + 1 \notin Upto(n)
      BY <2>4
    <3>2. IsFiniteSet(Upto(n))
      BY <1>2, <2>0
    <3>3. k(n + 1) = j + 1
      <4> HIDE DEF Upto
      <4> QED BY <2>2, <3>1, <3>2, FS_AddElement
    <3>4. PICK y : y = f[n + 1]
      OBVIOUS
    <3>5. y \in Int /\ low <= y /\ y <= high
      BY <2>4, <3>4 DEF Measured
    <3>6. (j + 1) * low = j * low + low /\ (j + 1) * high = j * high + high
          /\ j * low \in Int /\ j * high \in Int
      BY <2>3
    <3>7. x + y \in Int /\ (j + 1) * low <= x + y /\ x + y <= (j + 1) * high
      BY <2>3, <3>5, <3>6
    <3>8. u[n + 1] = x + y
      BY <2>1, <2>2, <2>4, <3>4 DEF Added
    <3> HIDE DEF k
    <3> QED BY <1>1, <2>0, <3>3, <3>7, <3>8
  <2>5. CASE n + 1 \notin DOMAIN f
    <3>1. Upto(n + 1) = Upto(n)
      BY <2>5
    <3>2. k(n + 1) = j
      BY <2>2, <3>1
    <3>3. u[n + 1] = x
      BY <2>1, <2>2, <2>5 DEF Added
    <3> HIDE DEF k
    <3> QED BY <1>1, <2>0, <2>3, <3>2, <3>3
  <2> QED BY <2>4, <2>5
<1>5. N \in good
  <2> HIDE DEF k
  <2> QED BY <1>3, <1>4, Induction
<1>6. Upto(N) = DOMAIN f
  OBVIOUS
<1>7. k(N) = c
  BY <1>6
<1> HIDE DEF k
<1> QED BY <1>1, <1>5, <1>7

\* The readings of an indicator are multiples of the last bit of a float that
\* holds a sum of as many as there are rows.
Sized(rows, i) ==
    \E k \in 0 .. MAX_EXPONENT :
        \A n \in DOMAIN rows : rows[n].values[i] \in Int =>
            /\ rows[n].values[i] % Power[k] = 0
            /\ Len(rows) * Abs(rows[n].values[i]) < Power[k + PRECISION]

ColumnOf(f, rows, i) ==
    /\ rows \in Seq(Observation) /\ Measured(f)
    /\ DOMAIN f \subseteq DOMAIN rows /\ DOMAIN f # {}
    /\ \A n \in DOMAIN f : f[n] = rows[n].values[i]

LEMMA ReadingsAreSmall ==
    ASSUME NEW rows, NEW i, NEW f, ColumnOf(f, rows, i), Sized(rows, i)
    PROVE  \E M, k : Small(f, Len(rows), M, k)
<1>0. PICK k \in 0 .. MAX_EXPONENT :
         \A n \in DOMAIN rows : rows[n].values[i] \in Int =>
            /\ rows[n].values[i] % Power[k] = 0
            /\ Len(rows) * Abs(rows[n].values[i]) < Power[k + PRECISION]
  BY DEF Sized
<1>1. PICK g : g = [n \in DOMAIN f |-> Abs(f[n])]
  OBVIOUS
<1>2. \A n \in DOMAIN f : f[n] \in Int /\ Abs(f[n]) \in Nat
  BY AbsIs DEF ColumnOf, Measured
<1>3. Measured(g) /\ DOMAIN g = DOMAIN f
  <2>1. g \in [DOMAIN g -> Int] /\ DOMAIN g = DOMAIN f
    BY <1>1, <1>2
  <2> QED BY <2>1 DEF ColumnOf, Measured
<1>4. Figures(g) # {}
  BY <1>3 DEF ColumnOf, Figures
<1>5. PICK M : M = Max(Figures(g))
  OBVIOUS
<1>6. M \in Figures(g) /\ \A x \in Figures(g) : x <= M
  BY <1>3, <1>4, <1>5, FiguresAre, Extremes
<1>7. PICK n \in DOMAIN f : M = Abs(f[n])
  BY <1>1, <1>3, <1>6 DEF Figures
<1>8. M \in Nat /\ \A j \in DOMAIN f : Abs(f[j]) <= M
  BY <1>1, <1>2, <1>3, <1>6, <1>7 DEF Figures
<1>9. \A j \in DOMAIN f : /\ f[j] % Power[k] = 0
                          /\ Len(rows) * Abs(f[j]) < Power[k + PRECISION]
  <2> SUFFICES ASSUME NEW j \in DOMAIN f
               PROVE  f[j] % Power[k] = 0 /\ Len(rows) * Abs(f[j]) < Power[k + PRECISION]
    OBVIOUS
  <2>1. j \in DOMAIN rows /\ rows[j].values[i] = f[j] /\ f[j] \in Int
    BY <1>2 DEF ColumnOf
  <2> QED BY <1>0, <2>1
<1>10. ASSUME NEW j \in DOMAIN f PROVE Multiple(f[j], k)
  <2>1. PICK p, y : p = Power[k] /\ y = f[j]
    OBVIOUS
  <2>2. k \in Exponents
    BY FloatsOK DEF Exponents
  <2>3. p \in Nat \ {0} /\ y \in Int /\ y % p = 0
    BY <1>2, <1>9, <2>1, <2>2, PowersAre
  <2>4. y = p * (y \div p) /\ y \div p \in Int
    BY <2>3
  <2> QED BY <2>1, <2>4 DEF Multiple
<1>11. Measured(f) /\ DOMAIN f \subseteq 1 .. Len(rows) /\ DOMAIN f # {}
  BY DEF ColumnOf
<1> QED BY <1>7, <1>8, <1>9, <1>10, <1>11 DEF Small

\* The mean of small readings, however they are added, lies between the least
\* and the greatest of them.
LEMMA MeanIs ==
    ASSUME NEW N \in Nat, NEW f, NEW M, NEW k, Small(f, N, M, k), NEW exact,
           NEW t, Runs(t, N, f, exact), NEW c, c = Cardinality(DOMAIN f),
           NEW low, low = Min(Figures(f)), NEW high, high = Max(Figures(f))
    PROVE  /\ Rounded(t[N], 1) = t[N]
           /\ Rounded(t[N], c) \in Int
           /\ low <= Rounded(t[N], c) /\ Rounded(t[N], c) <= high
<1>1. PICK u : Runs(u, N, f, TRUE)
  BY RunsExist
<1>2. PICK x : x = t[N]
  OBVIOUS
<1>3. x = u[N] /\ x \in Int /\ Abs(x) <= N * M /\ Multiple(x, k)
  <2>1. t[N] = u[N] /\ IsExact(u[N], N, M, k)
    BY <1>1, TotalsAreExact
  <2> QED BY <1>2, <2>1 DEF IsExact
<1>4. /\ Measured(f) /\ DOMAIN f \subseteq 1 .. N /\ DOMAIN f # {} /\ M \in Nat
      /\ k \in 0 .. MAX_EXPONENT /\ N * M < Power[k + PRECISION]
      /\ \A n \in DOMAIN f : Multiple(f[n], k)
  BY DEF Small
<1>5. c \in Nat \ {0}
  BY <1>4, CountIs
<1>6. /\ low \in Int /\ high \in Int
      /\ \A n \in DOMAIN f : low <= f[n] /\ f[n] <= high
      /\ low \in Figures(f) /\ high \in Figures(f)
  <2>1. Figures(f) \in SUBSET Int /\ IsFiniteSet(Figures(f)) /\ Figures(f) # {}
    BY <1>4, FiguresAre DEF Figures
  <2>2. /\ low \in Figures(f) /\ \A y \in Figures(f) : low <= y
        /\ high \in Figures(f) /\ \A y \in Figures(f) : y <= high
    BY <2>1, Extremes
  <2> QED BY <2>1, <2>2 DEF Figures
<1>7. c * low <= x /\ x <= c * high
  BY <1>1, <1>3, <1>4, <1>6, TotalsAreBetween
<1>8. PICK p, q : p = Power[k] /\ q = Power[k + PRECISION]
  OBVIOUS
<1>9. p \in Nat /\ q \in Nat
  <2>1. k \in Exponents /\ k + PRECISION \in Exponents
    BY <1>4, FloatsOK DEF Exponents
  <2> QED BY <1>8, <2>1, PowersAre
<1>10. Abs(x) < c * q
  <2>1. PICK y : y = Abs(x)
    OBVIOUS
  <2>2. y \in Nat /\ y <= N * M /\ N * M < q /\ N * M \in Int
    BY <1>3, <1>4, <1>8, <2>1, AbsIs
  <2>3. y < q
    BY <1>9, <2>2
  <2>4. q * 1 <= q * c
    BY <1>5, <1>9, ProductsRise
  <2>5. q * 1 = q /\ q * c = c * q /\ q * c \in Int
    BY <1>5, <1>9
  <2> QED BY <1>9, <2>1, <2>2, <2>3, <2>4, <2>5
<1>11. Rounded(x, 1) = x
  <2>2. Abs(x) < q
    <3>1. N * M \in Int /\ Abs(x) \in Int
      BY <1>3, <1>4, AbsIs
    <3> QED BY <1>3, <1>4, <1>8, <1>9, <3>1
  <2>3. Fl(x)
    BY <1>3, <1>4, <1>8, <2>2 DEF Multiple, Fl
  <2> QED BY <2>3, RoundedSame
<1>12. \A n \in DOMAIN f : Fl(f[n])
  <2> SUFFICES ASSUME NEW n \in DOMAIN f PROVE Fl(f[n])
    OBVIOUS
  <2>1. PICK y : y = f[n]
    OBVIOUS
  <2>2. y \in Int /\ Abs(y) <= M /\ Multiple(y, k)
    BY <1>4, <2>1 DEF Small, Measured
  <2>3. N # 0
    BY <1>4
  <2>4. M * 1 <= M * N
    BY <1>4, <2>3, ProductsRise
  <2>5. M * 1 = M /\ M * N = N * M /\ N * M \in Int /\ Abs(y) \in Int
    BY <1>4, <2>2, AbsIs
  <2>6. Abs(y) < q
    BY <1>4, <1>8, <1>9, <2>2, <2>4, <2>5
  <2> QED BY <1>4, <1>8, <2>1, <2>2, <2>6 DEF Multiple, Fl
<1>13. Fl(low) /\ Fl(high)
  BY <1>6, <1>12 DEF Figures
<1>14. Rounded(x, c) \in Int
  BY <1>3, <1>5, RoundedIsInt
<1>15. low <= Rounded(x, c) /\ Rounded(x, c) <= high
  BY <1>3, <1>5, <1>7, <1>13, RoundedWithin
<1> QED BY <1>2, <1>11, <1>14, <1>15

-----------------------------------------------------------------------------
(* What fits *)

\* The mean of an aggregate of the readings at w.
Averages(s, rows, w, i) ==
    s.mean = IF Filled(rows, w, i) = {} THEN Null
             ELSE Rounded(Totals(rows, w, i)[Len(rows)], Cardinality(Filled(rows, w, i)))

LEMMA WindowIs ==
    ASSUME NEW rows, NEW q, NEW s, s = summarize_public_window(rows, q), s # Unavailable
    PROVE  /\ Window(rows, q) # {} /\ s.start = q.end - q.hours /\ s.end = q.end
           /\ Averages(s, rows, Window(rows, q), q.indicator)
  BY DEF summarize_public_window, Window, Averages

\* A mean, the least and the greatest of some readings, of which there may be
\* none.
MeanFits(numbers, minimum, mean, maximum) ==
    IF numbers = {} THEN minimum = Null /\ mean = Null /\ maximum = Null
    ELSE /\ minimum \in Int /\ mean \in Int /\ maximum \in Int
         /\ minimum <= mean /\ mean <= maximum

LEMMA WindowMeans ==
    ASSUME NEW rows, NEW q, Usable(rows, q), NEW i, i = q.indicator, Sized(rows, i),
           NEW s, s = summarize_public_window(rows, q), s # Unavailable,
           NEW filled, filled = Filled(rows, Window(rows, q), i)
    PROVE  /\ MeanFits(filled, s.minimum, s.mean, s.maximum)
           /\ filled # {} => s.minimum \in Readings(rows, Window(rows, q), i)
                             /\ s.maximum \in Readings(rows, Window(rows, q), i)
<1>1. PICK w, f, N : /\ w = Window(rows, q) /\ f = Column(rows, w, i) /\ N = Len(rows)
  OBVIOUS
<1>2. /\ w \subseteq DOMAIN rows /\ rows \in Seq(Observation) /\ N \in Nat
  BY <1>1 DEF Window, Usable
<1>3. /\ Measured(f) /\ DOMAIN f = filled /\ Readings(rows, w, i) = Figures(f)
      /\ Figures(f) \in SUBSET Int /\ IsFiniteSet(Figures(f))
  BY <1>1, <1>2, ColumnIsMeasured
<1>4. /\ s.minimum = IF filled = {} THEN Null ELSE Min(Figures(f))
      /\ s.maximum = IF filled = {} THEN Null ELSE Max(Figures(f))
  <2>1. Describes(s, rows, w, i)
    BY <1>1, AggregateIs
  <2> QED BY <1>1, <1>3, <2>1 DEF Describes
<1>5. s.mean = IF filled = {} THEN Null ELSE Rounded(Totals(rows, w, i)[N], Cardinality(filled))
  <2>1. Averages(s, rows, w, i)
    BY <1>1, WindowIs
  <2> QED BY <1>1, <2>1 DEF Averages
<1>6. CASE filled = {}
  BY <1>4, <1>5, <1>6 DEF MeanFits
<1>7. CASE filled # {}
  <2>1. ColumnOf(f, rows, i)
    <3>1. filled \subseteq w
      BY <1>1 DEF Filled
    <3>2. \A n \in DOMAIN f : f[n] = rows[n].values[i]
      BY <1>1 DEF Column
    <3> QED BY <1>2, <1>3, <1>7, <3>1, <3>2 DEF ColumnOf
  <2>2. PICK M, k : Small(f, N, M, k)
    BY <1>1, <2>1, ReadingsAreSmall
  <2>3. Runs(Totals(rows, w, i), N, f, FALSE)
    BY <1>1, <1>2, TotalsRun
  <2>4. PICK t : t = Totals(rows, w, i)
    OBVIOUS
  <2>5. /\ Rounded(t[N], Cardinality(DOMAIN f)) \in Int
        /\ Min(Figures(f)) <= Rounded(t[N], Cardinality(DOMAIN f))
        /\ Rounded(t[N], Cardinality(DOMAIN f)) <= Max(Figures(f))
    BY <1>2, <2>2, <2>3, <2>4, MeanIs
  <2>6. Min(Figures(f)) \in Figures(f) /\ Max(Figures(f)) \in Figures(f)
    <3>1. Figures(f) # {}
      BY <1>3, <1>7 DEF Figures
    <3> QED BY <1>3, <3>1, Extremes
  <2> QED BY <1>1, <1>3, <1>4, <1>5, <1>7, <2>4, <2>5, <2>6 DEF MeanFits
<1> QED BY <1>6, <1>7

\* The boundary takes every aggregate of a window of small readings.
LEMMA WindowFits ==
    ASSUME NEW rows, NEW q, Usable(rows, q), Sized(rows, q.indicator),
           NEW s, s = summarize_public_window(rows, q), s # Unavailable
    PROVE  ValidAggregate(s)
<1>1. PICK i, w, filled : /\ i = q.indicator /\ w = Window(rows, q)
                          /\ filled = Filled(rows, w, i)
  OBVIOUS
<1>2. /\ MeanFits(filled, s.minimum, s.mean, s.maximum)
      /\ filled # {} => s.minimum \in Readings(rows, w, i) /\ s.maximum \in Readings(rows, w, i)
  BY <1>1, WindowMeans
<1>3. w # {} /\ s.start = q.end - q.hours /\ s.end = q.end
  BY <1>1, WindowIs
<1>4. s.row_count = Cardinality(w) /\ s.null_count = Cardinality(w \ filled)
  <2>1. Describes(s, rows, w, i)
    BY <1>1, AggregateIs
  <2> QED BY <1>1, <2>1 DEF Describes
<1>5. w \subseteq DOMAIN rows /\ filled \subseteq w
  BY <1>1 DEF Window, Filled
<1>6. /\ IsFiniteSet(w) /\ Cardinality(w) \in Nat /\ Cardinality(w \ filled) \in Nat
  <2>1. w \ filled \subseteq DOMAIN rows
    BY <1>5
  <2> QED BY <1>5, <2>1, PositionsAreFinite DEF Usable
<1>7. /\ Cardinality(w) # 0
      /\ Cardinality(w \ filled) <= Cardinality(w)
      /\ Cardinality(w \ filled) = Cardinality(w) <=> filled = {}
  <2>1. Cardinality(w) # 0
    BY <1>3, <1>6, FS_EmptySet
  <2>2. w \ filled \in SUBSET w
    OBVIOUS
  <2>3. /\ Cardinality(w \ filled) <= Cardinality(w)
        /\ Cardinality(w) = Cardinality(w \ filled) => w = w \ filled
    BY <1>6, <2>2, FS_Subset
  <2>4. w = w \ filled <=> filled = {}
    BY <1>5
  <2> QED BY <2>1, <2>3, <2>4
<1>8. s.start < s.end
  <2>1. q.end \in Int /\ q.hours \in Nat /\ q.hours # 0
    BY DEF Usable
  <2> QED BY <1>3, <2>1
<1>9. s.row_count >= 1 /\ s.null_count \in 0 .. s.row_count
  BY <1>4, <1>6, <1>7
<1>10. s.null_count = s.row_count <=> filled = {}
  BY <1>4, <1>7
<1>11. CASE filled = {}
  <2>1. {s.minimum, s.mean, s.maximum} = {Null}
    BY <1>2, <1>11 DEF MeanFits
  <2> QED BY <1>8, <1>9, <1>10, <1>11, <2>1 DEF ValidAggregate
<1>12. CASE filled # {}
  <2>1. /\ s.minimum \in Int /\ s.mean \in Int /\ s.maximum \in Int
        /\ s.minimum <= s.mean /\ s.mean <= s.maximum
    BY <1>2, <1>12 DEF MeanFits
  <2>2. Null \notin {s.minimum, s.mean, s.maximum}
    BY <2>1, NullIsNoNumber
  <2>3. \A x \in Readings(rows, w, i) : x \in Int => Finite(x)
    <3>1. \A n \in DOMAIN rows : rows[n].values[i] \in Cell
      <4>1. rows \in Seq(Observation) /\ i \in Indicators
        BY <1>1 DEF Usable
      <4>2. \A n \in DOMAIN rows : rows[n] \in Observation
        BY <4>1
      <4> QED BY <4>1, <4>2 DEF Observation
    <3>2. \A n \in filled : n \in DOMAIN rows
      BY <1>5
    <3>3. \A x \in Readings(rows, w, i) : x \in Cell
      BY <1>1, <3>1, <3>2 DEF Readings
    <3>4. \A x \in Cell : x \in Int => Finite(x)
      BY FloatsOK DEF Cell, Float
    <3> QED BY <3>3, <3>4
  <2>4. Finite(s.minimum) /\ Finite(s.maximum)
    BY <1>2, <1>12, <2>1, <2>3
  <2> QED BY <1>8, <1>9, <1>10, <1>12, <2>1, <2>2, <2>4 DEF ValidAggregate
<1> QED BY <1>11, <1>12

\* What a profile says of the rows.
IsProfile(p, v, times) ==
    /\ v # <<>> /\ p.row_count = Len(v)
    /\ p.timestamp_order_violations = Cardinality(Disorders(v))
    /\ p.duplicate_timestamp_count = Len(v) - Cardinality(times)
    /\ p.median_interval2 = IF DOMAIN Intervals(v) = {} THEN Null
                            ELSE Median2(Intervals(v))
    /\ \A i \in Indicators : p.numeric_columns[i] = _numeric_summary(v, i)
    /\ \A n \in DOMAIN v : v[n].timestamp \in Int
    /\ \A i \in Indicators : \A n \in Numeric(v, i) : v[n].values[i] \in Int

LEMMA ProfileIs ==
    ASSUME NEW v, v \in Seq(Observation), NEW p, p = profile_wwtp_langmatt_csv(v), p # Unavailable,
           NEW times, times = { v[n].timestamp : n \in DOMAIN v }
    PROVE  IsProfile(p, v, times)
<1>1. /\ v # <<>> /\ Invalid \notin times
      /\ \A n \in DOMAIN v, i \in Indicators : v[n].values[i] # Invalid
  BY DEF profile_wwtp_langmatt_csv
<1>2. /\ p.row_count = Len(v)
      /\ p.timestamp_order_violations = Cardinality(Disorders(v))
      /\ p.duplicate_timestamp_count = Len(v) - Cardinality(times)
      /\ p.median_interval2 = IF DOMAIN Intervals(v) = {} THEN Null ELSE Median2(Intervals(v))
      /\ \A i \in Indicators : p.numeric_columns[i] = _numeric_summary(v, i)
  BY DEF profile_wwtp_langmatt_csv
<1>3. \A n \in DOMAIN v : v[n] \in Observation
  OBVIOUS
<1>4. \A n \in DOMAIN v : v[n].timestamp \in Int
  BY <1>1, <1>3 DEF Observation
<1>5. ASSUME NEW i \in Indicators, NEW n \in Numeric(v, i) PROVE v[n].values[i] \in Int
  <2>1. n \in DOMAIN v /\ v[n].values[i] # Null /\ v[n].values[i] # Blank
    BY DEF Numeric, Filled
  <2>2. v[n].values[i] \in Cell
    BY <1>3, <2>1 DEF Observation
  <2> QED BY <1>1, <2>1, <2>2 DEF Cell, Float
<1> QED BY <1>1, <1>2, <1>4, <1>5 DEF IsProfile

\* The mean of the readings of f, from their exact sum.
IsMeanOf(mean, f, N) ==
    \E u : Runs(u, N, f, TRUE) /\ mean = Rounded(u[N], Cardinality(DOMAIN f))

\* f is the column of indicator i of the file v of profile p, and not empty.
ColumnProfiled(v, p, i, f) ==
    /\ v \in Seq(Observation) /\ p = profile_wwtp_langmatt_csv(v) /\ p # Unavailable
    /\ i \in Indicators /\ Sized(v, i)
    /\ f = [n \in Numeric(v, i) |-> v[n].values[i]] /\ DOMAIN f # {}

\* The mean of a profile, and what it is made of.
LEMMA ProfileMeans ==
    ASSUME NEW v, NEW p, NEW i, NEW f, ColumnProfiled(v, p, i, f),
           NEW x, x = p.numeric_columns[i]
    PROVE  /\ ColumnOf(f, v, i)
           /\ MeanFits(DOMAIN f, x.minimum, x.mean, x.maximum)
           /\ IsMeanOf(x.mean, f, Len(v))
<1> USE DEF ColumnProfiled
<1>1. DOMAIN f = Numeric(v, i) /\ DOMAIN f \subseteq DOMAIN v
  BY DEF Numeric, Filled
<1>2. x = _numeric_summary(v, i) /\ \A n \in DOMAIN f : v[n].values[i] \in Int
  <2>1. PICK times : times = { v[n].timestamp : n \in DOMAIN v }
    OBVIOUS
  <2>2. IsProfile(p, v, times)
    BY <2>1, ProfileIs
  <2> QED BY <1>1, <2>2 DEF IsProfile
<1>3. ColumnOf(f, v, i)
  <2>1. IsFiniteSet(DOMAIN f)
    BY <1>1, PositionsAreFinite
  <2>2. f \in [DOMAIN f -> Int]
    BY <1>1, <1>2
  <2> QED BY <1>1, <2>1, <2>2 DEF ColumnOf, Measured
<1>4. PICK N : N = Len(v)
  OBVIOUS
<1>5. N \in Nat
  BY <1>4
<1>6. PICK M, k : Small(f, N, M, k)
  BY <1>3, <1>4, ReadingsAreSmall
<1>7. PICK u : Runs(u, N, f, TRUE) /\ Sum(v, i) = Rounded(u[N], 1)
  BY <1>4, <1>5, SumRuns
<1>8. PICK c, low, high : /\ c = Cardinality(DOMAIN f)
                          /\ low = Min(Figures(f)) /\ high = Max(Figures(f))
  OBVIOUS
<1>9. /\ Rounded(u[N], 1) = u[N]
      /\ Rounded(u[N], c) \in Int /\ low <= Rounded(u[N], c) /\ Rounded(u[N], c) <= high
  BY <1>5, <1>6, <1>7, <1>8, MeanIs
<1>10. low \in Int /\ high \in Int
  <2>1. Figures(f) \in SUBSET Int /\ IsFiniteSet(Figures(f)) /\ Figures(f) # {}
    <3>1. Measured(f)
      BY <1>3 DEF ColumnOf
    <3>2. Figures(f) # {}
      BY DEF Figures
    <3> QED BY <3>1, <3>2, FiguresAre
  <2> QED BY <1>8, <2>1, Extremes
<1>11. PICK numbers : numbers = { v[n].values[i] : n \in Numeric(v, i) }
  OBVIOUS
<1>12. numbers = Figures(f)
  BY <1>1, <1>11 DEF Figures
<1>13. /\ x.minimum = Min(numbers) /\ x.maximum = Max(numbers)
       /\ x.mean = Rounded(Sum(v, i), c)
  BY <1>1, <1>2, <1>8, <1>11 DEF _numeric_summary
<1>14. x.minimum = low /\ x.maximum = high /\ x.mean = Rounded(u[N], c)
  BY <1>7, <1>8, <1>9, <1>12, <1>13
<1> QED BY <1>3, <1>4, <1>7, <1>8, <1>9, <1>10, <1>14 DEF MeanFits, IsMeanOf

\* The steps forward in time are positive.
LEMMA IntervalsRise ==
    ASSUME NEW v, v \in Seq(Observation), \A n \in DOMAIN v : v[n].timestamp \in Int,
           DOMAIN Intervals(v) # {}
    PROVE  Median2(Intervals(v)) \in Int /\ Median2(Intervals(v)) > 0 /\ Len(v) >= 2
<1>1. PICK f : f = Intervals(v)
  OBVIOUS
<1>2. /\ DOMAIN f \subseteq 1 .. Len(v) - 1
      /\ \A n \in DOMAIN f : /\ v[n].timestamp < v[n + 1].timestamp
                             /\ f[n] = v[n + 1].timestamp - v[n].timestamp
  BY <1>1 DEF Intervals
<1>3. DOMAIN v = 1 .. Len(v) /\ Len(v) \in Nat
  OBVIOUS
<1>4. \A n \in DOMAIN f : f[n] \in Int /\ f[n] > 0
  <2> SUFFICES ASSUME NEW n \in DOMAIN f PROVE f[n] \in Int /\ f[n] > 0
    OBVIOUS
  <2>1. n \in DOMAIN v /\ n + 1 \in DOMAIN v
    BY <1>2, <1>3
  <2>2. v[n].timestamp \in Int /\ v[n + 1].timestamp \in Int
    BY <2>1
  <2> QED BY <1>2, <2>2
<1>5. Measured(f)
  <2>1. IsFiniteSet(1 .. Len(v) - 1)
    BY <1>3, FS_Interval
  <2>2. IsFiniteSet(DOMAIN f)
    BY <1>2, <2>1, FS_Subset
  <2>3. f = [n \in DOMAIN f |-> f[n]]
    BY <1>1 DEF Intervals
  <2> QED BY <1>4, <2>2, <2>3 DEF Measured
<1>6. PICK c : c = Cardinality(DOMAIN f)
  OBVIOUS
<1>7. c \in Nat /\ c # 0
  BY <1>1, <1>5, <1>6, CountIs
<1>8. PICK j, k : j = (c + 1) \div 2 /\ k = c \div 2 + 1
  OBVIOUS
<1>9. j \in 1 .. c /\ k \in 1 .. c
  BY <1>7, <1>8, Middle
<1>10. \A m \in 1 .. c : Smallest(f, m) \in Int /\ Smallest(f, m) > 0
  <2> SUFFICES ASSUME NEW m \in 1 .. c PROVE Smallest(f, m) \in Int /\ Smallest(f, m) > 0
    OBVIOUS
  <2>1. IsNth(f, m, Smallest(f, m))
    BY <1>5, <1>6, SmallestIs
  <2>2. Smallest(f, m) \in Figures(f)
    BY <2>1 DEF IsNth
  <2> QED BY <1>4, <2>2 DEF Figures
<1>11. Median2(f) = Smallest(f, j) + Smallest(f, k)
  BY <1>6, <1>8 DEF Median2
<1>12. Median2(f) \in Int /\ Median2(f) > 0
  BY <1>9, <1>10, <1>11
<1>13. Len(v) >= 2
  BY <1>1, <1>2, <1>3
<1> QED BY <1>1, <1>12, <1>13

\* write_profile accepts the profile of every file of small readings.
LEMMA ProfileFits ==
    ASSUME NEW v, v \in Seq(Observation), NEW p, p = profile_wwtp_langmatt_csv(v), p # Unavailable,
           \A i \in Indicators : Sized(v, i)
    PROVE  _validate_profile_schema(p)
<1>1. PICK times : times = { v[n].timestamp : n \in DOMAIN v }
  OBVIOUS
<1>2. /\ v # <<>> /\ p.row_count = Len(v)
      /\ p.timestamp_order_violations = Cardinality(Disorders(v))
      /\ p.duplicate_timestamp_count = Len(v) - Cardinality(times)
      /\ p.median_interval2 = IF DOMAIN Intervals(v) = {} THEN Null ELSE Median2(Intervals(v))
      /\ \A i \in Indicators : p.numeric_columns[i] = _numeric_summary(v, i)
      /\ \A n \in DOMAIN v : v[n].timestamp \in Int
  <2>1. IsProfile(p, v, times)
    BY <1>1, ProfileIs
  <2> QED BY <2>1 DEF IsProfile
<1>3. PICK N : N = Len(v)
  OBVIOUS
<1>4. N \in Nat /\ DOMAIN v = 1 .. N /\ IsFiniteSet(DOMAIN v) /\ Cardinality(DOMAIN v) = N /\ N >= 1
  BY <1>2, <1>3, CountRows
<1>5. Cardinality(Disorders(v)) \in 0 .. N - 1
  <2>1. IsFiniteSet(1 .. N - 1) /\ Cardinality(1 .. N - 1) = IF 1 > N - 1 THEN 0 ELSE N - 1 - 1 + 1
    BY <1>4, FS_Interval
  <2>2. Disorders(v) \in SUBSET (1 .. N - 1)
    BY <1>3 DEF Disorders
  <2>3. IsFiniteSet(Disorders(v)) /\ Cardinality(Disorders(v)) <= Cardinality(1 .. N - 1)
    BY <2>1, <2>2, FS_Subset
  <2>4. Cardinality(Disorders(v)) \in Nat
    BY <2>3, FS_CardinalityType
  <2> QED BY <1>4, <2>1, <2>3, <2>4
<1>6. N - Cardinality(times) \in 0 .. N - 1
  <2>1. PICK g : g = [n \in DOMAIN v |-> v[n].timestamp]
    OBVIOUS
  <2>2. g \in Surjection(DOMAIN v, times)
    BY <1>1, <2>1 DEF Surjection
  <2>3. IsFiniteSet(times) /\ Cardinality(times) <= Cardinality(DOMAIN v)
    BY <1>4, <2>2, FS_Surjection
  <2>4. Cardinality(times) \in Nat /\ Cardinality(times) # 0
    <3>1. v[1].timestamp \in times
      BY <1>1, <1>4
    <3> QED BY <2>3, <3>1, FS_CardinalityType, FS_EmptySet
  <2> QED BY <1>4, <2>3, <2>4
<1>7. p.median_interval2 # Null => p.median_interval2 > 0 /\ N >= 2
  <2>1. CASE DOMAIN Intervals(v) = {}
    BY <1>2, <2>1
  <2>2. CASE DOMAIN Intervals(v) # {}
    <3>1. Median2(Intervals(v)) > 0 /\ Len(v) >= 2
      BY <1>2, <2>2, IntervalsRise
    <3> QED BY <1>2, <1>3, <2>2, <3>1
  <2> QED BY <2>1, <2>2
<1>8. ASSUME NEW i \in Indicators PROVE ValidSummary(p.numeric_columns[i], N)
  <2>1. PICK x, numeric : x = p.numeric_columns[i] /\ numeric = Numeric(v, i)
    OBVIOUS
  <2>2. x = _numeric_summary(v, i)
    BY <1>2, <2>1
  <2>3. /\ x.non_null_count = Cardinality(numeric)
        /\ x.null_count = Cardinality(DOMAIN v \ numeric)
        /\ numeric = {} => x.minimum = Null /\ x.mean = Null /\ x.maximum = Null
    BY <2>1, <2>2 DEF _numeric_summary
  <2>4. numeric \subseteq DOMAIN v
    BY <2>1 DEF Numeric, Filled
  <2>5. /\ Cardinality(numeric) \in Nat
        /\ Cardinality(DOMAIN v \ numeric) = N - Cardinality(numeric)
        /\ Cardinality(numeric) = 0 <=> numeric = {}
    <3>1. IsFiniteSet(numeric)
      BY <1>4, <2>4, FS_Subset
    <3>2. DOMAIN v \cap numeric = numeric
      BY <2>4
    <3>3. Cardinality(DOMAIN v \ numeric) = N - Cardinality(DOMAIN v \cap numeric)
      BY <1>4, FS_Difference
    <3>4. Cardinality(numeric) = 0 <=> numeric = {}
      BY <3>1, FS_EmptySet
    <3> QED BY <3>1, <3>2, <3>3, <3>4, FS_CardinalityType
  <2>6. x.non_null_count + x.null_count = N /\ (x.non_null_count = 0 <=> numeric = {})
    BY <1>4, <2>3, <2>5
  <2>7. CASE numeric = {}
    BY <2>1, <2>3, <2>6, <2>7 DEF ValidSummary
  <2>8. CASE numeric # {}
    <3>1. PICK f : f = [n \in Numeric(v, i) |-> v[n].values[i]]
      OBVIOUS
    <3>2. DOMAIN f = numeric /\ DOMAIN f # {}
      BY <2>1, <2>8, <3>1
    <3>3. MeanFits(numeric, x.minimum, x.mean, x.maximum)
      <4>1. MeanFits(DOMAIN f, x.minimum, x.mean, x.maximum)
        <5>1. ColumnProfiled(v, p, i, f)
          BY <3>1, <3>2 DEF ColumnProfiled
        <5> QED BY <2>1, <5>1, ProfileMeans
      <4> QED BY <3>2, <4>1
    <3>4. /\ x.minimum \in Int /\ x.mean \in Int /\ x.maximum \in Int
          /\ x.minimum <= x.mean /\ x.mean <= x.maximum
      BY <2>8, <3>3 DEF MeanFits
    <3>5. Null \notin {x.minimum, x.mean, x.maximum}
      BY <3>4, NullIsNoNumber
    <3> QED BY <2>1, <2>6, <2>8, <3>4, <3>5 DEF ValidSummary
  <2> QED BY <2>7, <2>8
<1> QED BY <1>2, <1>3, <1>4, <1>5, <1>6, <1>7, <1>8 DEF _validate_profile_schema

\* The mean over the whole of a file is the mean of its profile.
LEMMA MeansMeet ==
    ASSUME NEW v, v \in Seq(Observation), Readable(v), NEW i \in Indicators, Sized(v, i),
           NEW p, p = profile_wwtp_langmatt_csv(v), p # Unavailable,
           NEW s, s = Aggregate(v, i, p.end - p.start + 1, p.end), s # Unavailable
    PROVE  s.mean = p.numeric_columns[i].mean
<1>1. PICK q : q = [indicator |-> i, hours |-> p.end - p.start + 1, end |-> p.end]
  OBVIOUS
<1>2. /\ Usable(v, q) /\ q.indicator = i
      /\ Window(v, q) = DOMAIN v /\ Filled(v, DOMAIN v, i) = Numeric(v, i)
  BY <1>1, WholeWindowIs
<1>3. Averages(s, v, DOMAIN v, i)
  <2>1. s = summarize_public_window(v, q)
    BY <1>1 DEF Aggregate
  <2> QED BY <1>2, <2>1, WindowIs
<1>4. PICK N, f : N = Len(v) /\ f = [n \in Numeric(v, i) |-> v[n].values[i]]
  OBVIOUS
<1>5. DOMAIN f = Numeric(v, i) /\ N \in Nat
  BY <1>4
<1>6. PICK t : t = Totals(v, DOMAIN v, i)
  OBVIOUS
<1>7. s.mean = IF DOMAIN f = {} THEN Null ELSE Rounded(t[N], Cardinality(DOMAIN f))
  BY <1>2, <1>3, <1>4, <1>5, <1>6 DEF Averages
<1>8. PICK x : x = p.numeric_columns[i]
  OBVIOUS
<1>9. CASE DOMAIN f = {}
  <2>1. x = _numeric_summary(v, i)
    BY <1>8 DEF profile_wwtp_langmatt_csv
  <2>2. x.mean = Null
    BY <1>5, <1>9, <2>1 DEF _numeric_summary
  <2> QED BY <1>7, <1>8, <1>9, <2>2
<1>10. CASE DOMAIN f # {}
  <2>1. ColumnProfiled(v, p, i, f)
    BY <1>4, <1>10 DEF ColumnProfiled
  <2>2. ColumnOf(f, v, i) /\ IsMeanOf(x.mean, f, N)
    BY <1>4, <1>8, <2>1, ProfileMeans
  <2>3. PICK u : Runs(u, N, f, TRUE) /\ x.mean = Rounded(u[N], Cardinality(DOMAIN f))
    BY <2>2 DEF IsMeanOf
  <2>4. PICK M, k : Small(f, N, M, k)
    BY <1>4, <2>2, ReadingsAreSmall
  <2>5. Runs(t, N, f, FALSE)
    <3>1. f = Column(v, DOMAIN v, i)
      BY <1>2, <1>4 DEF Column
    <3> QED BY <1>4, <1>5, <1>6, <3>1, TotalsRun
  <2>6. t[N] = u[N]
    BY <1>5, <2>3, <2>4, <2>5, TotalsAreExact
  <2> QED BY <1>7, <1>8, <1>10, <2>3, <2>6
<1> QED BY <1>9, <1>10

-----------------------------------------------------------------------------
(* The boundary takes every screen *)

LEMMA VerdictIsValid ==
    ASSUME NEW f, Recorded(f), DOMAIN f # {}, NEW t \in Int, NEW e, e = Estimates(f, t),
           ~Overflows(e), NEW s, s = Verdict(e)
    PROVE  /\ s.outcome \in {"anomaly", "normal", "insufficient_variability"}
           /\ ValidStatistics(s) /\ ValidSemantics(s)
<1>1. PICK c, m, x : c = e.median /\ m = e.scale /\ x = e.score
  OBVIOUS
<1>2. /\ c = Median(f) /\ m = Spread(f) /\ x = Score(t, Median(f), Spread(f))
  BY <1>1, EstimatesAre
<1>3. c \in Int /\ m \in Nat
  BY <1>2, SpreadIs
<1>4. Finite(c) /\ Finite(m) /\ Finite(x)
  BY <1>1 DEF Overflows
<1>5. c # Null /\ m # Null
  BY <1>3, NullIsNoNumber
<1>6. CASE m = 0
  <2>1. /\ s.outcome = "insufficient_variability" /\ s.method = s.outcome
        /\ s.direction = "unavailable" /\ s.baseline_median = c /\ s.baseline_scale = m
        /\ s.robust_score = Null
    BY <1>1, <1>6 DEF Verdict, Unscreened
  <2>2. ValidStatistics(s)
    BY <1>4, <2>1 DEF ValidStatistics
  <2> QED BY <1>5, <1>6, <2>1, <2>2 DEF ValidSemantics
<1>7. CASE m # 0
  <2>1. x \in Int
    <3>1. PICK d : d = Rounded(t - c, 1)
      OBVIOUS
    <3>2. m \in Nat \ {0}
      BY <1>3, <1>7
    <3>3. ScoreOf(Score(t, c, m), t, c, d, Rounded(d * UNIT, m))
      BY <1>3, <3>1, <3>2, ScoreIs
    <3> QED BY <1>2, <3>3 DEF ScoreOf
  <2>2. /\ s.baseline_median = c /\ s.baseline_scale = m /\ s.robust_score = x
        /\ s.method = (IF e.mad # 0 THEN "rolling_median_mad" ELSE "rolling_median_iqr_fallback")
        /\ s.direction = (IF x > 0 THEN "above_baseline"
                          ELSE IF x < 0 THEN "below_baseline" ELSE "unavailable")
        /\ s.outcome = (IF Exceeds(x) THEN "anomaly" ELSE "normal")
    BY <1>1, <1>7, ScoredVerdict
  <2>3. x # Null
    BY <2>1, NullIsNoNumber
  <2>4. /\ s.outcome \in {"anomaly", "normal"}
        /\ s.outcome = "anomaly" <=> Exceeds(x)
        /\ s.method \in {"rolling_median_mad", "rolling_median_iqr_fallback"}
    BY <2>2
  <2>5. /\ x > 0 => s.direction = "above_baseline"
        /\ x < 0 => s.direction = "below_baseline"
        /\ x = 0 => s.direction = "unavailable"
    BY <2>1, <2>2
  <2>6. m > 0
    BY <1>3, <1>7
  <2>7. s.baseline_median = c /\ s.baseline_scale = m /\ s.robust_score = x
    BY <2>2
  <2>8. ValidStatistics(s)
    BY <1>4, <2>7 DEF ValidStatistics
  <2>9. ValidSemantics(s)
    BY <1>5, <2>3, <2>4, <2>5, <2>6, <2>7 DEF ValidSemantics
  <2> QED BY <2>4, <2>8, <2>9
<1> QED BY <1>6, <1>7

\* Whatever the rows, a screen that there is passes the boundary.
LEMMA ScreensAreAccepted ==
    ASSUME NEW rows, NEW q, Usable(rows, q), NEW s, s = screen_public_anomaly(rows, q),
           s # Unavailable
    PROVE  Accepted("anomaly", q, s)
<1>1. PICK f, goals, i, base : /\ f = History(rows, q) /\ goals = Targets(rows, q)
                               /\ i = q.indicator /\ base = Baseline(rows, q)
  OBVIOUS
<1>2. Recorded(f) /\ DOMAIN f = Filled(rows, base, i)
  BY <1>1, HistoryIsMeasured
<1>3. /\ IsFiniteSet(base) /\ Cardinality(base) \in Nat /\ DOMAIN f \subseteq base
  <2>1. base \subseteq DOMAIN rows
    BY <1>1 DEF Baseline
  <2> QED BY <1>2, <2>1, PositionsAreFinite DEF Usable, Filled
<1>4. /\ Cardinality(base \ DOMAIN f) = Cardinality(base) - Cardinality(DOMAIN f)
      /\ Cardinality(DOMAIN f) \in Nat /\ Cardinality(DOMAIN f) <= Cardinality(base)
  <2>1. base \cap DOMAIN f = DOMAIN f
    BY <1>3
  <2>2. Cardinality(base \ DOMAIN f) = Cardinality(base) - Cardinality(base \cap DOMAIN f)
    BY <1>3, FS_Difference
  <2>3. IsFiniteSet(DOMAIN f) /\ Cardinality(DOMAIN f) <= Cardinality(base)
    BY <1>3, FS_Subset
  <2> QED BY <2>1, <2>2, <2>3, FS_CardinalityType
<1>5. PICK a, b : a = Cardinality(base) /\ b = Cardinality(DOMAIN f)
  OBVIOUS
<1>6. ASSUME NEW x, s = _summary(q, base, f, x), ValidStatistics(x), ValidSemantics(x),
             x.outcome \in {"anomaly", "normal", "insufficient_variability"}
                => b >= MIN_HISTORY_POINTS,
             x.outcome = "insufficient_history" => b < MIN_HISTORY_POINTS
      PROVE  Accepted("anomaly", q, s)
  <2>1. /\ s.target_time = q.end /\ s.baseline_start = q.end - q.hours /\ s.baseline_end = q.end
        /\ s.history_count = a /\ s.history_null_count = a - b
        /\ s.baseline_median = x.baseline_median /\ s.baseline_scale = x.baseline_scale
        /\ s.robust_score = x.robust_score /\ s.method = x.method
        /\ s.direction = x.direction /\ s.outcome = x.outcome
    BY <1>4, <1>5, <1>6 DEF _summary
  <2>2. ValidTiming(s)
    <3>1. q.end \in Int /\ q.hours \in Nat /\ q.hours # 0
      BY DEF Usable
    <3> QED BY <2>1, <3>1 DEF ValidTiming
  <2>3. ValidCounts(s)
    <3>1. a \in Nat /\ b \in Nat /\ b <= a /\ a - (a - b) = b /\ a - b \in 0 .. a
      BY <1>3, <1>4, <1>5
    <3> QED BY <1>6, <2>1, <3>1 DEF ValidCounts
  <2>4. ValidStatistics(s)
    BY <1>6, <2>1 DEF ValidStatistics
  <2>5. ValidSemantics(s)
    BY <1>6, <2>1 DEF ValidSemantics
  <2> QED BY <2>1, <2>2, <2>3, <2>4, <2>5 DEF Accepted, ValidAnomaly
<1>7. ASSUME NEW reason \in {"target_unavailable", "insufficient_history"},
             NEW x, x = Unscreened(reason, Null, Null)
      PROVE  ValidStatistics(x) /\ ValidSemantics(x) /\ x.outcome = reason
  <2>1. ValidStatistics(x)
    BY <1>7 DEF Unscreened, ValidStatistics
  <2>2. ValidSemantics(x) /\ x.outcome = reason
    BY <1>7 DEF Unscreened, ValidSemantics
  <2> QED BY <2>1, <2>2
<1>8. CASE s = _summary(q, base, f, Unscreened("target_unavailable", Null, Null))
  BY <1>6, <1>7, <1>8
<1>9. CASE /\ b < MIN_HISTORY_POINTS
           /\ s = _summary(q, base, f, Unscreened("insufficient_history", Null, Null))
  BY <1>6, <1>7, <1>9
<1>10. ASSUME ~(b < MIN_HISTORY_POINTS), DOMAIN f # {}, NEW t \in Int, s = Assessed(q, base, f, t)
       PROVE  Accepted("anomaly", q, s)
  <2>1. PICK e, x : e = Estimates(f, t) /\ x = Verdict(e)
    OBVIOUS
  <2>2. ~Overflows(e) /\ s = _summary(q, base, f, x)
    BY <1>10, <2>1 DEF Assessed
  <2>3. /\ x.outcome \in {"anomaly", "normal", "insufficient_variability"}
        /\ ValidStatistics(x) /\ ValidSemantics(x)
    BY <1>2, <1>10, <2>1, <2>2, VerdictIsValid
  <2>4. b >= MIN_HISTORY_POINTS
    BY <1>4, <1>5, <1>10, HistoryOK
  <2>5. x.outcome # "insufficient_history"
    BY <2>3
  <2> QED BY <1>6, <2>2, <2>3, <2>4, <2>5
<1>11. CASE /\ ~(b < MIN_HISTORY_POINTS) /\ DOMAIN f # {}
            /\ \E g : /\ rows[g].values[i] \in Float
                      /\ s = Assessed(q, base, f, rows[g].values[i])
  <2>1. PICK t : t \in Float /\ s = Assessed(q, base, f, t)
    BY <1>11
  <2>2. t \in Int
    BY <2>1, FloatIs
  <2> QED BY <1>10, <1>11, <2>1, <2>2
<1>12. \/ s = _summary(q, base, f, Unscreened("target_unavailable", Null, Null))
       \/ /\ b < MIN_HISTORY_POINTS
          /\ s = _summary(q, base, f, Unscreened("insufficient_history", Null, Null))
       \/ /\ ~(b < MIN_HISTORY_POINTS) /\ DOMAIN f # {}
          /\ \E g : /\ rows[g].values[i] \in Float
                    /\ s = Assessed(q, base, f, rows[g].values[i])
  BY <1>1, <1>5, ScreenKinds
<1> QED BY <1>8, <1>9, <1>11, <1>12

-----------------------------------------------------------------------------
(* The calls and the script *)

\* A call has the five fields of a call.
CallOf(request, expected, bytes, stage, code, payload) ==
    [request |-> request, expected |-> expected, bytes |-> bytes, stage |-> stage,
     answer |-> [code |-> code, payload |-> payload]]

IsCall(c) == c = CallOf(c.request, c.expected, c.bytes, c.stage, c.answer.code, c.answer.payload)

\* The bytes of the call were registered when it asked, and its request is one
\* that the boundary lets through.
Holds(c) ==
    /\ c.bytes = c.expected /\ c.bytes \in Versions
    /\ _is_valid_history_request(c.request.query)

Result(c) == Answer(c, Summary(c.request.kind, c.bytes, c.request.query))

\* What the stages imply: a call expects a registered version before it reads,
\* it parses the bytes it expected, and it is answered with what these bytes
\* say or with a refusal.
Faithful(c) ==
    /\ c.stage \in {"locate", "hash", "read"} =>
          c.bytes = None /\ _is_valid_history_request(c.request.query)
    /\ c.stage = "read" => c.expected \in Versions
    /\ c.stage = "parse" => Holds(c)
    /\ c.stage = "done" =>
          \/ c.bytes = None /\ c.answer.code # "ok"
          \/ Holds(c) /\ c.answer = Result(c)

\* p is the profile of one of the versions.
Profiled(p) ==
    \E v \in Versions : p = profile_wwtp_langmatt_csv(v) /\ p # Unavailable

IInv ==
    /\ csv \in Versions \cup {None} /\ registered \in Versions \cup {None}
    /\ call = Idle \/ (IsCall(call) /\ call.request \in Requests /\ Faithful(call))
    /\ script.stage \in {"profiled", "temporary"} => Profiled(script.profile)
    /\ derived # None => Profiled(derived)

-----------------------------------------------------------------------------
\* No refusal is called "ok".
LEMMA Refusals ==
    ASSUME NEW door \in Doors
    PROVE  InvalidCode[door] # "ok" /\ FailedCode[door] # "ok" /\ RejectedCode[door] # "ok"
  BY DEF Doors, InvalidCode, FailedCode, RejectedCode

\* An answer that is "ok" carries the summary it was made from, which there is
\* and which the boundary takes.
LEMMA AnswerIs ==
    ASSUME NEW c, NEW s, c.request.door \in Doors
    PROVE  /\ Answer(c, s) = [code |-> Answer(c, s).code, payload |-> Answer(c, s).payload]
           /\ Answer(c, s).code = "ok" => s # Unavailable /\ Answer(c, s).payload = s
           /\ s # Unavailable /\ Accepted(c.request.kind, c.request.query, s) =>
                 Answer(c, s).code = "ok"
  BY Refusals DEF Answer

LEMMA VersionsAreRows ==
    ASSUME NEW v \in Versions
    PROVE  v \in Seq(Observation) /\ (ExactSums(v) => \A i \in Indicators : Sized(v, i))
  BY RequestsOK DEF ExactSums, Sized

LEMMA InvInit == Init => IInv
  BY DEF Init, IInv, Idle, Versions

LEMMA InvStep ==
    ASSUME IInv, [Next]_vars
    PROVE  IInv'
<1> DEFINE CallInv == call = Idle \/ (IsCall(call) /\ call.request \in Requests /\ Faithful(call))
           FileInv == csv \in Versions \cup {None} /\ registered \in Versions \cup {None}
           ScriptInv == /\ script.stage \in {"profiled", "temporary"} => Profiled(script.profile)
                        /\ derived # None => Profiled(derived)
<1>1. ASSUME UNCHANGED call PROVE CallInv'
  BY <1>1 DEF IInv, Faithful, IsCall, Holds, Result
<1>2. ASSUME UNCHANGED <<csv, registered>> PROVE FileInv'
  BY <1>2 DEF IInv
<1>3. ASSUME UNCHANGED <<script, derived>> PROVE ScriptInv'
  BY <1>3 DEF IInv
<1>4. ASSUME NEW r \in Requests, Request(r) PROVE CallInv'
  <2> DEFINE stage == IF _is_valid_history_request(r.query) THEN "locate" ELSE "done"
  <2>1. call' = CallOf(r, None, None, stage, InvalidCode[r.door], Null)
    BY <1>4 DEF Request, CallOf
  <2>2. /\ stage \in {"locate", "done"} /\ InvalidCode[r.door] # "ok"
        /\ stage = "locate" => _is_valid_history_request(r.query)
    BY Refusals, RequestsOK
  <2> HIDE DEF stage
  <2>3. /\ call'.request = r /\ call'.expected = None /\ call'.bytes = None
        /\ call'.stage = stage /\ call'.answer.code = InvalidCode[r.door]
        /\ call'.answer.payload = Null
    BY <2>1 DEF CallOf
  <2>4. IsCall(call)'
    BY <2>1, <2>3 DEF IsCall
  <2>5. Faithful(call)'
    BY <2>2, <2>3 DEF Faithful
  <2> QED BY <2>3, <2>4, <2>5
<1>5. ASSUME call.stage \in {"locate", "hash", "read", "parse"}
      PROVE  IsCall(call) /\ call.request \in Requests /\ call.request.door \in Doors /\ Faithful(call)
  BY <1>5, RequestsOK DEF IInv, Idle
<1>6. ASSUME call.stage \in {"locate", "hash", "read"}, Fail PROVE CallInv'
  <2>1. /\ IsCall(call) /\ call.request \in Requests /\ call.request.door \in Doors
        /\ call.bytes = None
    BY <1>5, <1>6 DEF Faithful
  <2> DEFINE y == [call EXCEPT !.stage = "done"]
  <2>2. y = CallOf(call.request, call.expected, call.bytes, "done",
                   call.answer.code, call.answer.payload)
    BY <2>1 DEF IsCall, CallOf
  <2>3. call' = [y EXCEPT !.answer = [@ EXCEPT !.code = FailedCode[call.request.door]]]
    BY <1>6 DEF Fail
  <2> HIDE DEF y
  <2>4. call' = CallOf(call.request, call.expected, call.bytes, "done",
                       FailedCode[call.request.door], call.answer.payload)
    BY <2>2, <2>3 DEF CallOf
  <2>5. /\ call'.request = call.request /\ call'.expected = call.expected
        /\ call'.bytes = call.bytes /\ call'.stage = "done"
        /\ call'.answer.code = FailedCode[call.request.door]
        /\ call'.answer.payload = call.answer.payload
    BY <2>4 DEF CallOf
  <2>6. IsCall(call)'
    BY <2>4, <2>5 DEF IsCall
  <2>7. Faithful(call)'
    BY <2>1, <2>5, Refusals DEF Faithful
  <2> QED BY <2>1, <2>5, <2>6, <2>7
<1>7. ASSUME Locate, ~Fail PROVE CallInv'
  <2>1. /\ IsCall(call) /\ call.request \in Requests /\ Faithful(call) /\ call.stage = "locate"
        /\ call' = [call EXCEPT !.stage = "hash"]
    BY <1>5, <1>7 DEF Locate
  <2>2. call' = CallOf(call.request, call.expected, call.bytes, "hash",
                       call.answer.code, call.answer.payload)
    BY <2>1 DEF IsCall, CallOf
  <2>3. IsCall(call)' /\ call'.stage = "hash" /\ call'.request = call.request /\ call'.bytes = call.bytes
    BY <2>2 DEF IsCall, CallOf
  <2>4. Faithful(call)'
    BY <2>1, <2>3 DEF Faithful
  <2> QED BY <2>1, <2>3, <2>4
<1>8. ASSUME _load_registered_csv_sha256, ~Fail PROVE CallInv'
  <2>1. /\ IsCall(call) /\ call.request \in Requests /\ Faithful(call) /\ call.stage = "hash"
        /\ registered \in Versions
        /\ call' = [call EXCEPT !.stage = "read", !.expected = registered]
    BY <1>5, <1>8 DEF _load_registered_csv_sha256, IInv
  <2> DEFINE y == [call EXCEPT !.stage = "read"]
  <2>2. y = CallOf(call.request, call.expected, call.bytes, "read",
                   call.answer.code, call.answer.payload)
    BY <2>1 DEF IsCall, CallOf
  <2>3. call' = [y EXCEPT !.expected = registered]
    BY <2>1
  <2> HIDE DEF y
  <2>4. call' = CallOf(call.request, registered, call.bytes, "read",
                       call.answer.code, call.answer.payload)
    BY <2>2, <2>3 DEF CallOf
  <2>5. /\ IsCall(call)' /\ call'.stage = "read" /\ call'.request = call.request
        /\ call'.bytes = call.bytes /\ call'.expected = registered
    BY <2>4 DEF IsCall, CallOf
  <2>6. Faithful(call)'
    BY <2>1, <2>5 DEF Faithful
  <2> QED BY <2>1, <2>5, <2>6
<1>9. ASSUME _read_verified_csv_bytes, ~Fail PROVE CallInv'
  <2>1. /\ IsCall(call) /\ call.request \in Requests /\ csv = call.expected
        /\ call.expected \in Versions /\ _is_valid_history_request(call.request.query)
        /\ call' = [call EXCEPT !.stage = "parse", !.bytes = csv]
    BY <1>5, <1>9 DEF _read_verified_csv_bytes, Faithful
  <2> DEFINE y == [call EXCEPT !.stage = "parse"]
  <2>2. y = CallOf(call.request, call.expected, call.bytes, "parse",
                   call.answer.code, call.answer.payload)
    BY <2>1 DEF IsCall, CallOf
  <2>3. call' = [y EXCEPT !.bytes = csv]
    BY <2>1
  <2> HIDE DEF y
  <2>4. call' = CallOf(call.request, call.expected, csv, "parse",
                       call.answer.code, call.answer.payload)
    BY <2>2, <2>3 DEF CallOf
  <2>5. /\ IsCall(call)' /\ call'.stage = "parse" /\ call'.request = call.request
        /\ call'.bytes = csv /\ call'.expected = call.expected
    BY <2>4 DEF IsCall, CallOf
  <2>6. Faithful(call)'
    BY <2>1, <2>5 DEF Faithful, Holds
  <2> QED BY <2>1, <2>5, <2>6
<1>10. ASSUME Parse PROVE CallInv'
  <2> DEFINE a == Result(call)
  <2>1. /\ IsCall(call) /\ call.request \in Requests /\ call.request.door \in Doors /\ Holds(call)
        /\ call' = [call EXCEPT !.stage = "done", !.answer = a]
    BY <1>5, <1>10 DEF Parse, Faithful, Result
  <2>2. a = [code |-> a.code, payload |-> a.payload]
    BY <2>1, AnswerIs DEF Result
  <2> HIDE DEF a
  <2> DEFINE y == [call EXCEPT !.stage = "done"]
  <2>3. y = CallOf(call.request, call.expected, call.bytes, "done",
                   call.answer.code, call.answer.payload)
    BY <2>1 DEF IsCall, CallOf
  <2>4. call' = [y EXCEPT !.answer = a]
    BY <2>1
  <2> HIDE DEF y
  <2>5. call' = CallOf(call.request, call.expected, call.bytes, "done", a.code, a.payload)
    BY <2>2, <2>3, <2>4 DEF CallOf
  <2>6. /\ call'.request = call.request /\ call'.expected = call.expected
        /\ call'.bytes = call.bytes /\ call'.stage = "done" /\ call'.answer = a
        /\ call'.answer.code = a.code /\ call'.answer.payload = a.payload
    BY <2>2, <2>5 DEF CallOf
  <2>7. IsCall(call)'
    BY <2>5, <2>6 DEF IsCall
  <2>8. Holds(call)' /\ call'.answer = Result(call)'
    BY <2>1, <2>6 DEF Holds, Result, Answer, a
  <2>9. Faithful(call)'
    BY <2>6, <2>8 DEF Faithful
  <2> QED BY <2>1, <2>6, <2>7, <2>9
<1>11. ASSUME profile_public_source PROVE ScriptInv'
  <2>1. PICK p : p = profile_wwtp_langmatt_csv(csv)
    OBVIOUS
  <2>2. /\ csv \in Versions /\ derived' = derived
        /\ script' = IF p = Unavailable THEN [stage |-> "failed"]
                     ELSE [stage |-> "profiled", profile |-> p]
    BY <1>11, <2>1 DEF profile_public_source, IInv
  <2>3. script'.stage \in {"profiled", "temporary"} => Profiled(script'.profile)
    BY <2>1, <2>2 DEF Profiled
  <2> QED BY <2>2, <2>3 DEF IInv, Profiled
<1>12. ASSUME write_profile PROVE ScriptInv'
  <2>1. /\ Profiled(script.profile) /\ derived' = derived
        /\ script' = IF _validate_profile_schema(script.profile)
                     THEN [stage |-> "temporary", profile |-> script.profile]
                     ELSE [stage |-> "refused"]
    BY <1>12 DEF write_profile, IInv
  <2> QED BY <2>1 DEF IInv, Profiled
<1>13. ASSUME WriteAtomically PROVE ScriptInv'
  <2>1. Profiled(script.profile) /\ script'.stage \in {"written", "failed"}
    BY <1>13 DEF WriteAtomically, IInv
  <2>2. derived' = script.profile \/ derived' = derived
    BY <1>13 DEF WriteAtomically
  <2> QED BY <2>1, <2>2 DEF IInv, Profiled
<1>14. ASSUME NEW v \in Drafts \cup {None}, Replace(v) \/ Register(v) PROVE FileInv'
  BY <1>14 DEF Replace, Register, IInv, Versions
<1>15. IInv <=> FileInv /\ CallInv /\ ScriptInv
  BY DEF IInv
<1>16. IInv' <=> FileInv' /\ CallInv' /\ ScriptInv'
  BY DEF IInv
<1> HIDE DEF CallInv, FileInv, ScriptInv
<1>17. CASE \E r \in Requests : Request(r)
  BY <1>2, <1>3, <1>4, <1>16, <1>17 DEF Request
<1>18. CASE Locate \/ _load_registered_csv_sha256 \/ _read_verified_csv_bytes
  <2>1. CallInv'
    BY <1>6, <1>7, <1>8, <1>9, <1>18 DEF Locate, _load_registered_csv_sha256, _read_verified_csv_bytes
  <2>2. UNCHANGED <<csv, registered>> /\ UNCHANGED <<script, derived>>
    BY <1>18 DEF Locate, _load_registered_csv_sha256, _read_verified_csv_bytes
  <2> QED BY <1>2, <1>3, <1>16, <2>1, <2>2
<1>19. CASE Parse
  BY <1>2, <1>3, <1>10, <1>16, <1>19 DEF Parse
<1>20. CASE profile_public_source \/ write_profile \/ WriteAtomically
  <2>1. ScriptInv'
    BY <1>11, <1>12, <1>13, <1>20
  <2>2. UNCHANGED <<csv, registered>> /\ UNCHANGED call
    BY <1>20 DEF profile_public_source, write_profile, WriteAtomically
  <2> QED BY <1>1, <1>2, <1>16, <2>1, <2>2
<1>21. CASE \E v \in Drafts \cup {None} : Replace(v) \/ Register(v)
  <2>1. FileInv'
    BY <1>14, <1>21
  <2>2. UNCHANGED call /\ UNCHANGED <<script, derived>>
    BY <1>21 DEF Replace, Register
  <2> QED BY <1>1, <1>3, <1>16, <2>1, <2>2
<1>22. CASE UNCHANGED vars
  BY <1>1, <1>2, <1>3, <1>16, <1>22 DEF vars
<1> QED BY <1>17, <1>18, <1>19, <1>20, <1>21, <1>22 DEF Next

-----------------------------------------------------------------------------
(* What the answers say *)

\* A call that holds bytes when it is answered holds registered ones and is
\* answered with what they say, and a summary of them is one of usable rows.
LEMMA DoneIs ==
    ASSUME IInv, call.stage = "done", call.answer.code = "ok" \/ call.bytes # None,
           NEW s, s = Summary(call.request.kind, call.bytes, call.request.query)
    PROVE  /\ call.bytes = call.expected
           /\ call.answer = Answer(call, s)
           /\ call.answer.code = "ok" => s # Unavailable /\ call.answer.payload = s
           /\ s # Unavailable => Usable(call.bytes, call.request.query)
           /\ s # Unavailable /\ Accepted(call.request.kind, call.request.query, s) =>
                 call.answer.code = "ok"
<1>1. call.request \in Requests /\ Holds(call) /\ call.answer = Result(call)
  BY DEF IInv, Idle, Faithful
<1>2. call.request.door \in Doors /\ call.request.query.end \in Int /\ call.bytes \in Seq(Observation)
  BY <1>1, RequestsOK DEF Holds
<1>3. call.request.query.indicator \in Indicators /\ call.request.query.hours \in Nat \ {0}
  BY <1>1, FloatsOK DEF Holds, _is_valid_history_request
<1>4. s # Unavailable => Readable(call.bytes)
  BY DEF Summary
<1>5. s # Unavailable => Usable(call.bytes, call.request.query)
  BY <1>2, <1>3, <1>4 DEF Usable
<1>6. call.bytes = call.expected /\ call.answer = Answer(call, s)
  BY <1>1 DEF Holds, Result
<1> QED BY <1>2, <1>5, <1>6, AnswerIs

\* The summary of a kind is that of its tool, if the rows are readable.
LEMMA SummaryIs ==
    ASSUME NEW rows, NEW q
    PROVE  /\ Readable(rows) => Summary("window", rows, q) = summarize_public_window(rows, q)
           /\ Readable(rows) => Summary("anomaly", rows, q) = screen_public_anomaly(rows, q)
<1>1. ASSUME NEW kind, kind = "window", Readable(rows)
      PROVE  Summary(kind, rows, q) = summarize_public_window(rows, q)
  BY <1>1 DEF Summary
<1>2. ASSUME NEW kind, kind = "anomaly", Readable(rows)
      PROVE  Summary(kind, rows, q) = screen_public_anomaly(rows, q)
  BY <1>2 DEF Summary
<1> QED BY <1>1, <1>2

LEMMA RegisteredAnswers == IInv => AnswersAreRegistered
<1> SUFFICES ASSUME IInv, NEW kind \in {"window", "anomaly"}, Answered(kind)
             PROVE  call.answer.payload = Summary(kind, call.expected, call.request.query)
  BY DEF AnswersAreRegistered
<1> QED BY DoneIs DEF Answered

LEMMA WindowsTiled == IInv => WindowsCompose
<1> SUFFICES ASSUME IInv, Answered("window") PROVE WindowsCompose
  BY DEF WindowsCompose
<1>1. PICK q, rows, whole : /\ q = call.request.query /\ rows = call.bytes
                            /\ whole = call.answer.payload
  OBVIOUS
<1>2. Usable(rows, q) /\ whole # Unavailable /\ whole = Summary("window", rows, q)
  BY <1>1, DoneIs DEF Answered
<1>3. whole = summarize_public_window(rows, q)
  BY <1>2, SummaryIs DEF Usable
<1> DEFINE early(h) == Aggregate(rows, q.indicator, q.hours - h, q.end - h)
           late(h) == Aggregate(rows, q.indicator, h, q.end)
           numbers(h, field) == { p[field] : p \in {early(h), late(h)} \ {Unavailable} } \ {Null}
<1>4. ASSUME NEW h \in 1 .. q.hours - 1, Unavailable \notin {early(h), late(h)}
      PROVE  /\ whole.row_count = early(h).row_count + late(h).row_count
             /\ whole.null_count = early(h).null_count + late(h).null_count
             /\ numbers(h, "minimum") # {} =>
                   /\ whole.minimum = Min(numbers(h, "minimum"))
                   /\ whole.maximum = Max(numbers(h, "maximum"))
  <2>1. PICK e, l : /\ e = Aggregate(rows, q.indicator, q.hours - h, q.end - h)
                    /\ l = Aggregate(rows, q.indicator, h, q.end)
    OBVIOUS
  <2>2. e = early(h) /\ l = late(h) /\ e # Unavailable /\ l # Unavailable
    BY <1>4, <2>1
  <2>3. {e, l} \ {Unavailable} = {e, l}
    BY <2>2
  <2>4. /\ numbers(h, "minimum") = {e.minimum, l.minimum} \ {Null}
        /\ numbers(h, "maximum") = {e.maximum, l.maximum} \ {Null}
    BY <2>2, <2>3
  <2> HIDE DEF early, late, numbers
  <2>5. /\ whole.row_count = e.row_count + l.row_count
        /\ whole.null_count = e.null_count + l.null_count
        /\ {e.minimum, l.minimum} \ {Null} # {} =>
              /\ whole.minimum = Min({e.minimum, l.minimum} \ {Null})
              /\ whole.maximum = Max({e.maximum, l.maximum} \ {Null})
    <3>1. CutInto(whole, e, l, rows, q, h)
      BY <1>2, <1>3, <2>1, <2>2 DEF CutInto
    <3>2. MergedFrom(whole, e, l)
      BY <1>2, <3>1, WindowsMerge
    <3> QED BY <3>2 DEF MergedFrom
  <2> QED BY <2>2, <2>4, <2>5
<1>5. \A h \in 1 .. q.hours - 1 :
         Unavailable \notin {early(h), late(h)} =>
            /\ whole.row_count = early(h).row_count + late(h).row_count
            /\ whole.null_count = early(h).null_count + late(h).null_count
            /\ numbers(h, "minimum") # {} =>
                  /\ whole.minimum = Min(numbers(h, "minimum"))
                  /\ whole.maximum = Max(numbers(h, "maximum"))
  <2> HIDE DEF early, late, numbers
  <2> QED BY <1>4
<1> QED BY <1>1, <1>5, Zenon DEF WindowsCompose

LEMMA ScreensCohere == IInv => ScreeningIsCoherent
<1> SUFFICES ASSUME IInv, Answered("anomaly") PROVE ScreeningIsCoherent
  BY DEF ScreeningIsCoherent
<1>1. PICK q, rows, s : /\ q = call.request.query /\ rows = call.bytes
                        /\ s = call.answer.payload
  OBVIOUS
<1>2. Usable(rows, q) /\ s = Summary("anomaly", rows, q) /\ s # Unavailable
  BY <1>1, DoneIs DEF Answered
<1>3. s = screen_public_anomaly(rows, q)
  BY <1>2, SummaryIs DEF Usable
<1>4. ASSUME NEW m \in DOMAIN rows, NEW n \in DOMAIN rows, m < n
      PROVE  screen_public_anomaly(Swapped(rows, m, n), q) = s
  <2>1. m # n
    <3>1. m \in Int /\ n \in Int
      BY <1>2 DEF Usable
    <3> QED BY <1>4, <3>1
  <2> QED BY <1>2, <1>3, <2>1, SwappedIs
<1>5. ASSUME NEW n \in DOMAIN rows, rows[n].timestamp \notin q.end - q.hours .. q.end
      PROVE  screen_public_anomaly(RemoveAt(rows, n), q) = s
  BY <1>2, <1>3, <1>5, RowsBesideGo
<1>6. WindowDecides(rows, q, s)
  BY <1>4, <1>5 DEF WindowDecides
<1>7. MirrorsVerdict(rows, q, s)
  BY <1>2, <1>3, ScreenMirrors
<1>8. ASSUME s.outcome \in {"anomaly", "normal"},
             NEW v \in Readings(rows, DOMAIN rows, q.indicator)
      PROVE  FollowsTarget(rows, q, s, v)
  <2>1. v \in Int
    <3>1. PICK S, i : S = DOMAIN rows /\ i = q.indicator
      OBVIOUS
    <3>2. Readings(rows, S, i) \in SUBSET Int
      BY <1>2, <3>1, ColumnIsMeasured
    <3> QED BY <3>1, <3>2
  <2> QED BY <1>2, <1>3, <1>8, <2>1, ScreenFollows
<1> QED BY <1>1, <1>6, <1>7, <1>8 DEF ScreeningIsCoherent

LEMMA ScreensPass == IInv => OwnScreensAccepted
<1> SUFFICES ASSUME IInv, call.stage = "done", call.bytes # None, call.request.kind = "anomaly",
                    Summary("anomaly", call.bytes, call.request.query) # Unavailable
             PROVE  call.answer.code = "ok"
  BY DEF OwnScreensAccepted, ResultAccepted
<1>1. PICK s, q, rows : /\ s = Summary("anomaly", rows, q)
                        /\ q = call.request.query /\ rows = call.bytes
  OBVIOUS
<1>2. Usable(rows, q)
  BY <1>1, DoneIs
<1>3. s = screen_public_anomaly(rows, q) /\ s # Unavailable
  BY <1>1, <1>2, SummaryIs DEF Usable
<1>4. Accepted("anomaly", q, s)
  BY <1>2, <1>3, ScreensAreAccepted
<1> QED BY <1>1, <1>3, <1>4, DoneIs

LEMMA ProfilesMeet == IInv => ProfileAgrees
<1> SUFFICES ASSUME IInv, derived # None PROVE ProfileAgrees
  BY DEF ProfileAgrees
<1>1. PICK v \in Versions : derived = profile_wwtp_langmatt_csv(v) /\ derived # Unavailable
  BY DEF IInv, Profiled
<1>2. v \in Seq(Observation)
  BY RequestsOK
<1>3. ASSUME Readable(v), NEW i \in Indicators, WholeWindow(v, i) # Unavailable
      PROVE  /\ WholeWindow(v, i).row_count = derived.row_count
             /\ WholeWindow(v, i).null_count = derived.numeric_columns[i].null_count
             /\ WholeWindow(v, i).minimum = derived.numeric_columns[i].minimum
             /\ WholeWindow(v, i).maximum = derived.numeric_columns[i].maximum
  <2>1. PICK s, p : s = Aggregate(v, i, p.end - p.start + 1, p.end) /\ p = derived
    OBVIOUS
  <2>2. s = WholeWindow(v, i)
    BY <2>1 DEF WholeWindow
  <2>3. /\ s.row_count = p.row_count /\ s.null_count = p.numeric_columns[i].null_count
        /\ s.minimum = p.numeric_columns[i].minimum
        /\ s.maximum = p.numeric_columns[i].maximum
    BY <1>1, <1>2, <1>3, <2>1, <2>2, WholeFile
  <2> QED BY <2>1, <2>2, <2>3
<1>4. derived.row_count = Len(v)
  <2>1. PICK p, times : p = derived /\ times = { v[n].timestamp : n \in DOMAIN v }
    OBVIOUS
  <2>2. IsProfile(p, v, times)
    BY <1>1, <1>2, <2>1, ProfileIs
  <2> QED BY <2>1, <2>2 DEF IsProfile
<1> QED BY <1>1, <1>3, <1>4 DEF ProfileAgrees

LEMMA WindowsFit ==
    ASSUME IInv, call.stage = "done", call.bytes # None, ExactSums(call.bytes)
    PROVE  ResultAccepted("window")
<1> SUFFICES ASSUME call.request.kind = "window",
                    Summary("window", call.bytes, call.request.query) # Unavailable
             PROVE  call.answer.code = "ok"
  BY DEF ResultAccepted
<1>1. PICK s, q, rows : /\ s = Summary("window", rows, q)
                        /\ q = call.request.query /\ rows = call.bytes
  OBVIOUS
<1>2. Usable(rows, q) /\ rows \in Versions
  <2>1. Usable(rows, q)
    BY <1>1, DoneIs
  <2>2. call.bytes \in Versions
    BY DEF IInv, Idle, Faithful, Holds
  <2> QED BY <1>1, <2>1, <2>2
<1>3. s = summarize_public_window(rows, q) /\ s # Unavailable
  BY <1>1, <1>2, SummaryIs DEF Usable
<1>4. Sized(rows, q.indicator)
  BY <1>1, <1>2, VersionsAreRows DEF Usable
<1>5. ValidAggregate(s)
  BY <1>2, <1>3, <1>4, WindowFits
<1>6. Accepted("window", q, s)
  BY <1>5 DEF Accepted
<1> QED BY <1>1, <1>3, <1>6, DoneIs

LEMMA MeansFitTogether == IInv => MeansFit
<1> SUFFICES ASSUME IInv PROVE MeansFit
  OBVIOUS
<1>1. call.stage = "done" /\ call.bytes # None => (ExactSums(call.bytes) => ResultAccepted("window"))
  BY WindowsFit
<1>2. ASSUME csv # None, ExactSums(csv)
      PROVE  csv \in Seq(Observation) /\ \A i \in Indicators : Sized(csv, i)
  <2>1. csv \in Versions
    BY <1>2 DEF IInv
  <2> QED BY <1>2, <2>1, VersionsAreRows
<1>3. ASSUME csv # None, ExactSums(csv), script.stage = "profiled",
             script.profile = profile_wwtp_langmatt_csv(csv)
      PROVE  _validate_profile_schema(script.profile)
  <2>1. script.profile # Unavailable
    BY <1>3 DEF IInv, Profiled
  <2> QED BY <1>2, <1>3, <2>1, ProfileFits
<1>4. ASSUME csv # None, ExactSums(csv), derived # None, derived = profile_wwtp_langmatt_csv(csv),
             Readable(csv), NEW i \in Indicators, WholeWindow(csv, i) # Unavailable
      PROVE  WholeWindow(csv, i).mean = derived.numeric_columns[i].mean
  <2>1. PICK s, p, v : /\ s = Aggregate(v, i, p.end - p.start + 1, p.end)
                       /\ p = derived /\ v = csv
    OBVIOUS
  <2>2. s = WholeWindow(csv, i)
    BY <2>1 DEF WholeWindow
  <2>3. derived # Unavailable
    BY <1>4 DEF IInv, Profiled
  <2>4. v \in Seq(Observation) /\ Sized(v, i)
    BY <1>2, <1>4, <2>1
  <2>5. s.mean = p.numeric_columns[i].mean
    BY <1>4, <2>1, <2>2, <2>3, <2>4, MeansMeet
  <2> QED BY <2>1, <2>2, <2>5
<1> QED BY <1>1, <1>3, <1>4 DEF MeansFit

LEMMA Invariance == Spec => []IInv
<1>1. IInv /\ [Next]_vars => IInv'
  BY InvStep
<1> QED BY <1>1, InvInit, PTL DEF Spec

\* An accepted answer describes the version whose hash the registry listed when
\* the call asked for it, whatever was replaced in between.
THEOREM AnswersRegistered == Spec => []AnswersAreRegistered
  BY Invariance, RegisteredAnswers, PTL

\* The aggregate that answers a request is the merge of the aggregates of any
\* two windows its window is cut into, whatever the order of the rows.
THEOREM WindowsTile == Spec => []WindowsCompose
  BY Invariance, WindowsTiled, PTL

\* A screen depends on its window alone.  Mirrored values mirror it, rounding and
\* all, unless interpolated quartiles made its scale.  Another target leaves its
\* baseline, moves its score the same way and, further out, keeps its verdict; the
\* screen is refused only for a target further out, whose score overflows.
THEOREM ScreeningCoheres == Spec => []ScreeningIsCoherent
  BY Invariance, ScreensCohere, PTL

\* The boundary of the tools refuses no screen that the module computes: what
\* overflows is refused before, and rounding breaks no rule of the boundary.
THEOREM OwnScreensPass == Spec => []OwnScreensAccepted
  BY Invariance, ScreensPass, PTL

\* The derived profile is that of one version, and its counts and limits are
\* those of a window over the whole of that version.
THEOREM ProfilesAgree == Spec => []ProfileAgrees
  BY Invariance, ProfilesMeet, PTL

\* While no sum of a file needs more bits than a float has, rounding moves no
\* mean out of its limits: no aggregate and no profile of it is refused, and the
\* exact mean of the profile is the rounded one of the window.
THEOREM MeansAreFit == Spec => []MeansFit
  BY Invariance, MeansFitTogether, PTL

-----------------------------------------------------------------------------
(* The gate of a forecast delivery *)

\* A point's target is its origin and its horizon, so that two rows of one
\* forecast with one horizon would be two rows under one delivery key.
LEMMA TargetOfHorizon ==
    ASSUME NEW p, NEW q, ForecastPointV1(p), ForecastPointV1(q),
           forecast_key(p) = forecast_key(q), p.horizon_hours = q.horizon_hours
    PROVE  point_key(p) = point_key(q)
<1>1. /\ p.plant_alias = q.plant_alias /\ p.metric_id = q.metric_id
      /\ p.origin_time_utc = q.origin_time_utc
  BY DEF forecast_key
<1>2. /\ p.target_time_utc \in Int /\ p.origin_time_utc \in Int /\ p.horizon_hours \in Int
      /\ q.target_time_utc \in Int /\ q.origin_time_utc \in Int /\ q.horizon_hours \in Int
  BY DEF ForecastPointV1, PointFields, Horizons
<1>3. /\ p.target_time_utc - p.origin_time_utc = p.horizon_hours * HOUR
      /\ q.target_time_utc - q.origin_time_utc = q.horizon_hours * HOUR
  BY DEF ForecastPointV1, validate_delivery_semantics
<1>4. p.target_time_utc = q.target_time_utc
  <2>1. p.target_time_utc - p.origin_time_utc = q.target_time_utc - p.origin_time_utc
    BY <1>1, <1>3
  <2> QED BY <1>2, <2>1
<1> QED BY <1>1, <1>4 DEF point_key

\* An accepted delivery holds every declared horizon of every forecast in it,
\* once: the gate compares sets of horizons and keys of targets, and the two
\* together leave neither a gap nor a second row.
THEOREM AcceptedIsComplete ==
    ASSUME NEW d, ForecastDeliveryV1(d)
    PROVE  DeliveryIsComplete(d)
<1> DEFINE points == d.points
           Row(j, i, h) == /\ forecast_key(points[j]) = forecast_key(points[i])
                           /\ points[j].horizon_hours = h
<1>1. \A i \in Positions(points) : ForecastPointV1(points[i])
  BY DEF ForecastDeliveryV1
<1>2. /\ \A i \in Positions(points) :
            delivered_horizons(points, forecast_key(points[i])) = horizon_set(d.manifest)
      /\ \A i, j \in Positions(points) : i # j => point_key(points[i]) # point_key(points[j])
  BY DEF ForecastDeliveryV1, PointsFit
<1>3. ASSUME NEW i \in Positions(points), NEW h \in horizon_set(d.manifest)
      PROVE  \E j \in Positions(points) :
                /\ Row(j, i, h)
                /\ \A k \in Positions(points) : Row(k, i, h) => k = j
  <2>1. h \in delivered_horizons(points, forecast_key(points[i]))
    BY <1>2, <1>3
  <2>2. PICK j \in Positions(points) : Row(j, i, h)
    BY <2>1 DEF delivered_horizons
  <2>3. ASSUME NEW k \in Positions(points), Row(k, i, h)
        PROVE  k = j
    <3>1. /\ forecast_key(points[k]) = forecast_key(points[j])
          /\ points[k].horizon_hours = points[j].horizon_hours
      BY <2>2, <2>3
    <3>2. point_key(points[k]) = point_key(points[j])
      BY <1>1, <3>1, TargetOfHorizon
    <3> QED BY <1>2, <3>2
  <2> QED BY <2>2, <2>3
<1> QED BY <1>3 DEF DeliveryIsComplete

\* A calibration window that is there is made of instants.
LEMMA CalibrationTypes ==
    ASSUME NEW x, ForecastRunManifestV1(x)
    PROVE  /\ x.calibration_start_utc # Absent => x.calibration_start_utc \in Int
           /\ x.calibration_end_utc # Absent => x.calibration_end_utc \in Int
<1>1. ManifestFields(x)
  BY DEF ForecastRunManifestV1
<1>2. x.calibration_start_utc \in Optional(Int) /\ x.calibration_end_utc \in Optional(Int)
  BY <1>1 DEF ManifestFields
<1> QED BY <1>2 DEF Optional

\* In an accepted delivery nothing was learned, calibrated, computed or
\* evaluated after an instant it forecasts, across rows of different origins.
THEOREM AcceptedLooksBack ==
    ASSUME NEW d, ForecastDeliveryV1(d)
    PROVE  NothingFromTheFuture(d)
<1> DEFINE points == d.points
           m == d.manifest
<1>1. \A i \in Positions(points) :
         /\ ForecastPointV1(points[i])
         /\ SameLineage(points[i], m)
         /\ CalibratedBefore(points[i], m)
  BY DEF ForecastDeliveryV1, PointsFit
<1>2. ForecastRunManifestV1(m)
  BY DEF ForecastDeliveryV1
<1>3. \A k \in Positions(d.metrics) : /\ d.metrics[k].evaluated_at_utc <= m.generated_at_utc
                                      /\ d.metrics[k].evaluated_at_utc \in Int
  BY DEF ForecastDeliveryV1, MetricsFit, ForecastMetricV1, MetricFields
<1>4. SUFFICES ASSUME NEW i \in Positions(points)
      PROVE  LET p == points[i] IN
             /\ m.training_start_utc < m.training_cutoff_utc
             /\ m.training_cutoff_utc <= p.origin_time_utc
             /\ p.origin_time_utc < p.target_time_utc
             /\ p.interval_method \in Conformal =>
                   /\ m.training_cutoff_utc < m.calibration_start_utc
                   /\ m.calibration_start_utc <= p.origin_time_utc
             /\ \A j \in Positions(points) : points[j].created_at_utc < p.target_time_utc
             /\ \A k \in Positions(d.metrics) :
                   d.metrics[k].evaluated_at_utc < p.target_time_utc
  BY DEF NothingFromTheFuture
<1> DEFINE p == points[i]
<1>5. /\ ForecastPointV1(p) /\ SameLineage(p, m) /\ CalibratedBefore(p, m)
  BY <1>1
<1>6. /\ p.origin_time_utc \in Int /\ p.target_time_utc \in Int /\ p.created_at_utc \in Int
      /\ p.origin_time_utc <= p.created_at_utc /\ p.created_at_utc < p.target_time_utc
      /\ p.training_cutoff_utc <= p.origin_time_utc
  BY <1>5 DEF ForecastPointV1, PointFields, validate_delivery_semantics
<1>7. p.training_cutoff_utc = m.training_cutoff_utc /\ p.created_at_utc = m.generated_at_utc
  BY <1>5 DEF SameLineage
<1>8. m.training_start_utc < m.training_cutoff_utc /\ m.training_cutoff_utc <= p.origin_time_utc
  BY <1>2, <1>6, <1>7 DEF ForecastRunManifestV1, validate_run_lineage
<1>9. p.origin_time_utc < p.target_time_utc
  BY <1>6
<1>10. ASSUME p.interval_method \in Conformal
       PROVE  /\ m.training_cutoff_utc < m.calibration_start_utc
              /\ m.calibration_start_utc <= p.origin_time_utc
  <2>1. /\ m.calibration_start_utc # Absent /\ m.calibration_end_utc # Absent
        /\ m.calibration_end_utc <= p.origin_time_utc
    BY <1>5, <1>10 DEF CalibratedBefore
  <2>2. /\ m.training_cutoff_utc < m.calibration_start_utc
        /\ m.calibration_start_utc <= m.calibration_end_utc
    BY <1>2, <2>1 DEF ForecastRunManifestV1, validate_run_lineage
  <2>4. m.calibration_start_utc \in Int /\ m.calibration_end_utc \in Int
    BY <1>2, <2>1, CalibrationTypes
  <2> HIDE DEF m, p
  <2> QED BY <1>6, <2>1, <2>2, <2>4
<1>11. ASSUME NEW j \in Positions(points)
       PROVE  points[j].created_at_utc < p.target_time_utc
  <2>1. points[j].created_at_utc = m.generated_at_utc
    BY <1>1 DEF SameLineage
  <2> QED BY <1>6, <1>7, <2>1
<1>12. ASSUME NEW k \in Positions(d.metrics)
       PROVE  d.metrics[k].evaluated_at_utc < p.target_time_utc
  BY <1>3, <1>6, <1>7
<1> QED BY <1>8, <1>9, <1>10, <1>11, <1>12

\* In an accepted delivery a level is claimed only where an estimate with
\* ordered bounds stands behind it.
THEOREM AcceptedLevelsAreEarned ==
    ASSUME NEW d, ForecastDeliveryV1(d)
    PROVE  LevelsAreEarned(d)
<1> SUFFICES ASSUME NEW i \in Positions(d.points), d.points[i].interval_level # Absent
             PROVE  LET p == d.points[i] IN
                    /\ p.status = "ready" /\ p.data_quality_flag # "fail"
                    /\ p.model_name # "persistence"
                    /\ p.interval_method \notin {"none", "heuristic"}
                    /\ p.lower_bound <= p.point_estimate /\ p.point_estimate <= p.upper_bound
  BY DEF LevelsAreEarned
<1> DEFINE p == d.points[i]
<1>1. validate_delivery_semantics(p) /\ StaysHeuristic(p)
  BY DEF ForecastDeliveryV1, ForecastPointV1, PointsFit
<1> HIDE DEF p
<1>2. p.interval_level # Absent
  BY DEF p
<1>3. p.status = "ready" /\ Bounds(p) /\ (p.data_quality_flag = "fail" <=> p.status = "data_quality_blocked")
  BY <1>1, <1>2 DEF validate_delivery_semantics, NoInterval
<1>4. /\ p.lower_bound <= p.point_estimate /\ p.point_estimate <= p.upper_bound
      /\ Calibrated(p)
  BY <1>2, <1>3 DEF Bounds, NoInterval
<1>5. p.interval_method \notin {"none", "heuristic"}
  BY <1>2, <1>4 DEF Calibrated
<1>6. p.model_name # "persistence"
  BY <1>1, <1>2, <1>3 DEF StaysHeuristic
<1> QED BY <1>3, <1>4, <1>5, <1>6 DEF p

-----------------------------------------------------------------------------
(* The gate lets something through *)

Row1 == [forecast_run_id |-> "r", plant_alias |-> "p", metric_id |-> "q", unit |-> "u",
         origin_time_utc |-> 100, target_time_utc |-> 100 + HOUR, horizon_hours |-> 1,
         lower_bound |-> 1, point_estimate |-> 2, upper_bound |-> 3,
         interval_method |-> "split_conformal", interval_level |-> 900, status |-> "ready",
         data_quality_flag |-> "pass", model_name |-> "n", model_version |-> "v",
         feature_version |-> "f", training_cutoff_utc |-> 50,
         data_snapshot_sha256 |-> "s", created_at_utc |-> 110]

Row2 == [Row1 EXCEPT !.target_time_utc = 100 + 2 * HOUR, !.horizon_hours = 2]

Sample ==
    [manifest |->
        [forecast_run_id |-> "r", generated_at_utc |-> 110, model_kind |-> "learned",
         model_name |-> "n", model_version |-> "v", feature_version |-> "f",
         model_artifact_sha256 |-> "a", data_snapshot_sha256 |-> "s",
         training_start_utc |-> 10, training_cutoff_utc |-> 50,
         calibration_start_utc |-> 60, calibration_end_utc |-> 90,
         forecast_horizons_hours |-> <<1, 2>>, cadence_seconds |-> 60,
         validation_status |-> "passed", drift_status |-> "stable"],
     points |-> <<Row1, Row2>>,
     metrics |-> <<[forecast_run_id |-> "r", plant_alias |-> "p", metric_id |-> "q",
                    horizon_hours |-> 2, evaluation_scope |-> "timecv", fold_id |-> "1",
                    condition |-> "c", sample_count |-> 5, mae |-> 1, rmse |-> 2,
                    wape |-> Absent, smape |-> 300, interval_coverage |-> 900,
                    interval_mean_width |-> 2, evaluated_at_utc |-> 95]>>]

\* The theorems above are about something: a learned model's delivery of two
\* horizons with conformal intervals and a metric is accepted.
THEOREM SampleIsAccepted ==
    ASSUME Absent \notin Int, Absent \notin {"a", "1"}
    PROVE  ForecastDeliveryV1(Sample)
<1> DEFINE m == Sample.manifest
           points == Sample.points
           metrics == Sample.metrics
<1>1. /\ Positions(points) = {1, 2} /\ points[1] = Row1 /\ points[2] = Row2
      /\ Positions(metrics) = {1} /\ Len(points) = 2 /\ Len(metrics) = 1
  BY DEF Sample, Positions
<1>2. horizon_set(m) = {1, 2}
  BY DEF Sample, horizon_set, Positions
<1>3. ForecastRunManifestV1(m)
  <2>1. validate_horizons(<<1, 2>>)
    BY DEF validate_horizons, Horizons
  <2>2. <<1, 2>> \in Seq(Int)
    OBVIOUS
  <2>3. ManifestFields(m)
    <3>1. m.forecast_horizons_hours = <<1, 2>>
      BY DEF Sample
    <3>2. /\ m.generated_at_utc = 110 /\ m.training_start_utc = 10 /\ m.training_cutoff_utc = 50
          /\ m.calibration_start_utc = 60 /\ m.calibration_end_utc = 90
          /\ m.cadence_seconds = 60 /\ m.model_kind = "learned"
          /\ m.validation_status = "passed" /\ m.drift_status = "stable"
      BY DEF Sample
    <3> HIDE DEF m
    <3> QED BY <2>1, <2>2, <3>1, <3>2 DEF ManifestFields, Optional, DAY
  <2>4. validate_run_lineage(m)
    BY DEF Sample, validate_run_lineage
  <2> QED BY <2>3, <2>4 DEF ForecastRunManifestV1
<1>4. ForecastPointV1(Row1)
  BY DEF ForecastPointV1, PointFields, validate_delivery_semantics, Bounds, Calibrated,
         Row1, Horizons, Optional, IntervalMethods, HOUR, ONE
<1>5. ForecastPointV1(Row2)
  BY DEF ForecastPointV1, PointFields, validate_delivery_semantics, Bounds, Calibrated,
         Row1, Row2, Horizons, Optional, IntervalMethods, HOUR, ONE
<1>6. ForecastMetricV1(metrics[1])
  BY DEF Sample, ForecastMetricV1, MetricFields, validate_metric_semantics, Horizons, Optional, ONE
<1>7. PointsFit(points, m)
  <2>1. SameLineage(Row1, m) /\ SameLineage(Row2, m)
    BY <1>2 DEF SameLineage, Sample, Row1, Row2
  <2>2. CalibratedBefore(Row1, m) /\ CalibratedBefore(Row2, m)
    BY DEF CalibratedBefore, Sample, Row1, Row2
  <2>3. StaysHeuristic(Row1) /\ StaysHeuristic(Row2)
    BY DEF StaysHeuristic, Row1, Row2
  <2>4. /\ forecast_key(Row1) = forecast_key(Row2) /\ Row1.horizon_hours = 1
        /\ Row2.horizon_hours = 2 /\ Row1.unit = Row2.unit
        /\ point_key(Row1) # point_key(Row2)
    BY DEF forecast_key, point_key, Row1, Row2, HOUR
  <2> HIDE DEF points, m
  <2>5. delivered_horizons(points, forecast_key(Row1)) = {1, 2}
    BY <1>1, <2>4 DEF delivered_horizons
  <2> QED BY <1>1, <1>2, <2>1, <2>2, <2>3, <2>4, <2>5 DEF PointsFit
<1>8. MetricsFit(metrics, points, m)
  <2>1. /\ m.validation_status = "passed" /\ metrics # <<>>
        /\ metrics[1].forecast_run_id = m.forecast_run_id
        /\ metrics[1].horizon_hours = 2
        /\ metrics[1].evaluated_at_utc <= m.generated_at_utc
    BY DEF Sample
  <2>2. evaluated_key(Row2) = evaluated_key(metrics[1])
    BY DEF evaluated_key, Sample, Row1, Row2
  <2> HIDE DEF points, m, metrics
  <2> QED BY <1>1, <1>2, <2>1, <2>2 DEF MetricsFit
<1> QED BY <1>1, <1>3, <1>4, <1>5, <1>6, <1>7, <1>8 DEF ForecastDeliveryV1
=============================================================================
