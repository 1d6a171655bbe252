---------------------------- MODULE RatingsProofs ----------------------------
(***************************************************************************)
(* Proofs about the recording of matches, for any number of users, games,  *)
(* transactions and connections, any cap and any results: the daily cap on *)
(* what a pair of players can move holds, no number of finalizes and       *)
(* erasures ever waits in a circle, the ladder moves by what the history   *)
(* says and nothing else, and what a match moves stays within the bounds,  *)
(* pays no established player from fresh accounts and makes no points.     *)
(***************************************************************************)
EXTENDS Ratings, DataLemmas

-----------------------------------------------------------------------------
(* Induction and recursion over data *)

\* Induction: a set that holds 1, and with each number of 1..n the next, holds them all.
LEMMA CountsUp ==
  ASSUME NEW n \in Nat, NEW S,
         n >= 1 => 1 \in S,
         \A i \in 1..n : i \in S /\ i < n => i + 1 \in S
  PROVE  1..n \subseteq S
<1> SUFFICES ASSUME (1..n) \ S # {} PROVE FALSE
  OBVIOUS
<1>1. (1..n) \ S \subseteq Nat
  OBVIOUS
<1>2. PICK k \in (1..n) \ S : \A m \in (1..n) \ S : k <= m
  BY <1>1, NatHasLeast
<1>3. k # 1
  BY <1>2
<1>4. k - 1 \in 1..n /\ k - 1 < k /\ (k - 1) + 1 = k /\ k - 1 < n
  BY <1>2, <1>3
<1>5. k - 1 \in S
  BY <1>2, <1>4
<1>6. (k - 1) + 1 \in S
  BY <1>4, <1>5
<1> QED BY <1>2, <1>4, <1>6

\* f starts at base and goes on, number by number, as step says.
IsChain(f, n, base, step) == \A i \in 1..n : f[i] = IF i = 1 THEN base ELSE step[<<i, f[i - 1]>>]

\* A recursion on the numbers up to n, with its steps given as a function, defines one.
LEMMA ChainExists ==
  ASSUME NEW n \in Nat, NEW T, NEW base \in T, NEW step \in [(1..n) \X T -> T]
  PROVE  \E f \in [1..n -> T] : IsChain(f, n, base, step)
<1> DEFINE Upto(k, f) == \A i \in 1..k : f[i] = IF i = 1 THEN base ELSE step[<<i, f[i - 1]>>]
           S == {k \in 1..n : \E f \in [1..k -> T] : Upto(k, f)}
<1>1. n >= 1 => 1 \in S
  <2> SUFFICES ASSUME n >= 1 PROVE 1 \in S
    OBVIOUS
  <2>1. [i \in 1..1 |-> base] \in [1..1 -> T] /\ Upto(1, [i \in 1..1 |-> base])
    OBVIOUS
  <2>2. \E f \in [1..1 -> T] : Upto(1, f)
    BY <2>1
  <2> HIDE DEF Upto
  <2> QED BY <2>2
<1>2. \A k \in 1..n : k \in S /\ k < n => k + 1 \in S
  <2> SUFFICES ASSUME NEW k \in 1..n, k \in S, k < n PROVE k + 1 \in S
    OBVIOUS
  <2>1. PICK f \in [1..k -> T] : Upto(k, f)
    OBVIOUS
  <2>2. step[<<k + 1, f[k]>>] \in T
    OBVIOUS
  <2>3. PICK h : h = [i \in 1..(k + 1) |-> IF i = k + 1 THEN step[<<k + 1, f[k]>>] ELSE f[i]]
    OBVIOUS
  <2>4. h \in [1..(k + 1) -> T]
    BY <2>2, <2>3
  <2>5. h[k + 1] = step[<<k + 1, h[k]>>] /\ \A i \in 1..k : h[i] = f[i]
    <3>1. \A i \in 1..k : i \in 1..(k + 1) /\ i # k + 1
      OBVIOUS
    <3>2. k + 1 \in 1..(k + 1) /\ k \in 1..k
      OBVIOUS
    <3>3. \A i \in 1..k : h[i] = f[i]
      BY <2>3, <3>1
    <3>4. h[k + 1] = step[<<k + 1, f[k]>>]
      BY <2>3, <3>2
    <3> QED BY <3>2, <3>3, <3>4
  <2>6. ASSUME NEW i \in 1..k PROVE h[i] = IF i = 1 THEN base ELSE step[<<i, h[i - 1]>>]
    <3>1. i # 1 => i - 1 \in 1..k
      OBVIOUS
    <3> QED BY <2>1, <2>5, <3>1
  <2>7. Upto(k + 1, h)
    <3>1. \A i \in 1..(k + 1) : i = k + 1 \/ i \in 1..k
      OBVIOUS
    <3>2. (k + 1) - 1 = k /\ k + 1 # 1
      OBVIOUS
    <3> QED BY <2>5, <2>6, <3>1, <3>2
  <2> HIDE DEF Upto
  <2>8. k + 1 \in 1..n
    OBVIOUS
  <2> QED BY <2>4, <2>7, <2>8
<1>3. 1..n \subseteq S
  <2> HIDE DEF S
  <2> QED BY <1>1, <1>2, CountsUp
<1>4. CASE n = 0
  <2>1. PICK f : f = [i \in 1..n |-> base]
    OBVIOUS
  <2> QED BY <1>4, <2>1 DEF IsChain
<1>5. CASE n # 0
  <2>1. n \in S
    BY <1>3, <1>5
  <2>2. PICK f \in [1..n -> T] : Upto(n, f)
    BY <2>1
  <2> QED BY <2>2 DEF IsChain
<1> QED BY <1>4, <1>5

-----------------------------------------------------------------------------
(* Finite orders *)

\* A finite set on which an order never ends is empty.
LEMMA NoEndlessOrder ==
  ASSUME NEW S, IsFiniteSet(S), NEW R,
         \A x \in S : \E y \in S : <<x, y>> \in R,
         \A x \in S : <<x, x>> \notin R,
         \A x, y, z \in S : <<x, y>> \in R /\ <<y, z>> \in R => <<x, z>> \in R
  PROVE  S = {}
<1> SUFFICES ASSUME S # {} PROVE FALSE
  OBVIOUS
<1> DEFINE Above(x) == {y \in S : <<x, y>> \in R}
           Counts == {Cardinality(Above(x)) : x \in S}
<1>1. ASSUME NEW x \in S PROVE IsFiniteSet(Above(x)) /\ Cardinality(Above(x)) \in Nat
  <2>1. Above(x) \in SUBSET S
    OBVIOUS
  <2> HIDE DEF Above
  <2> QED BY <2>1, FS_Subset, FS_CardinalityType
<1>2. Counts \subseteq Nat /\ Counts # {}
  <2>1. \A x \in S : Cardinality(Above(x)) \in Nat
    BY <1>1
  <2> HIDE DEF Above
  <2> QED BY <2>1
<1>3. PICK n \in Counts : \A m \in Counts : n <= m
  <2> HIDE DEF Counts
  <2> QED BY <1>2, NatHasLeast
<1>4. PICK x \in S : n = Cardinality(Above(x))
  BY <1>3
<1>5. PICK y \in S : <<x, y>> \in R
  OBVIOUS
<1>6. Above(y) \in SUBSET Above(x) /\ y \in Above(x) /\ y \notin Above(y)
  BY <1>5
<1> HIDE DEF Above
<1>7. n <= Cardinality(Above(y))
  <2>1. Cardinality(Above(y)) \in Counts
    OBVIOUS
  <2> QED BY <1>3, <2>1
<1>8. IsFiniteSet(Above(x)) /\ Above(x) # Above(y)
  BY <1>1, <1>6
<1>9. Cardinality(Above(y)) <= Cardinality(Above(x)) /\ Cardinality(Above(y)) # Cardinality(Above(x))
  BY <1>6, <1>8, FS_Subset
<1> QED BY <1>1, <1>4, <1>7, <1>9

LEMMA FiniteHasGreatest ==
  ASSUME NEW S, S \subseteq Int, IsFiniteSet(S), \A x \in S : \E y \in S : x < y
  PROVE  S = {}
<1>1. PICK R : R = {p \in Int \X Int : p[1] < p[2]}
  OBVIOUS
<1>2. \A x, y \in Int : <<x, y>> \in R <=> x < y
  BY <1>1
<1>3. \A x, y \in S : <<x, y>> \in R <=> x < y
  BY <1>2
<1>4. \A x, y, z \in S : <<x, y>> \in R /\ <<y, z>> \in R => <<x, z>> \in R
  BY <1>3
<1>5. \A x \in S : <<x, x>> \notin R /\ \E y \in S : <<x, y>> \in R
  BY <1>3
<1> QED BY <1>4, <1>5, NoEndlessOrder

\* Least finds the least of a finite set.
LEMMA LeastIsLeast ==
  ASSUME NEW S, S \subseteq Int, IsFiniteSet(S), S # {}
  PROVE  Least(S) \in S /\ \A v \in S : Least(S) <= v
<1>1. PICK R : R = {p \in Int \X Int : p[1] > p[2]}
  OBVIOUS
<1>2. \A x, y \in Int : <<x, y>> \in R <=> x > y
  BY <1>1
<1>3. \A x, y \in S : <<x, y>> \in R <=> x > y
  BY <1>2
<1>4. \A x, y, z \in S : <<x, y>> \in R /\ <<y, z>> \in R => <<x, z>> \in R
  BY <1>3
<1>5. \A x \in S : <<x, x>> \notin R
  BY <1>3
<1>6. ~ \A x \in S : \E y \in S : <<x, y>> \in R
  BY <1>4, <1>5, NoEndlessOrder
<1>7. PICK x \in S : \A y \in S : ~(x > y)
  BY <1>3, <1>6
<1>8. \A y \in S : x <= y
  BY <1>7
<1> QED BY <1>8 DEF Least

-----------------------------------------------------------------------------
(* The arithmetic *)

Scale == Lowest..Highest

\* A table as Calculate takes it: every rating on the scale.
OnScale(table, n) ==
  /\ DOMAIN table = 1..n /\ Len(table) = n
  /\ \A i \in 1..n : table[i].rating \in Scale

LEMMA ScaleIsInt == Lowest \in Int /\ Highest \in Int /\ Apart = Highest - Lowest /\ KFactor * Unit \in Nat
<1>1. /\ MinRating \in Int /\ MaxRating \in Int /\ Unit \in Int
      /\ KFactor \in Nat /\ Unit \in Nat
  BY EloAssumption
<1>2. (MaxRating - MinRating) * Unit = MaxRating * Unit - MinRating * Unit
  BY <1>1
<1> QED BY <1>1, <1>2 DEF Lowest, Highest, Apart

\* A capped transfer goes the way of the raw one and no further, and leaves both sides on
\* the scale.
THEOREM CapKeepsScale ==
  ASSUME NEW moved \in Int, NEW gains \in Lowest..Highest, NEW loses \in Lowest..Highest
  PROVE  /\ CapTransfer(moved, gains, loses) \in Smaller(moved, 0)..Larger(moved, 0)
         /\ gains + CapTransfer(moved, gains, loses) \in Lowest..Highest
         /\ loses - CapTransfer(moved, gains, loses) \in Lowest..Highest
<1>1. Lowest \in Int /\ Highest \in Int
  BY EloAssumption DEF Lowest, Highest
<1> QED BY <1>1 DEF CapTransfer, Smaller, Larger

\* What a pair of ratings moves is a number, on the scale a capped one.
LEMMA MovedIsCapped ==
  ASSUME NEW n \in Nat, NEW table, OnScale(table, n), NEW i \in 1..n, i < n, NEW gained \in Int
  PROVE  /\ Moved(table, i, gained) \in Int
         /\ table[i].rating + gained \in Scale =>
              /\ table[i].rating + gained + Moved(table, i, gained) \in Scale
              /\ table[i + 1].rating - Moved(table, i, gained) \in Scale
<1> DEFINE up == table[i].rating
           low == table[i + 1].rating
           raw == RawTransfer(table[i], table[i + 1])
<1>1. up \in Scale /\ low \in Scale
  BY DEF OnScale
<1>2. up - low \in -Apart..Apart
  BY <1>1, ScaleIsInt DEF Scale
<1>3. Expected(up - low) \in Int
  BY <1>2, ExpectedAssumption, ScaleIsInt
<1>4. raw \in Int
  BY <1>3, ScaleIsInt DEF RawTransfer
<1>5. Moved(table, i, gained) = CapTransfer(raw, up + gained, low)
  BY DEF Moved
<1>6. up \in Int /\ low \in Int
  BY <1>1, ScaleIsInt DEF Scale
<1> HIDE DEF up, low, raw
<1>7. CapTransfer(raw, up + gained, low) \in Int
  BY <1>4, <1>6, ScaleIsInt DEF CapTransfer, Smaller, Larger
<1>8. ASSUME up + gained \in Scale
      PROVE  /\ (up + gained) + CapTransfer(raw, up + gained, low) \in Scale
             /\ low - CapTransfer(raw, up + gained, low) \in Scale
  BY <1>1, <1>4, <1>8, CapKeepsScale DEF Scale
<1> QED BY <1>5, <1>7, <1>8 DEF up, low

LEMMA PaidIs ==
  ASSUME NEW me, NEW other, NEW change \in Int
  PROVE  /\ Paid(me, other, change) \in {change, Smaller(change, 0)}
         /\ Paid(me, other, change) \in Int
         /\ ~me.provisional /\ other.provisional => Paid(me, other, change) <= 0
         /\ ~other.provisional => Paid(me, other, change) = change
BY DEF Paid, Smaller

\* FromAbove is what its recursion says.
LEMMA FromAboveIs ==
  ASSUME NEW n \in Nat, NEW table, OnScale(table, n)
  PROVE  /\ FromAbove(table) \in [1..n -> Int]
         /\ \A i \in 1..n : FromAbove(table)[i] =
              IF i = 1 THEN 0 ELSE Paid(table[i], table[i - 1], -Moved(table, i - 1, FromAbove(table)[i - 1]))
<1>1. \A i \in 1..n, x \in Int : i # 1 => Paid(table[i], table[i - 1], -Moved(table, i - 1, x)) \in Int
  <2> SUFFICES ASSUME NEW i \in 1..n, NEW x \in Int, i # 1
               PROVE  Paid(table[i], table[i - 1], -Moved(table, i - 1, x)) \in Int
    OBVIOUS
  <2>1. i - 1 \in 1..n /\ i - 1 < n
    OBVIOUS
  <2>2. Moved(table, i - 1, x) \in Int
    BY <2>1, MovedIsCapped
  <2>3. -Moved(table, i - 1, x) \in Int
    BY <2>2
  <2> QED BY <2>3, PaidIs
<1>2. PICK step : step = [p \in (1..n) \X Int |->
                            IF p[1] = 1 THEN 0 ELSE Paid(table[p[1]], table[p[1] - 1], -Moved(table, p[1] - 1, p[2]))]
  OBVIOUS
<1>3. \A i \in 1..n, x \in Int : i # 1 => step[<<i, x>>] = Paid(table[i], table[i - 1], -Moved(table, i - 1, x))
  BY <1>2
<1>4. step \in [(1..n) \X Int -> Int]
  <2>1. \A p \in (1..n) \X Int :
          (IF p[1] = 1 THEN 0 ELSE Paid(table[p[1]], table[p[1] - 1], -Moved(table, p[1] - 1, p[2]))) \in Int
    BY <1>1
  <2> QED BY <1>2, <2>1
<1>5. PICK f \in [1..n -> Int] : IsChain(f, n, 0, step)
  <2>1. 0 \in Int
    OBVIOUS
  <2> QED BY <1>4, <2>1, ChainExists
<1>6. ASSUME NEW i \in 1..n
      PROVE  f[i] = IF i = 1 THEN 0 ELSE Paid(table[i], table[i - 1], -Moved(table, i - 1, f[i - 1]))
  <2>1. i # 1 => i - 1 \in 1..n
    OBVIOUS
  <2>2. f[i] = IF i = 1 THEN 0 ELSE step[<<i, f[i - 1]>>]
    BY <1>5 DEF IsChain
  <2>3. i # 1 => f[i - 1] \in Int
    BY <2>1
  <2> QED BY <1>3, <2>2, <2>3
<1>7. f = [i \in DOMAIN table |-> IF i = 1 THEN 0 ELSE Paid(table[i], table[i - 1], -Moved(table, i - 1, f[i - 1]))]
  BY <1>6 DEF OnScale
<1>8. FromAbove(table) =
        [i \in DOMAIN table |->
           IF i = 1 THEN 0 ELSE Paid(table[i], table[i - 1], -Moved(table, i - 1, FromAbove(table)[i - 1]))]
  BY <1>7, Zenon DEF FromAbove
<1>9. PICK h : h = FromAbove(table)
  OBVIOUS
<1>10. \A i \in 1..n : h[i] = IF i = 1 THEN 0 ELSE Paid(table[i], table[i - 1], -Moved(table, i - 1, h[i - 1]))
  BY <1>8, <1>9 DEF OnScale
<1>11. \A i \in 1..n : h[i] \in Int
  <2>1. PICK S : S = {i \in 1..n : h[i] \in Int}
    OBVIOUS
  <2>2. n >= 1 => 1 \in S
    BY <1>10, <2>1
  <2>3. \A i \in 1..n : i \in S /\ i < n => i + 1 \in S
    <3> SUFFICES ASSUME NEW i \in 1..n, i \in S, i < n PROVE i + 1 \in S
      OBVIOUS
    <3>1. i + 1 \in 1..n /\ i + 1 # 1 /\ (i + 1) - 1 = i
      OBVIOUS
    <3>2. h[i + 1] = Paid(table[i + 1], table[i], -Moved(table, i, h[i]))
      BY <1>10, <3>1
    <3>3. h[i] \in Int
      BY <2>1
    <3>4. Paid(table[i + 1], table[(i + 1) - 1], -Moved(table, (i + 1) - 1, h[i])) \in Int
      BY <1>1, <3>1, <3>3
    <3> QED BY <2>1, <3>1, <3>2, <3>4
  <2>4. 1..n \subseteq S
    BY <2>2, <2>3, CountsUp
  <2> QED BY <2>1, <2>4
<1>12. h = [i \in 1..n |-> h[i]]
  BY <1>8, <1>9 DEF OnScale
<1>13. h \in [1..n -> Int]
  BY <1>11, <1>12
<1> QED BY <1>9, <1>10, <1>13

LEMMA LessOnScale ==
  ASSUME NEW r \in Int, r \in Scale, NEW x \in Int, r + x \in Scale, NEW y \in {x, Smaller(x, 0)}
  PROVE  y \in Int /\ r + y \in Scale
<1>1. CASE y = x
  BY <1>1
<1>2. CASE y = Smaller(x, 0)
  BY <1>2, ScaleIsInt DEF Smaller, Scale
<1> QED BY <1>1, <1>2

\* Down the standings every seat stays on the scale, with what it gains from above alone
\* and with both.
LEMMA SeatsOnScale ==
  ASSUME NEW n \in Nat, NEW table, OnScale(table, n)
  PROVE  \A i \in 1..n :
           /\ FromAbove(table)[i] \in Int /\ FromBelow(table, i) \in Int
           /\ table[i].rating + FromAbove(table)[i] \in Scale
           /\ table[i].rating + FromAbove(table)[i] + FromBelow(table, i) \in Scale
<1>1. PICK h \in [1..n -> Int] : h = FromAbove(table)
  BY FromAboveIs
<1>2. \A i \in 1..n : h[i] = IF i = 1 THEN 0 ELSE Paid(table[i], table[i - 1], -Moved(table, i - 1, h[i - 1]))
  BY <1>1, FromAboveIs
<1>3. \A i \in 1..n : table[i].rating \in Scale /\ table[i].rating \in Int
  BY ScaleIsInt DEF OnScale, Scale
<1>4. \A i \in 1..n : table[i].rating + h[i] \in Scale
  <2>1. PICK S : S = {i \in 1..n : table[i].rating + h[i] \in Scale}
    OBVIOUS
  <2>2. n >= 1 => 1 \in S
    BY <1>2, <1>3, <2>1
  <2>3. \A i \in 1..n : i \in S /\ i < n => i + 1 \in S
    <3> SUFFICES ASSUME NEW i \in 1..n, i \in S, i < n PROVE i + 1 \in S
      OBVIOUS
    <3>1. i + 1 \in 1..n /\ i + 1 # 1 /\ (i + 1) - 1 = i
      OBVIOUS
    <3>2. PICK m : m = Moved(table, i, h[i])
      OBVIOUS
    <3>3. m \in Int /\ table[i + 1].rating - m \in Scale
      BY <2>1, <3>2, MovedIsCapped
    <3>4. h[i + 1] \in {-m, Smaller(-m, 0)}
      <4>1. h[i + 1] = Paid(table[i + 1], table[i], -m)
        BY <1>2, <3>1, <3>2
      <4>2. -m \in Int
        BY <3>3
      <4> QED BY <4>1, <4>2, PaidIs
    <3>5. table[i + 1].rating \in Scale /\ table[i + 1].rating \in Int
      BY <1>3, <3>1
    <3>6. table[i + 1].rating + h[i + 1] \in Scale
      <4>1. -m \in Int /\ table[i + 1].rating + (-m) \in Scale
        BY <3>3, <3>5
      <4> QED BY <3>4, <3>5, <4>1, LessOnScale
    <3> QED BY <2>1, <3>1, <3>6
  <2>4. 1..n \subseteq S
    BY <2>2, <2>3, CountsUp
  <2> QED BY <2>1, <2>4
<1>5. ASSUME NEW i \in 1..n
      PROVE  FromBelow(table, i) \in Int /\ table[i].rating + h[i] + FromBelow(table, i) \in Scale
  <2>1. table[i].rating + h[i] \in Scale /\ table[i].rating \in Int /\ h[i] \in Int
    BY <1>3, <1>4
  <2>2. CASE i = n
    BY <2>1, <2>2 DEF FromBelow, OnScale
  <2>3. CASE i # n
    <3>1. PICK m : m = Moved(table, i, h[i])
      OBVIOUS
    <3>2. m \in Int /\ table[i].rating + h[i] + m \in Scale
      BY <2>1, <2>3, <3>1, MovedIsCapped
    <3>3. FromBelow(table, i) = Paid(table[i], table[i + 1], m)
      BY <1>1, <2>3, <3>1 DEF FromBelow, OnScale
    <3>4. FromBelow(table, i) \in {m, Smaller(m, 0)}
      BY <3>2, <3>3, PaidIs
    <3>5. PICK r \in Int : r = table[i].rating + h[i]
      BY <2>1
    <3>6. FromBelow(table, i) \in Int /\ r + FromBelow(table, i) \in Scale
      BY <2>1, <3>2, <3>4, <3>5, LessOnScale
    <3> QED BY <3>5, <3>6
  <2> QED BY <2>2, <2>3
<1> QED BY <1>1, <1>4, <1>5

LEMMA TimesKeepsOrder ==
  ASSUME NEW a \in Int, NEW b \in Int, NEW c \in Nat, a <= b
  PROVE  a * c <= b * c
OBVIOUS

\* To the nearest point: no further than half a unit, and not past a whole point.
LEMMA RoundsToNearest ==
  ASSUME NEW x \in Int, NEW unit \in Nat \ {0}
  PROVE  /\ (2 * x + unit) \div (2 * unit) \in Int
         /\ 2 * (((2 * x + unit) \div (2 * unit)) * unit) - 2 * x \in -unit..unit
         /\ \A e \in Int : x <= e * unit => (2 * x + unit) \div (2 * unit) <= e
         /\ \A e \in Int : x >= e * unit => (2 * x + unit) \div (2 * unit) >= e
<1>1. PICK y \in Int : y = 2 * x + unit
  OBVIOUS
<1>2. PICK d \in Nat \ {0} : d = 2 * unit
  OBVIOUS
<1>3. PICK q \in Int : q = y \div d
  BY <1>1, <1>2
<1>4. d * q <= y /\ y < d * q + d
  BY <1>3
<1>5. PICK p \in Int : p = q * unit
  OBVIOUS
<1>6. d * q = 2 * p
  BY <1>2, <1>5
<1>7. 2 * p - 2 * x \in -unit..unit
  BY <1>1, <1>2, <1>4, <1>6
<1>8. ASSUME NEW e \in Int, x <= e * unit PROVE q <= e
  <2> SUFFICES ASSUME q >= e + 1 PROVE FALSE
    OBVIOUS
  <2>1. (e + 1) * unit <= p
    BY <1>5, TimesKeepsOrder
  <2>2. (e + 1) * unit = e * unit + unit
    OBVIOUS
  <2>3. e * unit \in Int
    OBVIOUS
  <2> QED BY <1>7, <1>8, <2>1, <2>2, <2>3
<1>9. ASSUME NEW e \in Int, x >= e * unit PROVE q >= e
  <2> SUFFICES ASSUME q <= e - 1 PROVE FALSE
    OBVIOUS
  <2>1. p <= (e - 1) * unit
    BY <1>5, TimesKeepsOrder
  <2>2. (e - 1) * unit = e * unit - unit
    OBVIOUS
  <2>3. e * unit \in Int
    OBVIOUS
  <2>4. 2 * p > 2 * x - unit
    BY <1>1, <1>2, <1>4, <1>6
  <2> QED BY <1>9, <2>1, <2>2, <2>3, <2>4
<1> QED BY <1>1, <1>2, <1>3, <1>5, <1>7, <1>8, <1>9

LEMMA PointsRound ==
  ASSUME NEW x \in Scale
  PROVE  /\ x \in Int /\ ClampRating(x) = x
         /\ Points(x) \in MinRating..MaxRating
         /\ 2 * (Points(x) * Unit) - 2 * x \in -Unit..Unit
         /\ \A e \in Int : x <= e * Unit => Points(x) <= e
<1>1. x \in Int /\ ClampRating(x) = x
  BY ScaleIsInt DEF Scale, ClampRating, Smaller, Larger
<1>2. Unit \in Nat \ {0} /\ MinRating \in Int /\ MaxRating \in Int
  BY EloAssumption
<1>3. Points(x) = (2 * x + Unit) \div (2 * Unit)
  BY <1>1 DEF Points
<1>4. Points(x) \in Int
  BY <1>1, <1>2, <1>3, RoundsToNearest
<1>5. 2 * (Points(x) * Unit) - 2 * x \in -Unit..Unit
  BY <1>1, <1>2, <1>3, RoundsToNearest
<1>6. /\ \A e \in Int : x <= e * Unit => Points(x) <= e
      /\ \A e \in Int : x >= e * Unit => Points(x) >= e
  BY <1>1, <1>2, <1>3, RoundsToNearest
<1>7. MinRating * Unit <= x /\ x <= MaxRating * Unit
  BY <1>1, ScaleIsInt DEF Scale, Lowest, Highest
<1>8. Points(x) <= MaxRating /\ Points(x) >= MinRating
  BY <1>1, <1>2, <1>6, <1>7
<1> QED BY <1>1, <1>2, <1>4, <1>5, <1>6, <1>8

\* The last clamp of Calculate has nothing to do: a seat's new rating is what it had and
\* what it gained, and is on the scale.
THEOREM CalculateKeepsScale ==
  ASSUME NEW n \in Nat, NEW table, OnScale(table, n), NEW i \in 1..n
  PROVE  /\ Calculate(table)[i] = table[i].rating + FromAbove(table)[i] + FromBelow(table, i)
         /\ Calculate(table)[i] \in Scale
<1>1. table[i].rating + FromAbove(table)[i] + FromBelow(table, i) \in Scale
  BY SeatsOnScale
<1>2. PICK x : x = table[i].rating + FromAbove(table)[i] + FromBelow(table, i)
  OBVIOUS
<1>3. Calculate(table)[i] = ClampRating(x)
  BY <1>2 DEF Calculate, OnScale
<1>4. ClampRating(x) = x
  BY <1>1, <1>2, PointsRound
<1> QED BY <1>1, <1>2, <1>3, <1>4

\* Player.Provisional's comment: among nothing but provisional players an established one
\* gains nothing.
THEOREM ProvisionalsPayNothing ==
  ASSUME NEW n \in Nat, NEW table, OnScale(table, n), NEW i \in 1..n,
         ~table[i].provisional, \A j \in 1..n : j # i => table[j].provisional
  PROVE  Calculate(table)[i] <= table[i].rating
<1>1. FromAbove(table)[i] <= 0
  <2>1. CASE i = 1
    BY <2>1, FromAboveIs
  <2>2. CASE i # 1
    <3>1. i - 1 \in 1..n /\ i - 1 # i /\ i - 1 < n /\ FromAbove(table)[i - 1] \in Int
      BY <2>2, SeatsOnScale
    <3>2. PICK m \in Int : m = -Moved(table, i - 1, FromAbove(table)[i - 1])
      <4>1. Moved(table, i - 1, FromAbove(table)[i - 1]) \in Int
        BY <3>1, MovedIsCapped
      <4> QED BY <4>1
    <3>3. FromAbove(table)[i] = Paid(table[i], table[i - 1], m)
      BY <2>2, <3>2, FromAboveIs
    <3> QED BY <3>1, <3>3, PaidIs
  <2> QED BY <2>1, <2>2
<1>2. FromBelow(table, i) <= 0
  <2>1. CASE i = n
    BY <2>1 DEF FromBelow, OnScale
  <2>2. CASE i # n
    <3>1. i + 1 \in 1..n /\ i + 1 # i /\ i < n /\ FromAbove(table)[i] \in Int
      BY <2>2, SeatsOnScale
    <3>2. PICK m \in Int : m = Moved(table, i, FromAbove(table)[i])
      BY <3>1, MovedIsCapped
    <3>3. FromBelow(table, i) = Paid(table[i], table[i + 1], m)
      BY <2>2, <3>2 DEF FromBelow, OnScale
    <3> QED BY <3>1, <3>3, PaidIs
  <2> QED BY <2>1, <2>2
<1>3. table[i].rating \in Int /\ FromAbove(table)[i] \in Int /\ FromBelow(table, i) \in Int
  <2>1. table[i].rating \in Int
    BY ScaleIsInt DEF OnScale, Scale
  <2> QED BY <2>1, SeatsOnScale
<1> QED BY <1>1, <1>2, <1>3, CalculateKeepsScale

\* Between established players each gains what the one below it loses.
LEMMA NeighboursBalance ==
  ASSUME NEW n \in Nat, NEW table, OnScale(table, n), \A i \in 1..n : ~table[i].provisional
  PROVE  /\ n > 0 => FromAbove(table)[1] = 0 /\ FromBelow(table, n) = 0
         /\ \A i \in 1..n : i < n => FromAbove(table)[i + 1] = -FromBelow(table, i)
<1>1. n > 0 => FromAbove(table)[1] = 0 /\ FromBelow(table, n) = 0
  BY FromAboveIs DEF FromBelow, OnScale
<1>2. ASSUME NEW i \in 1..n, i < n PROVE FromAbove(table)[i + 1] = -FromBelow(table, i)
  <2>1. i + 1 \in 1..n /\ i + 1 # 1 /\ (i + 1) - 1 = i /\ FromAbove(table)[i] \in Int
    BY <1>2, SeatsOnScale
  <2>2. PICK m \in Int : m = Moved(table, i, FromAbove(table)[i])
    BY <1>2, <2>1, MovedIsCapped
  <2>3. FromBelow(table, i) = Paid(table[i], table[i + 1], m)
    BY <1>2, <2>2 DEF FromBelow, OnScale
  <2>4. FromAbove(table)[i + 1] = Paid(table[i + 1], table[i], -m)
    BY <2>1, <2>2, FromAboveIs
  <2>5. Paid(table[i], table[i + 1], m) = m
    BY <2>1, PaidIs
  <2>6. -m \in Int
    BY <2>2
  <2>7. Paid(table[i + 1], table[i], -m) = -m
    BY <2>1, <2>6, PaidIs
  <2> QED BY <2>3, <2>4, <2>5, <2>7
<1> QED BY <1>1, <1>2

-----------------------------------------------------------------------------
(* The order of the standings *)

CountsAhead(pos, n, R) == \A i \in 1..n : pos[i] = Cardinality({j \in 1..n : j = i \/ <<j, i>> \in R})

\* pos gives everybody a number of their own, and no number is left out.
Numbers(pos, n) ==
  /\ \A i \in 1..n : pos[i] \in 1..n
  /\ \A i, j \in 1..n : pos[i] = pos[j] => i = j
  /\ \A k \in 1..n : \E i \in 1..n : pos[i] = k

\* Counting who is not behind them numbers the members of a strict total order from 1 to n.
LEMMA RanksAreDistinct ==
  ASSUME NEW n \in Nat, NEW R,
         \A i \in 1..n : <<i, i>> \notin R,
         \A i, j, k \in 1..n : <<i, j>> \in R /\ <<j, k>> \in R => <<i, k>> \in R,
         \A i, j \in 1..n : i # j => <<i, j>> \in R \/ <<j, i>> \in R,
         NEW pos, CountsAhead(pos, n, R)
  PROVE  Numbers(pos, n)
<1> DEFINE Ahead(i) == {j \in 1..n : j = i \/ <<j, i>> \in R}
<1>1. IsFiniteSet(1..n) /\ Cardinality(1..n) = n
  BY FS_Interval
<1>2. ASSUME NEW i \in 1..n
      PROVE  /\ Ahead(i) \in SUBSET (1..n) /\ i \in Ahead(i) /\ IsFiniteSet(Ahead(i))
             /\ pos[i] = Cardinality(Ahead(i))
             /\ Cardinality(Ahead(i)) \in Nat /\ Cardinality(Ahead(i)) <= n
             /\ Cardinality(Ahead(i)) # 0
  <2>1. Ahead(i) \in SUBSET (1..n) /\ i \in Ahead(i) /\ pos[i] = Cardinality(Ahead(i))
    BY DEF CountsAhead
  <2> HIDE DEF Ahead
  <2>2. IsFiniteSet(Ahead(i)) /\ Cardinality(Ahead(i)) <= n /\ Cardinality(Ahead(i)) \in Nat
    BY <1>1, <2>1, FS_Subset, FS_CardinalityType
  <2>3. Cardinality(Ahead(i)) # 0
    BY <2>1, <2>2, FS_EmptySet
  <2> QED BY <2>1, <2>2, <2>3
<1>3. ASSUME NEW i \in 1..n, NEW j \in 1..n, <<i, j>> \in R PROVE pos[i] # pos[j]
  <2>1. Ahead(i) \in SUBSET Ahead(j) /\ j \in Ahead(j) /\ j \notin Ahead(i)
    BY <1>3
  <2> HIDE DEF Ahead
  <2> QED BY <1>2, <2>1, FS_Subset
<1>4. \A i \in 1..n : pos[i] \in 1..n
  <2> HIDE DEF Ahead
  <2> QED BY <1>2
<1>5. \A i, j \in 1..n : pos[i] = pos[j] => i = j
  BY <1>3
<1>6. ASSUME NEW k \in 1..n, \A i \in 1..n : pos[i] # k PROVE FALSE
  <2>1. PICK f : f = [i \in 1..n |-> pos[i]]
    OBVIOUS
  <2>2. f \in [1..n -> (1..n) \ {k}]
    BY <1>4, <1>6, <2>1
  <2>3. IsFiniteSet((1..n) \ {k}) /\ Cardinality((1..n) \ {k}) = n - 1
    BY <1>1, FS_RemoveElement
  <2>4. n - 1 < Cardinality(1..n)
    BY <1>1
  <2>5. PICK S, T : S = 1..n /\ T = (1..n) \ {k}
    OBVIOUS
  <2>6. \E x, y \in S : x # y /\ f[x] = f[y]
    <3>1. IsFiniteSet(S) /\ IsFiniteSet(T) /\ Cardinality(T) < Cardinality(S) /\ f \in [S -> T]
      BY <1>1, <2>2, <2>3, <2>4, <2>5
    <3> QED BY <3>1, FS_PigeonHole
  <2>7. \E x, y \in 1..n : x # y /\ f[x] = f[y]
    BY <2>5, <2>6
  <2> QED BY <1>5, <2>1, <2>7
<1> QED BY <1>4, <1>5, <1>6 DEF Numbers

\* table is players in another order: its k-th is the one of seat[k].
Permutes(seat, n, players, table) ==
  /\ \A k \in 1..n : seat[k] \in 1..n /\ table[k] = players[seat[k]]
  /\ \A k, l \in 1..n : seat[k] = seat[l] => k = l
  /\ \A i \in 1..n : \E k \in 1..n : seat[k] = i

\* normalizeTies puts everybody in the standings exactly once.
LEMMA OrderedKeepsPlayers ==
  ASSUME NEW n \in Nat, NEW players, DOMAIN players = 1..n,
         \A i \in 1..n : players[i].rating \in Int /\ players[i].id \in Int,
         \A i, j \in 1..n : players[i].id = players[j].id => i = j
  PROVE  /\ DOMAIN Ordered(players) = 1..n /\ Len(Ordered(players)) = n
         /\ \E seat : Permutes(seat, n, players, Ordered(players))
<1> DEFINE Tied(i, j)   == \A k \in Smaller(i, j)..Larger(i, j) : players[k].place = players[i].place
           Before(i, j) == IF ~Tied(i, j) THEN i < j
                           ELSE \/ players[i].rating > players[j].rating
                                \/ players[i].rating = players[j].rating /\ players[i].id < players[j].id
           Position(i)  == Cardinality({j \in DOMAIN players : j = i \/ Before(j, i)})
           Seated(k)    == CHOOSE i \in DOMAIN players : Position(i) = k
<1>1. Ordered(players) = [k \in 1..n |-> players[Seated(k)]]
  BY Zenon DEF Ordered
<1>2. \A i, j \in 1..n : Tied(i, j) <=> Tied(j, i)
  <2> SUFFICES ASSUME NEW i \in 1..n, NEW j \in 1..n, Tied(i, j) PROVE Tied(j, i)
    OBVIOUS
  <2>1. Smaller(i, j) = Smaller(j, i) /\ Larger(i, j) = Larger(j, i)
    BY DEF Smaller, Larger
  <2>2. j \in Smaller(i, j)..Larger(i, j)
    BY DEF Smaller, Larger
  <2> QED BY <2>1, <2>2
<1>3. \A i, j, k \in 1..n : Tied(i, j) /\ ((i <= k /\ k <= j) \/ (j <= k /\ k <= i)) => Tied(i, k) /\ Tied(k, j)
  <2> SUFFICES ASSUME NEW i \in 1..n, NEW j \in 1..n, NEW k \in 1..n, Tied(i, j),
                      (i <= k /\ k <= j) \/ (j <= k /\ k <= i)
               PROVE  Tied(i, k) /\ Tied(k, j)
    OBVIOUS
  <2>1. k \in Smaller(i, j)..Larger(i, j)
    BY DEF Smaller, Larger
  <2>2. \A l : l \in Smaller(i, k)..Larger(i, k) => l \in Smaller(i, j)..Larger(i, j)
    BY DEF Smaller, Larger
  <2>3. \A l : l \in Smaller(k, j)..Larger(k, j) => l \in Smaller(i, j)..Larger(i, j)
    BY DEF Smaller, Larger
  <2> QED BY <2>1, <2>2, <2>3
<1>4. \A i, j, k \in 1..n : Tied(i, j) /\ Tied(j, k) => Tied(i, k)
  <2> SUFFICES ASSUME NEW i \in 1..n, NEW j \in 1..n, NEW k \in 1..n, Tied(i, j), Tied(j, k)
               PROVE  Tied(i, k)
    OBVIOUS
  <2>1. j \in Smaller(i, j)..Larger(i, j)
    BY DEF Smaller, Larger
  <2>2. \A l : l \in Smaller(i, k)..Larger(i, k) =>
               l \in Smaller(i, j)..Larger(i, j) \/ l \in Smaller(j, k)..Larger(j, k)
    BY DEF Smaller, Larger
  <2> QED BY <2>1, <2>2
<1> HIDE DEF Tied
<1>5. \A i \in 1..n : Tied(i, i) => ~Before(i, i)
  OBVIOUS
<1>6. \A i \in 1..n : ~Before(i, i)
  BY <1>5
<1>7. \A i, j \in 1..n : i # j => Before(i, j) \/ Before(j, i)
  <2> SUFFICES ASSUME NEW i \in 1..n, NEW j \in 1..n, i # j PROVE Before(i, j) \/ Before(j, i)
    OBVIOUS
  <2>1. players[i].id # players[j].id
    OBVIOUS
  <2>2. CASE Tied(i, j)
    BY <1>2, <2>1, <2>2
  <2>3. CASE ~Tied(i, j)
    BY <1>2, <2>3
  <2> QED BY <2>2, <2>3
<1>8. \A i, j, k \in 1..n : Before(i, j) /\ Before(j, k) => Before(i, k)
  <2> SUFFICES ASSUME NEW i \in 1..n, NEW j \in 1..n, NEW k \in 1..n, Before(i, j), Before(j, k)
               PROVE  Before(i, k)
    OBVIOUS
  <2>1. CASE Tied(i, j) /\ Tied(j, k)
    <3>1. Tied(i, k)
      BY <1>4, <2>1
    <3> QED BY <2>1, <3>1
  <2>2. CASE Tied(i, j) /\ ~Tied(j, k)
    <3>1. j < k
      BY <2>2
    <3>2. ~Tied(i, k)
      BY <1>2, <1>4, <2>2
    <3>3. i < k
      <4> SUFFICES ASSUME k <= i PROVE FALSE
        OBVIOUS
      <4> QED BY <1>2, <1>3, <2>2, <3>1
    <3> QED BY <3>2, <3>3
  <2>3. CASE ~Tied(i, j) /\ Tied(j, k)
    <3>1. i < j
      BY <2>3
    <3>2. ~Tied(i, k)
      BY <1>2, <1>4, <2>3
    <3>3. i < k
      <4> SUFFICES ASSUME k <= i PROVE FALSE
        OBVIOUS
      <4> QED BY <1>2, <1>3, <2>3, <3>1
    <3> QED BY <3>2, <3>3
  <2>4. CASE ~Tied(i, j) /\ ~Tied(j, k)
    <3>1. i < j /\ j < k
      BY <2>4
    <3>2. ~Tied(i, k)
      <4>1. i <= j /\ j <= k
        BY <3>1
      <4>2. Tied(i, k) => Tied(i, j)
        BY <1>3, <4>1
      <4> QED BY <2>4, <4>2
    <3>3. i < k
      BY <3>1
    <3> QED BY <3>2, <3>3
  <2> QED BY <2>1, <2>2, <2>3, <2>4
<1> HIDE DEF Before
<1>9. PICK R : R = {p \in (1..n) \X (1..n) : Before(p[1], p[2])}
  OBVIOUS
<1>10. \A i, j \in 1..n : <<i, j>> \in R <=> Before(i, j)
  BY <1>9
<1>11. PICK pos : pos = [i \in 1..n |-> Position(i)]
  OBVIOUS
<1>12. CountsAhead(pos, n, R)
  <2> SUFFICES ASSUME NEW i \in 1..n
               PROVE  pos[i] = Cardinality({j \in 1..n : j = i \/ <<j, i>> \in R})
    BY DEF CountsAhead
  <2>1. {j \in DOMAIN players : j = i \/ Before(j, i)} = {j \in 1..n : j = i \/ <<j, i>> \in R}
    BY <1>10
  <2> QED BY <1>11, <2>1
<1>13. Numbers(pos, n)
  <2>1. \A i \in 1..n : <<i, i>> \notin R
    BY <1>6, <1>10
  <2>2. \A i, j, k \in 1..n : <<i, j>> \in R /\ <<j, k>> \in R => <<i, k>> \in R
    BY <1>8, <1>10
  <2>3. \A i, j \in 1..n : i # j => <<i, j>> \in R \/ <<j, i>> \in R
    BY <1>7, <1>10
  <2> QED BY <1>12, <2>1, <2>2, <2>3, RanksAreDistinct
<1>14. \A i \in 1..n : pos[i] = Position(i)
  BY <1>11
<1> HIDE DEF Position
<1>15. \A k \in 1..n : Seated(k) \in 1..n /\ pos[Seated(k)] = k
  <2> SUFFICES ASSUME NEW k \in 1..n PROVE Seated(k) \in 1..n /\ pos[Seated(k)] = k
    OBVIOUS
  <2>1. \E i \in DOMAIN players : Position(i) = k
    <3>1. PICK i \in 1..n : pos[i] = k
      BY <1>13 DEF Numbers
    <3>2. i \in DOMAIN players /\ Position(i) = k
      BY <1>14, <3>1
    <3> QED BY <3>2
  <2>2. Seated(k) \in DOMAIN players /\ Position(Seated(k)) = k
    BY <2>1
  <2> HIDE DEF Seated
  <2> QED BY <1>14, <2>2
<1> HIDE DEF Seated
<1>16. PICK seat : seat = [k \in 1..n |-> Seated(k)]
  OBVIOUS
<1>17. seat \in [1..n -> 1..n] /\ \A k \in 1..n : pos[seat[k]] = k
  BY <1>15, <1>16
<1>18. \A k, l \in 1..n : seat[k] = seat[l] => k = l
  BY <1>17
<1>19. ASSUME NEW i \in 1..n PROVE \E k \in 1..n : seat[k] = i
  <2>1. pos[i] \in 1..n
    BY <1>13 DEF Numbers
  <2>2. seat[pos[i]] \in 1..n /\ pos[seat[pos[i]]] = pos[i]
    BY <1>17, <2>1
  <2>3. seat[pos[i]] = i
    BY <1>13, <2>2 DEF Numbers
  <2> QED BY <2>1, <2>3
<1>20. \A k \in 1..n : Ordered(players)[k] = players[seat[k]]
  BY <1>1, <1>16
<1>21. DOMAIN Ordered(players) = 1..n /\ Len(Ordered(players)) = n
  BY <1>1
<1>22. Permutes(seat, n, players, Ordered(players))
  BY <1>17, <1>18, <1>19, <1>20 DEF Permutes
<1> QED BY <1>21, <1>22

-----------------------------------------------------------------------------
(* Sums *)

\* g adds up f along id, from nothing to the total.
AddsAlong(g, n, f, id, total) ==
  /\ g[0] = 0 /\ g[n] = total
  /\ \A i \in 1..n : g[i] = g[i - 1] + f[id[i]]

\* A sum is a sum along any list of all users that have something.
LEMMA SumAlong ==
  ASSUME NEW f \in [User -> Int], NEW n \in Nat, NEW id \in [1..n -> User],
         \A i, j \in 1..n : id[i] = id[j] => i = j,
         \A u \in User : (\A i \in 1..n : id[i] # u) => f[u] = 0
  PROVE  \E g \in [0..n -> Int] : AddsAlong(g, n, f, id, SumFunctionOnSet(f, User))
<1> DEFINE Prefix(k) == {id[i] : i \in 1..k}
<1>1. IsFiniteSet(User) /\ IntsOn(f, User)
  BY RatingsAssumption DEF IntsOn
<1>2. PICK s : s = [S \in SUBSET User |-> SumFunctionOnSet(f, S)]
  OBVIOUS
<1>3. ASSUME NEW S \in SUBSET User
       PROVE  s[S] \in Int /\ \A u \in S : s[S] = f[u] + s[S \ {u}]
  <2>1. IsFiniteSet(S) /\ IntsOn(f, S)
    BY <1>1, FS_Subset DEF IntsOn
  <2>2. SumFunctionOnSet(f, S) \in Int
    BY <2>1, SumType
  <2>3. ASSUME NEW u \in S PROVE s[S] = f[u] + s[S \ {u}]
    <3>1. SumFunctionOnSet(f, S) = f[u] + SumFunctionOnSet(f, S \ {u})
      BY <2>1, SumByOne
    <3>2. S \ {u} \in SUBSET User
      OBVIOUS
    <3> QED BY <1>2, <3>1, <3>2
  <2> QED BY <1>2, <2>2, <2>3
<1>4. \A S \in SUBSET User : S = {} => s[S] = 0
  BY <1>2, SumOfNone
<1>5. PICK D : D = [k \in 0..n |-> Prefix(k)]
  OBVIOUS
<1>6. \A k \in 0..n : D[k] = Prefix(k) /\ D[k] \in SUBSET User
  <2> SUFFICES ASSUME NEW k \in 0..n PROVE D[k] = Prefix(k) /\ D[k] \in SUBSET User
    OBVIOUS
  <2>1. \A i \in 1..k : i \in 1..n
    OBVIOUS
  <2> QED BY <1>5, <2>1
<1>7. ASSUME NEW k \in 1..n
      PROVE  id[k] \in D[k] /\ D[k] \ {id[k]} = D[k - 1]
  <2>1. k \in 0..n /\ k - 1 \in 0..n
    OBVIOUS
  <2>2. D[k] = Prefix(k) /\ D[k - 1] = Prefix(k - 1)
    BY <1>6, <2>1
  <2>3. 1..k = (1..(k - 1)) \cup {k} /\ \A i \in 1..(k - 1) : i \in 1..n /\ i # k
    OBVIOUS
  <2>4. Prefix(k) = Prefix(k - 1) \cup {id[k]}
    BY <2>3
  <2>5. id[k] \notin Prefix(k - 1)
    BY <2>3
  <2> HIDE DEF Prefix
  <2> QED BY <2>2, <2>4, <2>5
<1>8. D[0] = {}
  BY <1>6
<1>9. s[User] = s[D[n]]
  <2>1. D[n] \in SUBSET User /\ n \in 0..n
    BY <1>6
  <2>2. \A u \in User \ D[n] : f[u] = 0
    BY <1>6, <2>1
  <2>3. SumFunctionOnSet(f, User) = SumFunctionOnSet(f, D[n])
    <3> HIDE DEF Prefix
    <3>1. PICK E \in SUBSET User : E = D[n] /\ \A u \in User \ E : f[u] = 0
      BY <2>1, <2>2
    <3> QED BY <1>1, <3>1, SumOfSome
  <2> QED BY <1>2, <2>1, <2>3
<1> HIDE DEF Prefix
<1>10. PICK g : g = [k \in 0..n |-> s[D[k]]]
  OBVIOUS
<1>11. g \in [0..n -> Int]
  BY <1>3, <1>6, <1>10
<1>12. ASSUME NEW k \in 1..n PROVE g[k] = g[k - 1] + f[id[k]]
  <2>1. k \in 0..n /\ k - 1 \in 0..n
    OBVIOUS
  <2>2. s[D[k]] = f[id[k]] + s[D[k] \ {id[k]}]
    <3>1. PICK S \in SUBSET User, u \in User : S = D[k] /\ u = id[k] /\ u \in S
      BY <1>6, <1>7, <2>1
    <3>2. s[S] = f[u] + s[S \ {u}]
      BY <1>3, <3>1
    <3> QED BY <3>1, <3>2
  <2>3. g[k] = f[id[k]] + g[k - 1]
    BY <1>7, <1>10, <2>1, <2>2
  <2>4. f[id[k]] \in Int /\ g[k - 1] \in Int
    BY <1>11, <2>1
  <2> QED BY <2>3, <2>4
<1>13. g[0] = 0 /\ g[n] = s[User]
  <2>1. 0 \in 0..n /\ n \in 0..n
    OBVIOUS
  <2>2. s[D[0]] = 0
    BY <1>4, <1>8
  <2> QED BY <1>9, <1>10, <2>1, <2>2
<1>14. s[User] = SumFunctionOnSet(f, User)
  BY <1>2
<1> QED BY <1>11, <1>12, <1>13, <1>14 DEF AddsAlong

\* Each term is what a seat gains from above and below, to half a unit, and each gains from
\* above what the one above it loses.
Balanced(n, term, unit, above, below) ==
  /\ \A i \in 1..n : 2 * (term[i] * unit) - 2 * (above[i] + below[i]) \in -unit..unit
  /\ n > 0 => above[1] = 0 /\ below[n] = 0
  /\ \A i \in 1..n : i < n => above[i + 1] = -below[i]

LEMMA BalancedSoFar ==
  ASSUME NEW x \in Int, NEW y \in Int, NEW z \in Int, NEW b \in Int, NEW c \in Int, NEW unit \in Nat,
         2 * x - 2 * (-b + c) \in -unit..unit, 2 * y - 2 * b \in -z..z
  PROVE  2 * (x + y) - 2 * c \in -(z + unit)..(z + unit)
OBVIOUS

LEMMA HalfAUnitEach ==
  ASSUME NEW x \in Int, NEW n \in Nat, NEW unit \in Nat \ {0},
         2 * (x * unit) \in -(n * unit)..(n * unit)
  PROVE  2 * x \in -n..n
<1>1. PICK y, z \in Int : y = x * unit /\ z = n * unit
  OBVIOUS
<1>2. 2 * y <= z /\ -z <= 2 * y
  BY <1>1
<1>3. (2 * x) * unit = 2 * y
  BY <1>1
<1>4. ASSUME n + 1 <= 2 * x PROVE FALSE
  <2>1. (n + 1) * unit <= (2 * x) * unit
    BY <1>4, TimesKeepsOrder
  <2>2. (n + 1) * unit = z + unit
    BY <1>1
  <2> QED BY <1>2, <1>3, <2>1, <2>2
<1>5. ASSUME 2 * x <= -n - 1 PROVE FALSE
  <2>1. (2 * x) * unit <= (-n - 1) * unit
    BY <1>5, TimesKeepsOrder
  <2>2. (-n - 1) * unit = -z - unit
    BY <1>1
  <2> QED BY <1>2, <1>3, <2>1, <2>2
<1> QED BY <1>4, <1>5

\* Such terms add up to nothing, to half a unit for each.
LEMMA RoundingOnly ==
  ASSUME NEW n \in Nat, NEW g \in [0..n -> Int], NEW term \in [1..n -> Int],
         g[0] = 0, \A i \in 1..n : g[i] = g[i - 1] + term[i],
         NEW unit \in Nat \ {0}, NEW above \in [1..n -> Int], NEW below \in [1..n -> Int],
         Balanced(n, term, unit, above, below)
  PROVE  2 * g[n] \in -n..n
<1> DEFINE Near(k) == 2 * (g[k] * unit) - 2 * below[k] \in -(k * unit)..(k * unit)
           K == {k \in 1..n : Near(k)}
<1>1. ASSUME n >= 1 PROVE Near(1)
  <2>1. 1 \in 1..n /\ g[1] = g[1 - 1] + term[1] /\ term[1] \in Int /\ 1 - 1 = 0
    BY <1>1
  <2>2. g[1] = term[1]
    BY <2>1
  <2>3. 2 * (term[1] * unit) - 2 * (above[1] + below[1]) \in -unit..unit /\ above[1] = 0 /\ below[1] \in Int
    BY <2>1 DEF Balanced
  <2>4. PICK b \in Int : b = below[1]
    BY <2>3
  <2>5. 2 * (g[1] * unit) - 2 * (0 + b) \in -unit..unit
    BY <2>2, <2>3, <2>4
  <2>6. 0 + b = b /\ 1 * unit = unit
    OBVIOUS
  <2> QED BY <2>4, <2>5, <2>6
<1>2. ASSUME NEW k \in 1..n, k < n, Near(k) PROVE Near(k + 1)
  <2>1. k + 1 \in 1..n /\ (k + 1) - 1 = k /\ k \in 0..n
    BY <1>2
  <2>2. PICK a, t, b, c \in Int : a = g[k] /\ t = term[k + 1] /\ b = below[k] /\ c = below[k + 1]
    BY <2>1
  <2>3. g[k + 1] = a + t /\ above[k + 1] = -b
    BY <1>2, <2>1, <2>2 DEF Balanced
  <2>4. PICK x, y, z \in Int : x = t * unit /\ y = a * unit /\ z = k * unit
    OBVIOUS
  <2>5. g[k + 1] * unit = x + y /\ (k + 1) * unit = z + unit
    BY <2>3, <2>4
  <2>6. 2 * x - 2 * (-b + c) \in -unit..unit
    BY <2>1, <2>2, <2>3, <2>4 DEF Balanced
  <2>7. 2 * y - 2 * b \in -z..z
    BY <1>2, <2>2, <2>4
  <2>8. 2 * (x + y) - 2 * c \in -(z + unit)..(z + unit)
    BY <2>6, <2>7, BalancedSoFar
  <2> QED BY <2>2, <2>5, <2>8
<1>3. CASE n = 0
  BY <1>3
<1>4. CASE n # 0
  <2>1. 1..n \subseteq K
    <3>1. n >= 1 => 1 \in K
      BY <1>1
    <3> HIDE DEF Near
    <3>2. \A k \in 1..n : k \in K /\ k < n => k + 1 \in K
      BY <1>2
    <3> HIDE DEF K
    <3> QED BY <3>1, <3>2, CountsUp
  <2>2. Near(n)
    <3>1. n \in 1..n
      BY <1>4
    <3> QED BY <2>1, <3>1
  <2>3. below[n] = 0 /\ g[n] \in Int
    BY <1>4 DEF Balanced
  <2>4. 2 * (g[n] * unit) \in -(n * unit)..(n * unit)
    <3>1. PICK y \in Int : y = g[n] * unit
      BY <2>3
    <3>2. 2 * y - 2 * 0 \in -(n * unit)..(n * unit)
      BY <2>2, <2>3, <3>1
    <3> QED BY <3>1, <3>2
  <2> QED BY <2>3, <2>4, HalfAUnitEach
<1> QED BY <1>3, <1>4

-----------------------------------------------------------------------------
(* The cap *)

Stages == {"Idle", "Game", "Seats", "Seed", "Fetch", "Record", "Done", "Aborted"}

\* As much of the types as the cap needs, and that only finished matches are history.
Shape ==
  /\ history \in Seq(Tx)
  /\ aged \in 0..Len(history)
  /\ stage \in [Tx -> Stages]
  /\ result \in [Tx -> Results \cup {None}]
  /\ \A t \in Tx : stage[t] # "Idle" => result[t] \in Results
  /\ paid \in [Tx -> BOOLEAN]
  /\ seatLock \in [User -> Tx \cup {None}]
  /\ \A i \in 1..Len(history) : stage[history[i]] = "Done"

\* The parts of a finalize that keep the history and the locks as they are.
Quiet(t) == GetOrCreateGame(t) \/ SeedRankingRows(t) \/ FetchRanking(t)

Erasure(u) == DeleteAccount(u) \/ Erase(u)

\* The state keeps its shape.
THEOREM ShapeCorrect == Spec => []Shape
<1>1. Init => Shape
  BY RatingsAssumption DEF Init, Shape, Stages
<1>2. Shape /\ [Next]_vars => Shape'
  <2> SUFFICES ASSUME Shape, [Next]_vars PROVE Shape'
    OBVIOUS
  <2> USE DEF Shape, Stages, To
  <2>1. ASSUME NEW t \in Tx, Quiet(t) PROVE Shape'
    BY <2>1 DEF Quiet, GetOrCreateGame, SeedRankingRows, FetchRanking, stored, writes, locks
  <2>2. ASSUME NEW t \in Tx, LockPairing(t) PROVE Shape'
    <3>1. \A n : [seatLock EXCEPT ![n] = t] \in [User -> Tx \cup {None}]
      OBVIOUS
    <3>2. seatLock' \in [User -> Tx \cup {None}]
      BY <2>2, <3>1 DEF LockPairing
    <3>3. stage' \in [Tx -> Stages] /\ stage'[t] \in {"Seats", "Seed"}
      BY <2>2 DEF LockPairing
    <3>4. \A s \in Tx : s # t => stage'[s] = stage[s]
      BY <2>2 DEF LockPairing
    <3> QED BY <2>2, <3>2, <3>3, <3>4 DEF LockPairing, stored, writes
  <2>3. ASSUME NEW t \in Tx, UpdateRankings(t) PROVE Shape'
    BY <2>3 DEF UpdateRankings, stored, locks
  <2>4. ASSUME NEW t \in Tx, NoRankingRow(t) \/ RollBack(t) PROVE Shape'
    BY <2>4 DEF NoRankingRow, RollBack, Release, Running, stored, writes
  <2>5. ASSUME NEW t \in Tx, Commit(t) PROVE Shape'
    BY <2>5 DEF Commit, Release, writes
  <2>6. ASSUME NEW t \in Tx, NEW r \in Results, Begin(t, r) PROVE Shape'
    BY <2>6 DEF Begin, stored, writes, locks
  <2>7. ASSUME NEW u \in User, Erasure(u) PROVE Shape'
    <3>1. UNCHANGED <<history, aged, stage, result, paid, seatLock>>
      BY <2>7 DEF Erasure, DeleteAccount, Erase, DeleteRanking, Anonymise, stored, writes, locks
    <3> QED BY <3>1
  <2>8. CASE Age
    BY <2>8 DEF Age, writes, locks
  <2>9. CASE UNCHANGED vars
    BY <2>9 DEF vars, stored, writes, locks
  <2> QED
    BY <2>1, <2>2, <2>3, <2>4, <2>5, <2>6, <2>7, <2>8, <2>9 DEF Next, Finalize, Quiet, Erasure
<1> QED BY <1>1, <1>2, PTL DEF Spec

LEMMA RecentDone ==
  ASSUME Shape
  PROVE  Recent \subseteq Tx /\ \A s \in Recent : stage[s] = "Done"
<1>1. \A i \in (aged + 1)..Len(history) : i \in 1..Len(history)
  BY DEF Shape
<1>2. \A i \in 1..Len(history) : history[i] \in Tx
  BY DEF Shape
<1> QED BY <1>1, <1>2 DEF Shape, Recent

LEMMA SeatsAreUsers ==
  ASSUME Shape, NEW t \in Tx, stage[t] # "Idle"
  PROVE  Seats(t) \subseteq User /\ IsFiniteSet(Seats(t))
<1>1. result[t] \in Results /\ result[t].seats \in Seq(User)
  BY RatingsAssumption DEF Shape
<1>2. Seats(t) \subseteq User
  BY <1>1 DEF Seats, ToSet
<1> QED BY <1>2, FS_Subset, RatingsAssumption

LEMMA CountsAreFinite ==
  ASSUME Shape, NEW u, NEW v
  PROVE  /\ IsFiniteSet(Together(u, v)) /\ IsFiniteSet(PaidTogether(u, v))
         /\ Cardinality(Together(u, v)) \in Nat /\ Cardinality(PaidTogether(u, v)) \in Nat
         /\ Cardinality(PaidTogether(u, v)) <= Cardinality(Together(u, v))
<1>1. Together(u, v) \in SUBSET Tx
  BY RecentDone DEF Together
<1>2. IsFiniteSet(Together(u, v))
  BY <1>1, FS_Subset, RatingsAssumption
<1>3. PaidTogether(u, v) \in SUBSET Together(u, v)
  BY DEF PaidTogether
<1> QED BY <1>2, <1>3, FS_Subset, FS_CardinalityType

\* What was counted stays as it was, as finished matches do not change.
LEMMA StillCounted ==
  ASSUME Shape, Recent' \subseteq Recent,
         \A s \in Recent : result'[s] = result[s] /\ paid'[s] = paid[s],
         NEW u, NEW v
  PROVE  /\ Cardinality(PaidTogether(u, v)') \in Nat
         /\ Cardinality(PaidTogether(u, v)') <= Cardinality(PaidTogether(u, v))
<1>1. PaidTogether(u, v)' \in SUBSET PaidTogether(u, v)
  BY DEF PaidTogether, Together, Seats
<1>2. IsFiniteSet(PaidTogether(u, v))
  BY CountsAreFinite
<1> QED BY <1>1, <1>2, FS_Subset, FS_CardinalityType

\* A step that pays nobody anew keeps the cap.
LEMMA NobodyPaid ==
  ASSUME Shape, CapInv, SeatsHeld', Recent' \subseteq Recent,
         \A s \in Recent : result'[s] = result[s] /\ paid'[s] = paid[s],
         \A t \in Tx : stage'[t] = "Record" /\ result'[t].ranked /\ paid'[t] =>
           stage[t] = "Record" /\ result'[t] = result[t] /\ paid[t]
  PROVE  CapInv'
<1>1. \A u, v : /\ Cardinality(PaidTogether(u, v)) \in Nat
                /\ Cardinality(PaidTogether(u, v)') \in Nat
                /\ Cardinality(PaidTogether(u, v)') <= Cardinality(PaidTogether(u, v))
  BY StillCounted, CountsAreFinite
<1>2. PairCap \in Nat
  BY RatingsAssumption
<1>3. CapHolds'
  BY <1>1, <1>2 DEF CapInv, CapHolds
<1>4. RoomLeft'
  <2> SUFFICES ASSUME NEW t \in Tx, stage'[t] = "Record", result'[t].ranked, paid'[t],
                      NEW u \in Seats(t)', NEW v \in Seats(t)', u # v
               PROVE  Cardinality(PaidTogether(u, v)') < PairCap
    BY DEF RoomLeft
  <2>1. stage[t] = "Record" /\ result[t].ranked /\ paid[t] /\ u \in Seats(t) /\ v \in Seats(t)
    BY DEF Seats
  <2>2. Cardinality(PaidTogether(u, v)) < PairCap
    BY <2>1 DEF CapInv, RoomLeft
  <2> QED BY <1>1, <1>2, <2>2
<1> QED BY <1>3, <1>4 DEF CapInv

\* The seat a transaction locks next is nobody else's; with the last one it has them all.
LEMMA PairingLocked ==
  ASSUME Shape, CapInv, NEW t \in Tx, LockPairing(t)
  PROVE  SeatsHeld'
<1>1. stage[t] = "Seats" /\ seatLock[NextSeat(t)] \in {None, t}
  BY DEF LockPairing, WaitsFor, Blocking
<1>2. \A u \in User : seatLock'[u] = IF u = NextSeat(t) THEN t ELSE seatLock[u]
  BY DEF LockPairing, Shape
<1>3. Seats(t)' = Seats(t) /\ \A s \in Tx : Seats(s)' = Seats(s)
  BY DEF LockPairing, Seats
<1>4. ASSUME NEW s \in Tx, s # t, Counting(s)', NEW u \in Seats(s)
      PROVE  seatLock'[u] = s
  <2>1. stage[s] = stage'[s] /\ Counting(s)
    BY <1>4 DEF LockPairing, To, Shape, Counting
  <2>2. seatLock[u] = s /\ u \in User
    BY <1>4, <2>1, SeatsAreUsers DEF CapInv, SeatsHeld, Counting
  <2>3. u # NextSeat(t)
    BY <1>1, <1>4, <2>2, RatingsAssumption
  <2> QED BY <1>2, <2>2, <2>3
<1>5. ASSUME Counting(t)', NEW u \in Seats(t)
      PROVE  seatLock'[u] = t
  <2>1. Cardinality(Unlocked(t)) = 1
    BY <1>5 DEF LockPairing, To, Shape, Counting
  <2>2. Seats(t) \subseteq User /\ IsFiniteSet(Seats(t))
    BY <1>1, SeatsAreUsers
  <2>3. Unlocked(t) \in SUBSET Seats(t)
    BY DEF Unlocked
  <2>4. IsFiniteSet(Unlocked(t))
    BY <2>2, <2>3, FS_Subset
  <2>5. PICK x : Unlocked(t) = {x}
    BY <2>1, <2>4, FS_Singleton
  <2>6. x \in Int
    BY <2>2, <2>3, <2>5, RatingsAssumption
  <2>7. NextSeat(t) = x
    BY <2>5, <2>6 DEF NextSeat, Least
  <2>8. CASE u = x
    BY <1>2, <2>2, <2>7, <2>8
  <2>9. CASE u # x
    BY <1>2, <2>2, <2>5, <2>7, <2>9 DEF Unlocked
  <2> QED BY <2>8, <2>9
<1> QED BY <1>3, <1>4, <1>5 DEF SeatsHeld

\* A transaction that ends gives up its own locks only.
LEMMA Released ==
  ASSUME Shape, CapInv, NEW t \in Tx, NEW st \in {"Done", "Aborted"}, To(t, st), Release(t),
         result' = result
  PROVE  SeatsHeld'
<1> SUFFICES ASSUME NEW s \in Tx, Counting(s)', NEW u \in Seats(s)'
             PROVE  seatLock'[u] = s
  BY DEF SeatsHeld
<1>1. s # t /\ stage[s] = stage'[s]
  BY DEF To, Shape, Counting
<1>2. Counting(s) /\ u \in Seats(s)
  BY <1>1 DEF Counting, Seats
<1>3. seatLock[u] = s /\ u \in User
  BY <1>2, SeatsAreUsers DEF CapInv, SeatsHeld, Counting
<1> QED BY <1>1, <1>3 DEF Release

\* With all seats locked the count is what it will be at the commit.
LEMMA Counted ==
  ASSUME Shape, CapInv, NEW t \in Tx, UpdateRankings(t)
  PROVE  CapInv'
<1>1. /\ stage[t] = "Fetch" /\ stage'[t] = "Record" /\ paid'[t] = ~Damped(t)
      /\ \A s \in Tx : s # t => stage'[s] = stage[s] /\ paid'[s] = paid[s]
      /\ UNCHANGED <<history, aged, result, seatLock>>
  BY DEF UpdateRankings, To, Shape, stored, locks
<1>2. \A u, v : PaidTogether(u, v)' = PaidTogether(u, v)
  <2>1. \A s \in Recent : s \in Tx /\ s # t
    BY <1>1, RecentDone
  <2> QED BY <1>1, <2>1 DEF PaidTogether, Together, Recent, Seats
<1>3. SeatsHeld'
  <2>1. \A s \in Tx : (Counting(s)' => Counting(s)) /\ Seats(s)' = Seats(s)
    BY <1>1 DEF Counting, Seats
  <2> QED BY <1>1, <2>1 DEF CapInv, SeatsHeld
<1>4. CapHolds'
  BY <1>2 DEF CapInv, CapHolds
<1>5. RoomLeft'
  <2> SUFFICES ASSUME NEW s \in Tx, stage'[s] = "Record", result'[s].ranked, paid'[s],
                      NEW u \in Seats(s)', NEW v \in Seats(s)', u # v
               PROVE  Cardinality(PaidTogether(u, v)') < PairCap
    BY DEF RoomLeft
  <2>1. u \in Seats(s) /\ v \in Seats(s)
    BY <1>1 DEF Seats
  <2>2. CASE s # t
    BY <1>1, <1>2, <2>1, <2>2 DEF CapInv, RoomLeft
  <2>3. CASE s = t
    <3>1. ~(Cardinality(Together(u, v)) >= PairCap)
      BY <1>1, <2>1, <2>3 DEF Damped
    <3> QED BY <1>2, <3>1, CountsAreFinite, RatingsAssumption
  <2> QED BY <2>2, <2>3
<1> QED BY <1>3, <1>4, <1>5 DEF CapInv

\* The match that is recorded had been counted, and no other with two of its players.
LEMMA Committed ==
  ASSUME Shape, CapInv, NEW t \in Tx, Commit(t)
  PROVE  CapInv'
<1>1. /\ stage[t] = "Record" /\ stage'[t] = "Done"
      /\ \A s \in Tx : s # t => stage'[s] = stage[s]
      /\ history' = Append(history, t)
      /\ UNCHANGED <<aged, result, paid>>
  BY DEF Commit, To, Shape, writes
<1>2. Recent' = Recent \cup {t}
  <2>1. Len(history') = Len(history) + 1 /\ history'[Len(history) + 1] = t
    BY <1>1 DEF Shape
  <2>2. \A i \in 1..Len(history) : history'[i] = history[i]
    BY <1>1 DEF Shape
  <2>3. aged \in 0..Len(history) /\ Len(history) \in Nat
    BY DEF Shape
  <2>4. (aged + 1)..Len(history') = ((aged + 1)..Len(history)) \cup {Len(history) + 1}
    BY <2>1, <2>3
  <2>5. \A i \in (aged + 1)..Len(history) : history'[i] = history[i]
    BY <2>2, <2>3
  <2>6. Recent' = {history'[i] : i \in ((aged + 1)..Len(history)) \cup {Len(history) + 1}}
    BY <1>1, <2>4 DEF Recent
  <2>7. Recent' = {history'[i] : i \in (aged + 1)..Len(history)} \cup {t}
    BY <2>1, <2>6
  <2>8. {history'[i] : i \in (aged + 1)..Len(history)} = Recent
    BY <2>5 DEF Recent
  <2> QED BY <2>7, <2>8
<1>3. SeatsHeld'
  BY Released DEF Commit, writes
<1>4. \A u, v : PaidTogether(u, v)' =
                  PaidTogether(u, v) \cup (IF result[t].ranked /\ paid[t] /\ u \in Seats(t) /\ v \in Seats(t)
                                           THEN {t} ELSE {})
  BY <1>1, <1>2 DEF PaidTogether, Together, Seats
<1>5. \A u, v : IsFiniteSet(PaidTogether(u, v)) /\ Cardinality(PaidTogether(u, v)) \in Nat
  BY CountsAreFinite
<1>6. CapHolds'
  <2> SUFFICES ASSUME NEW u \in User, NEW v \in User, u # v
               PROVE  Cardinality(PaidTogether(u, v)') <= PairCap
    BY DEF CapHolds
  <2>1. CASE result[t].ranked /\ paid[t] /\ u \in Seats(t) /\ v \in Seats(t)
    <3>1. Cardinality(PaidTogether(u, v)) < PairCap
      BY <1>1, <2>1 DEF CapInv, RoomLeft
    <3>2. PaidTogether(u, v)' = PaidTogether(u, v) \cup {t}
      BY <1>4, <2>1
    <3>3. Cardinality(PaidTogether(u, v) \cup {t}) \in
            {Cardinality(PaidTogether(u, v)), Cardinality(PaidTogether(u, v)) + 1}
      BY <1>5, FS_AddElement
    <3>4. Cardinality(PaidTogether(u, v)) \in Nat /\ PairCap \in Nat
      BY <1>5, RatingsAssumption
    <3> QED BY <3>1, <3>2, <3>3, <3>4
  <2>2. CASE ~(result[t].ranked /\ paid[t] /\ u \in Seats(t) /\ v \in Seats(t))
    BY <1>4, <2>2 DEF CapInv, CapHolds
  <2> QED BY <2>1, <2>2
<1>7. RoomLeft'
  <2> SUFFICES ASSUME NEW s \in Tx, stage'[s] = "Record", result'[s].ranked, paid'[s],
                      NEW u \in Seats(s)', NEW v \in Seats(s)', u # v
               PROVE  Cardinality(PaidTogether(u, v)') < PairCap
    BY DEF RoomLeft
  <2>1. /\ s # t /\ stage[s] = "Record" /\ result[s].ranked /\ paid[s]
        /\ u \in Seats(s) /\ v \in Seats(s)
    BY <1>1 DEF Seats
  <2>2. Cardinality(PaidTogether(u, v)) < PairCap
    BY <2>1 DEF CapInv, RoomLeft
  <2>3. ~(result[t].ranked /\ u \in Seats(t))
    <3>1. seatLock[u] = s
      BY <2>1 DEF CapInv, SeatsHeld, Counting
    <3>2. result[t].ranked /\ u \in Seats(t) => seatLock[u] = t
      BY <1>1 DEF CapInv, SeatsHeld, Counting
    <3> QED BY <2>1, <3>1, <3>2
  <2>4. PaidTogether(u, v)' = PaidTogether(u, v)
    BY <1>4, <2>3
  <2> QED BY <2>2, <2>4
<1> QED BY <1>3, <1>6, <1>7 DEF CapInv

\* Everything else pays nobody and disturbs no lock of a match that counts.
LEMMA OthersKeepCap ==
  ASSUME Shape, CapInv,
         \/ \E t \in Tx : Quiet(t) \/ LockPairing(t) \/ NoRankingRow(t) \/ RollBack(t)
         \/ \E t \in Tx, r \in Results : Begin(t, r)
         \/ \E u \in User : Erasure(u)
         \/ Age
         \/ UNCHANGED vars
  PROVE  CapInv'
<1>1. ASSUME NEW t \in Tx, Quiet(t) PROVE CapInv'
  <2>1. /\ UNCHANGED <<history, aged, result, paid, seatLock>>
        /\ \A s \in Tx : stage'[s] = "Record" /\ result[s].ranked => stage[s] = "Record"
        /\ \A s \in Tx : Counting(s)' => Counting(s)
    BY <1>1 DEF Quiet, GetOrCreateGame, SeedRankingRows, FetchRanking, To, Shape, Counting, stored, writes, locks
  <2>2. SeatsHeld'
    BY <2>1 DEF CapInv, SeatsHeld, Seats
  <2>3. Recent' = Recent
    BY <2>1 DEF Recent
  <2> QED BY <2>1, <2>2, <2>3, NobodyPaid
<1>2. ASSUME NEW t \in Tx, LockPairing(t) PROVE CapInv'
  <2>1. /\ UNCHANGED <<history, aged, result, paid>>
        /\ \A s \in Tx : stage'[s] = "Record" => stage[s] = "Record"
    BY <1>2 DEF LockPairing, To, Shape, stored, writes
  <2>2. SeatsHeld' /\ Recent' = Recent
    BY <1>2, <2>1, PairingLocked DEF Recent
  <2> QED BY <2>1, <2>2, NobodyPaid
<1>3. ASSUME NEW t \in Tx, NoRankingRow(t) \/ RollBack(t) PROVE CapInv'
  <2>1. /\ UNCHANGED <<history, aged, result, paid>>
        /\ \A s \in Tx : stage'[s] = "Record" => stage[s] = "Record"
    BY <1>3 DEF NoRankingRow, RollBack, To, Shape, stored, writes
  <2>2. SeatsHeld' /\ Recent' = Recent
    BY <1>3, <2>1, Released DEF NoRankingRow, RollBack, Recent
  <2> QED BY <2>1, <2>2, NobodyPaid
<1>4. ASSUME NEW t \in Tx, NEW r \in Results, Begin(t, r) PROVE CapInv'
  <2>1. /\ UNCHANGED <<history, aged, paid, seatLock>>
        /\ stage[t] = "Idle" /\ stage'[t] = "Game"
        /\ \A s \in Tx : s # t => stage'[s] = stage[s] /\ result'[s] = result[s]
    BY <1>4 DEF Begin, To, Shape, stored, writes, locks
  <2>2. SeatsHeld'
    BY <2>1 DEF CapInv, SeatsHeld, Seats, Counting
  <2>3. Recent' = Recent /\ \A s \in Recent : s \in Tx /\ s # t
    BY <2>1, RecentDone DEF Recent
  <2>4. /\ \A s \in Recent : result'[s] = result[s] /\ paid'[s] = paid[s]
        /\ \A s \in Tx : stage'[s] = "Record" /\ result'[s].ranked /\ paid'[s] =>
             stage[s] = "Record" /\ result'[s] = result[s] /\ paid[s]
    BY <2>1, <2>3
  <2> QED BY <2>2, <2>3, <2>4, NobodyPaid
<1>5. ASSUME (\E u \in User : Erasure(u)) \/ UNCHANGED vars PROVE CapInv'
  <2>1. UNCHANGED <<history, aged, stage, result, paid, seatLock>>
    BY <1>5 DEF Erasure, DeleteAccount, Erase, DeleteRanking, Anonymise, stored, writes, locks, vars
  <2>2. SeatsHeld' /\ Recent' = Recent
    BY <2>1 DEF CapInv, SeatsHeld, Seats, Counting, Recent
  <2> QED BY <2>1, <2>2, NobodyPaid
<1>6. CASE Age
  <2>1. UNCHANGED <<history, stage, result, paid, seatLock>> /\ aged' = aged + 1
    BY <1>6 DEF Age, writes, locks
  <2>2. SeatsHeld' /\ Recent' \subseteq Recent
    BY <2>1 DEF CapInv, SeatsHeld, Seats, Counting, Recent, Shape
  <2> QED BY <2>1, <2>2, NobodyPaid
<1> QED BY <1>1, <1>2, <1>3, <1>4, <1>5, <1>6

\* Whoever is about to be paid has the seats locked and was counted with room to spare.
THEOREM PairsCounted == Spec => []CapInv
<1>1. Init => CapInv
  <2> SUFFICES ASSUME Init PROVE CapInv
    OBVIOUS
  <2>1. \A u, v : PaidTogether(u, v) = {}
    BY DEF Init, PaidTogether, Together, Recent
  <2>2. CapHolds
    <3>1. Cardinality({}) = 0 /\ PairCap \in Nat
      BY FS_EmptySet, RatingsAssumption
    <3>2. \A u, v : Cardinality(PaidTogether(u, v)) <= PairCap
      BY <2>1, <3>1
    <3> QED BY <3>2 DEF CapHolds
  <2>3. SeatsHeld /\ RoomLeft
    BY DEF Init, SeatsHeld, RoomLeft, Counting
  <2> QED BY <2>2, <2>3 DEF CapInv
<1>2. Shape /\ CapInv /\ [Next]_vars => CapInv'
  BY Counted, Committed, OthersKeepCap DEF Next, Finalize, Quiet, Erasure
<1> QED BY <1>1, <1>2, ShapeCorrect, PTL DEF Spec

\* In any 24 hours at most PairCap matches of the same two players move ratings.
THEOREM CapKept == Spec => []CapHolds
<1>1. CapInv => CapHolds
  BY DEF CapInv
<1> QED BY <1>1, PairsCounted, PTL

-----------------------------------------------------------------------------
(* Who holds what *)

LockShape ==
  /\ gameRow \in [Game -> Tx \cup {None}]
  /\ rowLock \in [User \X Game -> Tx \cup User \cup {None}]
  /\ seeded \in [Tx -> SUBSET User]
  /\ doomed \in [User -> SUBSET Game]

LEMMA ResultShape ==
  ASSUME Shape, NEW t \in Tx, stage[t] # "Idle"
  PROVE  GameOf(t) \in Game /\ Seats(t) # {}
<1>1. result[t] \in Results
  BY DEF Shape
<1>2. /\ result[t].game \in Game
      /\ result[t].seats \in Seq(User) /\ result[t].seats # <<>>
  BY <1>1, RatingsAssumption
<1>3. 1 \in DOMAIN result[t].seats
  BY <1>2
<1> QED BY <1>2, <1>3 DEF GameOf, Seats, ToSet

THEOREM LockShapeCorrect == Spec => []LockShape
<1>1. Init => LockShape
  BY DEF Init, LockShape
<1>2. Shape /\ LockShape /\ [Next]_vars => LockShape'
  <2> SUFFICES ASSUME Shape, LockShape, [Next]_vars PROVE LockShape'
    OBVIOUS
  <2> USE DEF LockShape
  <2>1. ASSUME NEW t \in Tx, GetOrCreateGame(t) PROVE LockShape'
    BY <2>1 DEF GetOrCreateGame, writes, erasures
  <2>2. ASSUME NEW t \in Tx, LockPairing(t) \/ UpdateRankings(t) PROVE LockShape'
    BY <2>2 DEF LockPairing, UpdateRankings, writes, locks, erasures
  <2>3. ASSUME NEW t \in Tx, SeedRankingRows(t) PROVE LockShape'
    <3>1. Unranked(t) \in SUBSET User
      BY <2>3, SeatsAreUsers DEF SeedRankingRows, Unranked
    <3> QED BY <2>3, <3>1 DEF SeedRankingRows, locks, erasures
  <2>4. ASSUME NEW t \in Tx, FetchRanking(t) PROVE LockShape'
    <3>1. \A n : [rowLock EXCEPT ![n] = t] \in [User \X Game -> Tx \cup User \cup {None}]
      OBVIOUS
    <3> QED BY <2>4, <3>1 DEF FetchRanking, writes, erasures
  <2>5. ASSUME NEW t \in Tx, NoRankingRow(t) \/ RollBack(t) \/ Commit(t) PROVE LockShape'
    BY <2>5 DEF NoRankingRow, RollBack, Commit, Release, writes, erasures
  <2>6. ASSUME NEW t \in Tx, NEW r \in Results, Begin(t, r) PROVE LockShape'
    BY <2>6 DEF Begin, writes, locks, erasures
  <2>7. ASSUME NEW u \in User, DeleteAccount(u) PROVE LockShape'
    BY <2>7 DEF DeleteAccount, writes, locks
  <2>8. ASSUME NEW u \in User, NEW g \in Game, DeleteRanking(u, g) PROVE LockShape'
    BY <2>8 DEF DeleteRanking, writes, erasures
  <2>9. ASSUME NEW u \in User, Anonymise(u) PROVE LockShape'
    BY <2>9 DEF Anonymise, writes
  <2>10. CASE Age \/ UNCHANGED vars
    BY <2>10 DEF Age, vars, writes, locks, erasures
  <2> QED
    BY <2>1, <2>2, <2>3, <2>4, <2>5, <2>6, <2>7, <2>8, <2>9, <2>10 DEF Next, Finalize, Erase
<1> QED BY <1>1, <1>2, ShapeCorrect, PTL DEF Spec

\* The seat that is locked next comes before the others still to be locked.
LEMMA NextSeatIsNext ==
  ASSUME Shape, SeatsInOrder, NEW t \in Tx, stage[t] = "Seats"
  PROVE  /\ NextSeat(t) \in Unlocked(t) /\ Unlocked(t) \subseteq User
         /\ \A v \in Unlocked(t) : NextSeat(t) <= v
         /\ IsFiniteSet(Unlocked(t))
<1>1. Seats(t) \subseteq User /\ IsFiniteSet(Seats(t)) /\ Unlocked(t) # {}
  BY SeatsAreUsers DEF SeatsInOrder
<1>2. Unlocked(t) \in SUBSET Seats(t)
  BY DEF Unlocked
<1>3. IsFiniteSet(Unlocked(t)) /\ Unlocked(t) \subseteq Int
  BY <1>1, <1>2, FS_Subset, RatingsAssumption
<1>4. NextSeat(t) \in Unlocked(t) /\ \A v \in Unlocked(t) : NextSeat(t) <= v
  BY <1>1, <1>3, LeastIsLeast DEF NextSeat
<1> QED BY <1>1, <1>2, <1>3, <1>4

LEMMA OrderKept ==
  ASSUME Shape, LockShape, HoldersKnown, SeatsInOrder, NEW t \in Tx, LockPairing(t)
  PROVE  HoldersKnown' /\ SeatsInOrder'
<1> DEFINE n == NextSeat(t)
<1>1. /\ n \in Unlocked(t) /\ Unlocked(t) \subseteq User /\ IsFiniteSet(Unlocked(t))
      /\ \A v \in Unlocked(t) : n <= v
      /\ seatLock[n] = None
  <2>1. stage[t] = "Seats" /\ seatLock[n] \in {None, t}
    BY DEF LockPairing, WaitsFor, Blocking
  <2> QED BY <2>1, NextSeatIsNext DEF Unlocked
<1>2. /\ stage[t] = "Seats"
      /\ stage'[t] = IF Cardinality(Unlocked(t)) = 1 THEN "Seed" ELSE "Seats"
      /\ \A s \in Tx : s # t => stage'[s] = stage[s]
      /\ \A u \in User : seatLock'[u] = IF u = n THEN t ELSE seatLock[u]
      /\ UNCHANGED <<result, seeded, gameRow, rowLock>>
  BY DEF LockPairing, To, Shape, writes
<1>3. \A s : Seats(s)' = Seats(s) /\ GameOf(s)' = GameOf(s)
  BY <1>2 DEF Seats, GameOf
<1>4. n \in Seats(t) /\ n \in User
  BY <1>1 DEF Unlocked
<1> HIDE DEF n
<1>5. HoldersKnown'
  <2>1. \A g \in Game : gameRow[g] \in Tx \cup {None}
    BY DEF LockShape
  <2>2. \A g \in Game : gameRow'[g] # None => stage'[gameRow'[g]] \in Holding
    BY <1>2, <2>1 DEF HoldersKnown, Holding
  <2>3. \A u \in User : seatLock[u]' # None =>
          u \in Seats(seatLock[u])' /\ stage[seatLock[u]]' \in Holding
    <3> SUFFICES ASSUME NEW u \in User, seatLock[u]' # None
                 PROVE  u \in Seats(seatLock[u])' /\ stage[seatLock[u]]' \in Holding
      OBVIOUS
    <3>1. seatLock[u] \in Tx \cup {None}
      BY DEF Shape
    <3>2. CASE u = n
      BY <1>2, <1>3, <1>4, <3>2 DEF Holding
    <3>3. CASE u # n
      BY <1>2, <1>3, <3>1, <3>3 DEF HoldersKnown, Holding
    <3> QED BY <3>2, <3>3
  <2>4. \A u \in User, g \in Game :
          /\ rowLock'[<<u, g>>] \in User => rowLock'[<<u, g>>] = u
          /\ rowLock'[<<u, g>>] \in Tx =>
               /\ u \in Seats(rowLock[<<u, g>>])' /\ g = GameOf(rowLock[<<u, g>>])'
               /\ stage'[rowLock'[<<u, g>>]] \in {"Fetch", "Record"}
    BY <1>2, <1>3 DEF HoldersKnown
  <2>5. \A s \in Tx : seeded'[s] # {} =>
          stage'[s] \notin {"Idle", "Game", "Seats", "Seed"} /\ seeded'[s] \subseteq Seats(s)'
    BY <1>2, <1>3 DEF HoldersKnown
  <2> QED BY <2>2, <2>3, <2>4, <2>5 DEF HoldersKnown
<1>6. ASSUME NEW s \in Tx, stage'[s] = "Seats"
      PROVE  Unlocked(s)' # {} /\ \A u \in Seats(s)' \ Unlocked(s)', v \in Unlocked(s)' : u < v
  <2>1. stage[s] = "Seats" /\ Seats(s) \subseteq User
    BY <1>2, <1>6, SeatsAreUsers
  <2>2. Unlocked(s) # {} /\ \A u \in Seats(s) \ Unlocked(s), v \in Unlocked(s) : u < v
    BY <2>1 DEF SeatsInOrder
  <2>3. CASE s # t
    <3>1. Unlocked(s)' = Unlocked(s)
      BY <1>1, <1>2, <1>3, <2>1, <2>3, RatingsAssumption DEF Unlocked
    <3> QED BY <1>3, <2>2, <3>1
  <2>4. CASE s = t
    <3>1. Unlocked(t)' = Unlocked(t) \ {n}
      BY <1>2, <1>3, <2>1, <2>4 DEF Unlocked
    <3>2. Unlocked(t) # {n}
      BY <1>1, <1>2, <1>6, <2>4, FS_Singleton
    <3>3. Unlocked(t) \subseteq Int /\ n \in Int
      BY <1>1, <1>4, RatingsAssumption
    <3>4. \A v \in Unlocked(t)' : n < v
      BY <1>1, <3>1, <3>3
    <3> QED BY <1>1, <1>3, <2>2, <2>4, <3>1, <3>2, <3>4
  <2> QED BY <2>3, <2>4
<1> QED BY <1>5, <1>6 DEF SeatsInOrder

\* A step that locks nothing new for a transaction, and whose transactions go on holding
\* or hold nothing any more.
LEMMA HoldersStay ==
  ASSUME Shape, LockShape, HoldersKnown,
         \A s \in Tx : stage[s] # "Idle" => result'[s] = result[s],
         \A g \in Game : gameRow'[g] \in {None, gameRow[g]},
         \A u \in User : seatLock'[u] \in {None, seatLock[u]},
         \A u \in User, g \in Game : rowLock'[<<u, g>>] \in {None, u, rowLock[<<u, g>>]},
         \A s \in Tx :
           \/ /\ stage[s] \in Holding => stage'[s] \in Holding
              /\ stage[s] \in {"Fetch", "Record"} => stage'[s] \in {"Fetch", "Record"}
           \/ /\ \A g \in Game : gameRow'[g] # s
              /\ \A u \in User : seatLock'[u] # s
              /\ \A u \in User, g \in Game : rowLock'[<<u, g>>] # s,
         seeded' = seeded,
         \A s \in Tx : seeded[s] # {} => stage'[s] \notin {"Idle", "Game", "Seats", "Seed"}
  PROVE  HoldersKnown'
<1> USE RatingsAssumption
<1>1. \A s \in Tx : stage[s] # "Idle" => Seats(s)' = Seats(s) /\ GameOf(s)' = GameOf(s)
  BY DEF Seats, GameOf
<1>2. ASSUME NEW g \in Game, gameRow'[g] # None
      PROVE  stage'[gameRow'[g]] \in Holding
  <2>1. gameRow'[g] = gameRow[g] /\ gameRow[g] \in Tx /\ stage[gameRow[g]] \in Holding
    BY <1>2 DEF LockShape, HoldersKnown
  <2> QED BY <2>1
<1>3. ASSUME NEW u \in User, seatLock'[u] # None
      PROVE  u \in Seats(seatLock[u])' /\ stage'[seatLock'[u]] \in Holding
  <2>1. /\ seatLock'[u] = seatLock[u] /\ seatLock[u] \in Tx
        /\ stage[seatLock[u]] \in Holding /\ u \in Seats(seatLock[u])
    BY <1>3 DEF Shape, HoldersKnown
  <2>2. stage[seatLock[u]] # "Idle" /\ stage'[seatLock[u]] \in Holding
    BY <2>1 DEF Holding
  <2> QED BY <1>1, <2>1, <2>2
<1>4. ASSUME NEW u \in User, NEW g \in Game
      PROVE  /\ rowLock'[<<u, g>>] \in User => rowLock'[<<u, g>>] = u
             /\ rowLock'[<<u, g>>] \in Tx =>
                  /\ u \in Seats(rowLock[<<u, g>>])' /\ g = GameOf(rowLock[<<u, g>>])'
                  /\ stage'[rowLock'[<<u, g>>]] \in {"Fetch", "Record"}
  <2>1. /\ rowLock[<<u, g>>] \in User => rowLock[<<u, g>>] = u
        /\ rowLock[<<u, g>>] \in Tx =>
             /\ u \in Seats(rowLock[<<u, g>>]) /\ g = GameOf(rowLock[<<u, g>>])
             /\ stage[rowLock[<<u, g>>]] \in {"Fetch", "Record"}
    BY DEF HoldersKnown
  <2>2. rowLock'[<<u, g>>] \in {None, u, rowLock[<<u, g>>]}
    OBVIOUS
  <2>3. CASE rowLock'[<<u, g>>] \in Tx
    <3>1. rowLock'[<<u, g>>] = rowLock[<<u, g>>] /\ rowLock[<<u, g>>] \in Tx
      BY <2>2, <2>3
    <3>2. stage'[rowLock[<<u, g>>]] \in {"Fetch", "Record"} /\ stage[rowLock[<<u, g>>]] # "Idle"
      BY <2>1, <2>3, <3>1
    <3> QED BY <1>1, <2>1, <2>3, <3>1, <3>2
  <2>4. CASE rowLock'[<<u, g>>] \notin Tx
    BY <2>1, <2>2, <2>4
  <2> QED BY <2>3, <2>4
<1>5. ASSUME NEW s \in Tx, seeded'[s] # {}
      PROVE  stage'[s] \notin {"Idle", "Game", "Seats", "Seed"} /\ seeded'[s] \subseteq Seats(s)'
  <2>1. stage[s] # "Idle" /\ seeded[s] \subseteq Seats(s)
    BY <1>5 DEF HoldersKnown
  <2> QED BY <1>1, <1>5, <2>1
<1> QED BY <1>2, <1>3, <1>4, <1>5 DEF HoldersKnown

\* A step that changes nothing for those that are locking their seats.
LEMMA OrderStays ==
  ASSUME Shape, SeatsInOrder,
         \A s \in Tx : stage'[s] = "Seats" =>
           /\ stage[s] = "Seats" /\ result'[s] = result[s]
           /\ \A u \in User : (seatLock'[u] = s) <=> (seatLock[u] = s)
  PROVE  SeatsInOrder'
<1> SUFFICES ASSUME NEW s \in Tx, stage'[s] = "Seats"
             PROVE  Unlocked(s)' # {} /\ \A u \in Seats(s)' \ Unlocked(s)', v \in Unlocked(s)' : u < v
  BY DEF SeatsInOrder
<1>1. Seats(s)' = Seats(s) /\ Seats(s) \subseteq User
  BY SeatsAreUsers DEF Seats
<1>2. Unlocked(s)' = Unlocked(s)
  BY <1>1 DEF Unlocked
<1> QED BY <1>1, <1>2 DEF SeatsInOrder

LEMMA GameLocked ==
  ASSUME Shape, LockShape, HoldersKnown, SeatsInOrder, NEW t \in Tx, GetOrCreateGame(t)
  PROVE  HoldersKnown' /\ SeatsInOrder'
<1> USE RatingsAssumption
<1>1. /\ stage[t] = "Game" /\ stage'[t] \in {"Seats", "Record"}
      /\ \A s \in Tx : s # t => stage'[s] = stage[s]
      /\ \A g \in Game : gameRow'[g] = IF g = GameOf(t) THEN t ELSE gameRow[g]
      /\ UNCHANGED <<result, seeded, seatLock, rowLock>>
  BY DEF GetOrCreateGame, To, Shape, LockShape, writes
<1>2. \A s : Seats(s)' = Seats(s) /\ GameOf(s)' = GameOf(s)
  BY <1>1 DEF Seats, GameOf
<1>3. \A u \in User : seatLock[u] # t
  BY <1>1 DEF HoldersKnown, Holding
<1>4. HoldersKnown'
  <2>1. ASSUME NEW g \in Game, gameRow'[g] # None
        PROVE  stage'[gameRow'[g]] \in Holding
    <3>1. CASE g = GameOf(t)
      BY <1>1, <3>1 DEF Holding
    <3>2. CASE g # GameOf(t)
      BY <1>1, <2>1, <3>2 DEF LockShape, HoldersKnown, Holding
    <3> QED BY <3>1, <3>2
  <2>2. \A u \in User : seatLock[u]' # None =>
          u \in Seats(seatLock[u])' /\ stage[seatLock[u]]' \in Holding
    BY <1>1, <1>2, <1>3 DEF HoldersKnown, Shape
  <2>3. \A u \in User, g \in Game :
          /\ rowLock'[<<u, g>>] \in User => rowLock'[<<u, g>>] = u
          /\ rowLock'[<<u, g>>] \in Tx =>
               /\ u \in Seats(rowLock[<<u, g>>])' /\ g = GameOf(rowLock[<<u, g>>])'
               /\ stage'[rowLock'[<<u, g>>]] \in {"Fetch", "Record"}
    <3> SUFFICES ASSUME NEW u \in User, NEW g \in Game
                 PROVE  /\ rowLock[<<u, g>>] \in User => rowLock[<<u, g>>] = u
                        /\ rowLock[<<u, g>>] \in Tx =>
                             /\ u \in Seats(rowLock[<<u, g>>]) /\ g = GameOf(rowLock[<<u, g>>])
                             /\ stage'[rowLock[<<u, g>>]] \in {"Fetch", "Record"}
      BY <1>1, <1>2
    <3> DEFINE x == rowLock[<<u, g>>]
    <3>1. x \in User => x = u
      BY DEF HoldersKnown
    <3>2. x \in Tx => u \in Seats(x) /\ g = GameOf(x) /\ stage[x] \in {"Fetch", "Record"}
      BY DEF HoldersKnown
    <3>3. x \in Tx => stage'[x] = stage[x]
      BY <1>1, <3>2
    <3> QED BY <3>1, <3>2, <3>3
  <2>4. \A s \in Tx : seeded'[s] # {} =>
          stage'[s] \notin {"Idle", "Game", "Seats", "Seed"} /\ seeded'[s] \subseteq Seats(s)'
    BY <1>1, <1>2 DEF HoldersKnown
  <2> QED BY <2>1, <2>2, <2>3, <2>4 DEF HoldersKnown
<1>5. ASSUME NEW s \in Tx, stage'[s] = "Seats"
      PROVE  Unlocked(s)' # {} /\ \A u \in Seats(s)' \ Unlocked(s)', v \in Unlocked(s)' : u < v
  <2>1. Unlocked(s)' = Unlocked(s)
    BY <1>1, <1>2 DEF Unlocked
  <2>2. CASE s = t
    <3>1. Seats(t) \subseteq User /\ Seats(t) # {}
      BY <1>1, SeatsAreUsers, ResultShape
    <3>2. Unlocked(t) = Seats(t)
      BY <1>3, <3>1 DEF Unlocked
    <3> QED BY <1>2, <2>1, <2>2, <3>1, <3>2
  <2>3. CASE s # t
    BY <1>1, <1>2, <1>5, <2>1, <2>3 DEF SeatsInOrder
  <2> QED BY <2>2, <2>3
<1> QED BY <1>4, <1>5 DEF SeatsInOrder

LEMMA RowsSeeded ==
  ASSUME Shape, LockShape, HoldersKnown, SeatsInOrder, NEW t \in Tx, SeedRankingRows(t)
  PROVE  HoldersKnown' /\ SeatsInOrder'
<1>1. /\ stage[t] = "Seed" /\ stage'[t] = "Fetch"
      /\ \A s \in Tx : s # t => stage'[s] = stage[s]
      /\ \A s \in Tx : seeded'[s] = IF s = t THEN Unranked(t) ELSE seeded[s]
      /\ UNCHANGED <<result, gameRow, seatLock, rowLock>>
  BY DEF SeedRankingRows, To, Shape, LockShape, locks
<1>2. \A s : Seats(s)' = Seats(s) /\ GameOf(s)' = GameOf(s)
  BY <1>1 DEF Seats, GameOf
<1>3. Unranked(t) \subseteq Seats(t)
  BY DEF Unranked
<1>4. /\ \A s \in Tx : stage[s] \in Holding => stage'[s] \in Holding
      /\ \A s \in Tx : stage[s] \in {"Fetch", "Record"} => stage'[s] \in {"Fetch", "Record"}
  BY <1>1 DEF Holding
<1>5. \A g \in Game : gameRow'[g] # None => stage'[gameRow'[g]] \in Holding
  BY <1>1, <1>4 DEF HoldersKnown, LockShape
<1>6. \A u \in User : seatLock[u]' # None =>
        u \in Seats(seatLock[u])' /\ stage[seatLock[u]]' \in Holding
  BY <1>1, <1>2, <1>4 DEF HoldersKnown, Shape
<1>7. ASSUME NEW u \in User, NEW g \in Game
      PROVE  /\ rowLock'[<<u, g>>] \in User => rowLock'[<<u, g>>] = u
             /\ rowLock'[<<u, g>>] \in Tx =>
                  /\ u \in Seats(rowLock[<<u, g>>])' /\ g = GameOf(rowLock[<<u, g>>])'
                  /\ stage'[rowLock'[<<u, g>>]] \in {"Fetch", "Record"}
  <2>1. PICK x : rowLock[<<u, g>>] = x /\ rowLock'[<<u, g>>] = x
    BY <1>1
  <2>2. /\ x \in User => x = u
        /\ x \in Tx => u \in Seats(x) /\ g = GameOf(x) /\ stage[x] \in {"Fetch", "Record"}
    BY <2>1 DEF HoldersKnown
  <2> QED BY <1>1, <1>2, <1>4, <2>1, <2>2
<1>8. \A s \in Tx : seeded'[s] # {} =>
        stage'[s] \notin {"Idle", "Game", "Seats", "Seed"} /\ seeded'[s] \subseteq Seats(s)'
  BY <1>1, <1>2, <1>3 DEF HoldersKnown
<1>9. SeatsInOrder'
  BY <1>1, OrderStays
<1> QED BY <1>5, <1>6, <1>7, <1>8, <1>9 DEF HoldersKnown

\* The ranking that is fetched next is one of the transaction's own.
LEMMA NextRowIsNext ==
  ASSUME Shape, NEW t \in Tx, stage[t] = "Fetch", Unfetched(t) # {}
  PROVE  NextRow(t) \in Unfetched(t) /\ Unfetched(t) \subseteq Seats(t) \ seeded[t]
<1>1. Seats(t) \subseteq User /\ IsFiniteSet(Seats(t))
  BY SeatsAreUsers
<1>2. Unfetched(t) \in SUBSET Seats(t) /\ Unfetched(t) \subseteq Seats(t) \ seeded[t]
  BY DEF Unfetched
<1>3. IsFiniteSet(Unfetched(t)) /\ Unfetched(t) \subseteq Int
  BY <1>1, <1>2, FS_Subset, RatingsAssumption
<1> QED BY <1>2, <1>3, LeastIsLeast DEF NextRow

LEMMA RowFetched ==
  ASSUME Shape, LockShape, HoldersKnown, SeatsInOrder, NEW t \in Tx, FetchRanking(t)
  PROVE  HoldersKnown' /\ SeatsInOrder'
<1> USE RatingsAssumption
<1>1. /\ stage[t] = "Fetch"
      /\ Unfetched(t) # {}
      /\ rowLock' = [rowLock EXCEPT ![<<NextRow(t), GameOf(t)>>] = t]
      /\ UNCHANGED <<stage, result, seeded, gameRow, seatLock>>
  BY DEF FetchRanking, writes
<1>2. \A s : Seats(s)' = Seats(s) /\ GameOf(s)' = GameOf(s)
  BY <1>1 DEF Seats, GameOf
<1>3. NextRow(t) \in Seats(t) /\ NextRow(t) \in User /\ GameOf(t) \in Game
  BY <1>1, NextRowIsNext, SeatsAreUsers, ResultShape
<1>4. \A u \in User, g \in Game :
        rowLock'[<<u, g>>] = IF u = NextRow(t) /\ g = GameOf(t) THEN t ELSE rowLock[<<u, g>>]
  BY <1>1, <1>3 DEF LockShape
<1>5. \A g \in Game : gameRow'[g] # None => stage'[gameRow'[g]] \in Holding
  BY <1>1 DEF HoldersKnown
<1>6. \A u \in User : seatLock[u]' # None =>
        u \in Seats(seatLock[u])' /\ stage[seatLock[u]]' \in Holding
  BY <1>1, <1>2 DEF HoldersKnown
<1>7. ASSUME NEW u \in User, NEW g \in Game
      PROVE  /\ rowLock'[<<u, g>>] \in User => rowLock'[<<u, g>>] = u
             /\ rowLock'[<<u, g>>] \in Tx =>
                  /\ u \in Seats(rowLock[<<u, g>>])' /\ g = GameOf(rowLock[<<u, g>>])'
                  /\ stage'[rowLock'[<<u, g>>]] \in {"Fetch", "Record"}
  <2>1. CASE u = NextRow(t) /\ g = GameOf(t)
    BY <1>1, <1>2, <1>3, <1>4, <2>1
  <2>2. CASE ~(u = NextRow(t) /\ g = GameOf(t))
    <3>1. rowLock'[<<u, g>>] = rowLock[<<u, g>>]
      BY <1>4, <2>2
    <3>2. /\ rowLock[<<u, g>>] \in User => rowLock[<<u, g>>] = u
          /\ rowLock[<<u, g>>] \in Tx =>
               /\ u \in Seats(rowLock[<<u, g>>]) /\ g = GameOf(rowLock[<<u, g>>])
               /\ stage[rowLock[<<u, g>>]] \in {"Fetch", "Record"}
      BY DEF HoldersKnown
    <3> QED BY <1>1, <1>2, <3>1, <3>2
  <2> QED BY <2>1, <2>2
<1>8. \A s \in Tx : seeded'[s] # {} =>
        stage'[s] \notin {"Idle", "Game", "Seats", "Seed"} /\ seeded'[s] \subseteq Seats(s)'
  BY <1>1, <1>2 DEF HoldersKnown
<1>9. SeatsInOrder'
  BY <1>1, OrderStays
<1> QED BY <1>5, <1>6, <1>7, <1>8, <1>9 DEF HoldersKnown

LEMMA OthersKeepLocks ==
  ASSUME Shape, LockShape, HoldersKnown, SeatsInOrder,
         \/ \E t \in Tx : NoRankingRow(t) \/ RollBack(t) \/ Commit(t) \/ UpdateRankings(t)
         \/ \E t \in Tx, r \in Results : Begin(t, r)
         \/ \E u \in User : DeleteAccount(u) \/ Erase(u)
         \/ Age
         \/ UNCHANGED vars
  PROVE  HoldersKnown' /\ SeatsInOrder'
<1> USE RatingsAssumption
<1>0. \A s \in Tx : seeded[s] # {} => stage[s] \notin {"Idle", "Game", "Seats", "Seed"}
  BY DEF HoldersKnown
<1>1. ASSUME NEW t \in Tx, NoRankingRow(t) \/ RollBack(t) \/ Commit(t)
      PROVE  HoldersKnown' /\ SeatsInOrder'
  <2>1. /\ stage'[t] \in {"Done", "Aborted"}
        /\ \A s \in Tx : s # t => stage'[s] = stage[s]
        /\ Release(t)
        /\ UNCHANGED <<result, seeded>>
    BY <1>1 DEF NoRankingRow, RollBack, Commit, To, Shape, writes
  <2>2. /\ \A g \in Game : gameRow'[g] # t /\ gameRow'[g] \in {None, gameRow[g]}
        /\ \A u \in User : seatLock'[u] = IF seatLock[u] = t THEN None ELSE seatLock[u]
        /\ \A u \in User, g \in Game :
             rowLock'[<<u, g>>] # t /\ rowLock'[<<u, g>>] \in {None, rowLock[<<u, g>>]}
    BY <2>1 DEF Release
  <2>3. HoldersKnown'
    BY <1>0, <2>1, <2>2, HoldersStay
  <2>4. SeatsInOrder'
    BY <2>1, <2>2, OrderStays
  <2> QED BY <2>3, <2>4
<1>2. ASSUME NEW t \in Tx, UpdateRankings(t)
      PROVE  HoldersKnown' /\ SeatsInOrder'
  <2>1. /\ stage[t] = "Fetch" /\ stage'[t] = "Record"
        /\ \A s \in Tx : s # t => stage'[s] = stage[s]
        /\ UNCHANGED <<result, seeded, gameRow, seatLock, rowLock>>
    BY <1>2 DEF UpdateRankings, To, Shape, locks
  <2>2. HoldersKnown'
    BY <1>0, <2>1, HoldersStay DEF Holding
  <2>3. SeatsInOrder'
    BY <2>1, OrderStays
  <2> QED BY <2>2, <2>3
<1>3. ASSUME NEW t \in Tx, NEW r \in Results, Begin(t, r)
      PROVE  HoldersKnown' /\ SeatsInOrder'
  <2>1. /\ stage[t] = "Idle" /\ stage'[t] = "Game"
        /\ \A s \in Tx : s # t => stage'[s] = stage[s] /\ result'[s] = result[s]
        /\ UNCHANGED <<seeded, gameRow, seatLock, rowLock>>
    BY <1>3 DEF Begin, To, Shape, writes, locks
  <2>2. HoldersKnown'
    BY <1>0, <2>1, HoldersStay DEF Holding
  <2>3. SeatsInOrder'
    BY <2>1, OrderStays
  <2> QED BY <2>2, <2>3
<1>4. ASSUME NEW u \in User, NEW g \in Game, DeleteRanking(u, g)
      PROVE  HoldersKnown' /\ SeatsInOrder'
  <2>1. /\ \A v \in User, h \in Game : rowLock'[<<v, h>>] \in {v, rowLock[<<v, h>>]}
        /\ UNCHANGED <<stage, result, seeded, gameRow, seatLock>>
    BY <1>4 DEF DeleteRanking, LockShape, writes
  <2>2. HoldersKnown'
    BY <1>0, <2>1, HoldersStay
  <2>3. SeatsInOrder'
    BY <2>1, OrderStays
  <2> QED BY <2>2, <2>3
<1>5. ASSUME (\E u \in User : DeleteAccount(u) \/ Anonymise(u)) \/ Age \/ UNCHANGED vars
      PROVE  HoldersKnown' /\ SeatsInOrder'
  <2>1. /\ \A v \in User, h \in Game : rowLock'[<<v, h>>] \in {None, rowLock[<<v, h>>]}
        /\ UNCHANGED <<stage, result, seeded, gameRow, seatLock>>
    BY <1>5 DEF DeleteAccount, Anonymise, Age, vars, writes, locks
  <2>2. HoldersKnown'
    BY <1>0, <2>1, HoldersStay
  <2>3. SeatsInOrder'
    BY <2>1, OrderStays
  <2> QED BY <2>2, <2>3
<1> QED BY <1>1, <1>2, <1>3, <1>4, <1>5 DEF Erase

\* Locks have known holders, and seats are locked in order.
THEOREM LocksCorrect == Spec => []LockInv
<1>1. Init => HoldersKnown /\ SeatsInOrder
  BY RatingsAssumption DEF Init, HoldersKnown, SeatsInOrder
<1>2. Shape /\ LockShape /\ HoldersKnown /\ SeatsInOrder /\ [Next]_vars => HoldersKnown' /\ SeatsInOrder'
  BY GameLocked, OrderKept, RowsSeeded, RowFetched, OthersKeepLocks DEF Next, Finalize
<1>3. CapInv /\ HoldersKnown /\ SeatsInOrder => LockInv
  BY DEF CapInv, LockInv
<1> QED BY <1>1, <1>2, <1>3, ShapeCorrect, LockShapeCorrect, PairsCounted, PTL DEF Spec

-----------------------------------------------------------------------------
(* Nothing waits in a circle *)

\* The argument goes from the last statement to the first: nobody who records waits, so
\* nobody who fetches waits for one of the circle, so no erasure is part of it, so nobody
\* seeds; those who lock seats wait for ever later seats; and the game's row is held by
\* one of these.
LEMMA CircleIsEmpty ==
  ASSUME Shape, LockShape, LockInv,
         NEW S \in SUBSET (Running \cup Erasing), \A x \in S : WaitsFor(x) \cap S # {}
  PROVE  S = {}
<1> USE RatingsAssumption
<1>1. \A x \in S : \E y \in S : y \in WaitsFor(x) /\ y # x /\ y # None
  BY DEF WaitsFor
<1>2. \A t \in S \cap Tx : stage[t] # "Record"
  BY DEF WaitsFor, Blocking
<1>3. \A u \in User, g \in Game :
        /\ rowLock[<<u, g>>] \in User => rowLock[<<u, g>>] = u
        /\ rowLock[<<u, g>>] \in Tx =>
             /\ u \in Seats(rowLock[<<u, g>>]) /\ g = GameOf(rowLock[<<u, g>>])
             /\ stage[rowLock[<<u, g>>]] \in {"Fetch", "Record"}
        /\ rowLock[<<u, g>>] \in Tx \cup User \cup {None}
  BY DEF LockInv, HoldersKnown, LockShape
<1>4. ASSUME NEW u \in S \cap User
      PROVE  \E t \in S \cap Tx : stage[t] = "Fetch" /\ u \in Seats(t) /\ t \in WaitsFor(u)
  <2>1. PICK y \in S : y \in BlockingErasure(u) /\ y # u /\ y # None
    BY <1>1, <1>4 DEF WaitsFor
  <2>2. CASE \E g \in doomed[u] : y = rowLock[<<u, g>>]
    <3>1. PICK g \in Game : y = rowLock[<<u, g>>]
      BY <2>2 DEF LockShape
    <3>2. y \in Tx
      BY <1>3, <2>1, <3>1
    <3> QED BY <1>2, <1>3, <2>1, <3>1, <3>2 DEF WaitsFor
  <2>3. CASE y \in Running /\ u \in seeded[y]
    <3>1. y \in Tx /\ stage[y] \notin {"Idle", "Game", "Seats", "Seed", "Done", "Aborted"} /\ u \in Seats(y)
      BY <2>3 DEF Running, LockInv, HoldersKnown
    <3>2. stage[y] = "Fetch"
      BY <1>2, <2>1, <3>1 DEF Shape, Stages
    <3> QED BY <2>1, <3>1, <3>2 DEF WaitsFor
  <2> QED BY <2>1, <2>2, <2>3 DEF BlockingErasure
<1>5. ASSUME NEW t \in S \cap Tx, stage[t] = "Fetch"
      PROVE  FALSE
  <2> DEFINE n == NextRow(t)
             g == GameOf(t)
  <2>1. Unfetched(t) # {} /\ rowLock[<<n, g>>] \in S /\ rowLock[<<n, g>>] # t
    BY <1>1, <1>5 DEF WaitsFor, Blocking
  <2>2. n \in Seats(t) /\ n \notin seeded[t] /\ n \in User /\ g \in Game
    BY <1>5, <2>1, NextRowIsNext, SeatsAreUsers, ResultShape
  <2>3. \A s \in Tx : stage[s] = "Fetch" /\ n \in Seats(s) => s = t
    BY <1>5, <2>2 DEF LockInv, SeatsHeld, Counting
  <2> HIDE DEF n, g
  <2>4. CASE rowLock[<<n, g>>] \in Tx
    BY <1>2, <1>3, <2>1, <2>2, <2>3, <2>4
  <2>5. CASE rowLock[<<n, g>>] \in User
    <3>1. rowLock[<<n, g>>] = n /\ n \in S \cap User
      BY <1>3, <2>1, <2>2, <2>5
    <3>2. t \in BlockingErasure(n)
      BY <1>4, <2>3, <3>1 DEF WaitsFor
    <3>3. ~ \E h \in doomed[n] : t = rowLock[<<n, h>>]
      <4> SUFFICES ASSUME NEW h \in Game, t = rowLock[<<n, h>>] PROVE FALSE
        BY <2>2 DEF LockShape
      <4>1. h = g
        BY <1>3, <2>2 DEF g
      <4> QED BY <3>1, <4>1
    <3> QED BY <2>2, <3>2, <3>3 DEF BlockingErasure
  <2> QED BY <1>3, <2>1, <2>2, <2>4, <2>5 DEF Running, Erasing
<1>6. S \subseteq Tx
  BY <1>4, <1>5 DEF Running, Erasing
<1>7. ASSUME NEW t \in S, stage[t] = "Seed"
      PROVE  FALSE
  <2>1. PICK y \in S : y \in {rowLock[<<u, GameOf(t)>>] : u \in Seats(t)}
    BY <1>1, <1>6, <1>7 DEF WaitsFor, Blocking
  <2>2. PICK u \in User : y = rowLock[<<u, GameOf(t)>>]
    BY <1>6, <1>7, <2>1, SeatsAreUsers
  <2>3. GameOf(t) \in Game /\ y \in Tx
    BY <1>6, <1>7, ResultShape
  <2> QED BY <1>2, <1>3, <1>5, <2>2, <2>3
<1>8. ASSUME NEW t \in S, stage[t] = "Seats"
      PROVE  \E y \in S : stage[y] = "Seats" /\ NextSeat(t) < NextSeat(y)
  <2>1. PICK y \in S : y = seatLock[NextSeat(t)] /\ y # None
    <3>1. Blocking(t) = {seatLock[NextSeat(t)]} /\ t \in Tx
      BY <1>6, <1>8 DEF Blocking
    <3> QED BY <1>1, <3>1 DEF WaitsFor
  <2>2. NextSeat(t) \in User
    BY <1>6, <1>8, NextSeatIsNext DEF LockInv
  <2>3. NextSeat(t) \in Seats(y) /\ stage[y] \in Holding
    BY <2>1, <2>2 DEF LockInv, HoldersKnown
  <2>4. stage[y] = "Seats"
    BY <1>2, <1>5, <1>6, <1>7, <2>3 DEF Holding
  <2>5. NextSeat(t) \in Seats(y) \ Unlocked(y)
    BY <2>1, <2>3 DEF Unlocked
  <2>6. NextSeat(y) \in Unlocked(y)
    BY <1>6, <2>4, NextSeatIsNext DEF LockInv
  <2> QED BY <1>6, <2>4, <2>5, <2>6 DEF LockInv, SeatsInOrder
<1>9. \A t \in S : stage[t] # "Seats"
  <2> DEFINE N == {NextSeat(t) : t \in {s \in S : stage[s] = "Seats"}}
  <2>1. N \in SUBSET User
    BY <1>6, NextSeatIsNext DEF LockInv
  <2>2. \A x \in N : \E y \in N : x < y
    BY <1>8
  <2>3. N = {}
    <3> HIDE DEF N
    <3>1. IsFiniteSet(N) /\ N \subseteq Int
      BY <2>1, FS_Subset
    <3> QED BY <2>2, <3>1, FiniteHasGreatest
  <2> QED BY <2>3
<1>10. ASSUME NEW t \in S, stage[t] = "Game"
       PROVE  FALSE
  <2>1. gameRow[GameOf(t)] \in S /\ gameRow[GameOf(t)] # None
    <3>1. Blocking(t) = {gameRow[GameOf(t)]} /\ t \in Tx
      BY <1>6, <1>10 DEF Blocking
    <3> QED BY <1>1, <3>1 DEF WaitsFor
  <2>2. stage[gameRow[GameOf(t)]] \in Holding
    BY <1>6, <1>10, <2>1, ResultShape DEF LockInv, HoldersKnown
  <2> QED BY <1>2, <1>5, <1>6, <1>7, <1>9, <2>1, <2>2 DEF Holding
<1> QED BY <1>2, <1>5, <1>6, <1>7, <1>9, <1>10 DEF Running, Erasing, Shape, Stages

\* No finalizes and erasures, however many, wait for each other in a circle: Postgres never
\* has to abort one of them.
THEOREM NothingDeadlocks == Spec => []NoCircularWait
<1>1. Shape /\ LockShape /\ LockInv => NoCircularWait
  BY CircleIsEmpty DEF NoCircularWait
<1> QED BY <1>1, ShapeCorrect, LockShapeCorrect, LocksCorrect, PTL
-----------------------------------------------------------------------------
(* What a match changes *)

\* The rankings of a table, as t reads them, are there and within their bounds.
Rated(t) == \A u \in Seats(t) : Fetched(t, u) \in Row

\* table is what Calculate is given of t's match, with id the users in that order.
Scored(t, n, table, id) ==
  /\ OnScale(table, n)
  /\ \A k, l \in 1..n : id[k] = id[l] => k = l
  /\ \A u \in Seats(t) : \E k \in 1..n : id[k] = u
  /\ \A k \in 1..n :
       /\ id[k] \in Seats(t)
       /\ table[k].rating = Fetched(t, id[k]).elo * Unit
       /\ table[k].provisional <=> Fetched(t, id[k]).played < Provisional
       /\ Changes(t)[id[k]] = Points(Calculate(table)[k]) - Fetched(t, id[k]).elo
  /\ \A u \in User : u \notin Seats(t) => Changes(t)[u] = 0

LEMMA RatingOnScale ==
  ASSUME NEW r \in Row
  PROVE  r.elo \in Int /\ r.played \in Nat /\ r.elo * Unit \in Scale
<1>1. r.elo \in MinRating..MaxRating /\ r.played \in Nat
  BY DEF Row
<1>2. MinRating \in Int /\ MaxRating \in Int /\ Unit \in Nat
  BY EloAssumption
<1>3. MinRating * Unit <= r.elo * Unit /\ r.elo * Unit <= MaxRating * Unit
  BY <1>1, <1>2, TimesKeepsOrder
<1>4. r.elo * Unit \in Int
  BY <1>1, <1>2
<1> QED BY <1>1, <1>2, <1>3, <1>4, ScaleIsInt DEF Scale, Lowest, Highest

LEMMA MatchIsScored ==
  ASSUME Shape, NEW t \in Tx, stage[t] # "Idle", Rated(t)
  PROVE  \E table : \E id \in [1..Len(result[t].seats) -> User] :
           Scored(t, Len(result[t].seats), table, id)
<1>1. result[t] \in Results /\ Seats(t) \subseteq User
  BY SeatsAreUsers DEF Shape
<1>2. PICK seats : seats = result[t].seats
  OBVIOUS
<1>3. PICK n \in Nat : n = Len(seats)
  <2>1. seats \in Seq(User)
    BY <1>1, <1>2, RatingsAssumption
  <2> QED BY <2>1
<1>4. seats \in [1..n -> User] /\ \A i, j \in 1..n : seats[i] = seats[j] => i = j
  <2>1. seats \in Seq(User) /\ IsInjective(seats)
    BY <1>1, <1>2, RatingsAssumption
  <2> QED BY <1>3, <2>1 DEF IsInjective
<1>5. Seats(t) = {seats[i] : i \in 1..n}
  BY <1>2, <1>4 DEF Seats, ToSet
<1>6. PICK players : players = Players(t)
  OBVIOUS
<1>7. /\ DOMAIN players = 1..n
      /\ \A i \in 1..n :
           /\ players[i].id = seats[i]
           /\ players[i].rating = Fetched(t, seats[i]).elo * Unit
           /\ players[i].provisional = (Fetched(t, seats[i]).played < Provisional)
  BY <1>2, <1>4, <1>6 DEF Players
<1>8. \A i \in 1..n : players[i].rating \in Scale /\ players[i].rating \in Int /\ players[i].id \in Int
  <2> SUFFICES ASSUME NEW i \in 1..n
               PROVE  players[i].rating \in Scale /\ players[i].rating \in Int /\ players[i].id \in Int
    OBVIOUS
  <2>1. seats[i] \in Seats(t) /\ seats[i] \in Int
    BY <1>4, <1>5, RatingsAssumption
  <2>2. Fetched(t, seats[i]) \in Row
    BY <2>1 DEF Rated
  <2>3. players[i].rating \in Scale
    BY <1>7, <2>2, RatingOnScale
  <2> QED BY <1>7, <2>1, <2>3, ScaleIsInt DEF Scale
<1>9. PICK table : table = Ordered(players)
  OBVIOUS
<1>10. /\ DOMAIN table = 1..n /\ Len(table) = n
       /\ \E seat : Permutes(seat, n, players, table)
  <2>1. \A i, j \in 1..n : players[i].id = players[j].id => i = j
    BY <1>4, <1>7
  <2> QED BY <1>7, <1>8, <1>9, <2>1, OrderedKeepsPlayers
<1>11. PICK seat : Permutes(seat, n, players, table)
  BY <1>10
<1>12. OnScale(table, n)
  <2>1. \A k \in 1..n : table[k].rating \in Scale
    BY <1>8, <1>11 DEF Permutes
  <2> QED BY <1>10, <2>1 DEF OnScale
<1>13. PICK id : id = [k \in 1..n |-> seats[seat[k]]]
  OBVIOUS
<1>14. id \in [1..n -> User] /\ \A k \in 1..n : id[k] = seats[seat[k]] /\ id[k] \in Seats(t)
  <2>1. \A k \in 1..n : seat[k] \in 1..n /\ seats[seat[k]] \in User /\ seats[seat[k]] \in Seats(t)
    BY <1>4, <1>5, <1>11 DEF Permutes
  <2> QED BY <1>13, <2>1
<1>15. ASSUME NEW k \in 1..n, NEW l \in 1..n, id[k] = id[l] PROVE k = l
  <2>1. seat[k] \in 1..n /\ seat[l] \in 1..n /\ seats[seat[k]] = seats[seat[l]]
    BY <1>11, <1>14, <1>15 DEF Permutes
  <2>2. seat[k] = seat[l]
    BY <1>4, <2>1
  <2> QED BY <1>11, <2>2 DEF Permutes
<1>16. ASSUME NEW u \in Seats(t) PROVE \E k \in 1..n : id[k] = u
  <2>1. PICK i \in 1..n : seats[i] = u
    BY <1>5
  <2>2. PICK k \in 1..n : seat[k] = i
    BY <1>11 DEF Permutes
  <2> QED BY <1>14, <2>1, <2>2
<1>17. ASSUME NEW k \in 1..n
       PROVE  /\ table[k].id = id[k]
              /\ table[k].rating = Fetched(t, id[k]).elo * Unit
              /\ table[k].provisional = (Fetched(t, id[k]).played < Provisional)
  <2>1. PICK i \in 1..n : i = seat[k] /\ table[k] = players[i] /\ id[k] = seats[i]
    BY <1>11, <1>14 DEF Permutes
  <2> QED BY <1>7, <2>1
<1>18. ASSUME NEW k \in 1..n
       PROVE  Changes(t)[id[k]] = Points(Calculate(table)[k]) - Fetched(t, id[k]).elo
  <2>1. (CHOOSE i \in DOMAIN table : table[i].id = id[k]) = k
    <3>1. k \in DOMAIN table /\ table[k].id = id[k] /\ \A i \in DOMAIN table : table[i].id = id[k] => i = k
      BY <1>10, <1>15, <1>17
    <3> QED BY <3>1
  <2>2. id[k] \in User /\ id[k] \in Seats(t)
    BY <1>14
  <2>3. Changes(t)[id[k]] =
          Points(Calculate(table)[CHOOSE i \in DOMAIN table : table[i].id = id[k]]) - Fetched(t, id[k]).elo
    BY <1>6, <1>9, <2>2 DEF Changes
  <2> QED BY <2>1, <2>3
<1>19. \A u \in User : u \notin Seats(t) => Changes(t)[u] = 0
  BY DEF Changes
<1>20. Scored(t, n, table, id)
  BY <1>12, <1>14, <1>15, <1>16, <1>17, <1>18, <1>19 DEF Scored
<1> QED BY <1>2, <1>3, <1>14, <1>20

\* Whatever the standings, ratings stay within their bounds.
LEMMA ChangesWithinBounds ==
  ASSUME Shape, NEW t \in Tx, stage[t] # "Idle", Rated(t)
  PROVE  /\ Changes(t) \in [User -> Int]
         /\ \A u \in Seats(t) : Fetched(t, u).elo + Changes(t)[u] \in MinRating..MaxRating
<1>1. PICK n \in Nat : n = Len(result[t].seats)
  <2>1. result[t] \in Results
    BY DEF Shape
  <2> QED BY <2>1, RatingsAssumption
<1>2. PICK table : \E id \in [1..n -> User] : Scored(t, n, table, id)
  BY <1>1, MatchIsScored
<1>3. PICK id \in [1..n -> User] : Scored(t, n, table, id)
  BY <1>2
<1>4. ASSUME NEW u \in Seats(t)
      PROVE  Changes(t)[u] \in Int /\ Fetched(t, u).elo + Changes(t)[u] \in MinRating..MaxRating
  <2>1. PICK k \in 1..n : id[k] = u
    BY <1>3 DEF Scored
  <2>2. Calculate(table)[k] \in Scale
    BY <1>3, CalculateKeepsScale DEF Scored
  <2>3. Points(Calculate(table)[k]) \in MinRating..MaxRating
    BY <2>2, PointsRound
  <2>4. Changes(t)[u] = Points(Calculate(table)[k]) - Fetched(t, u).elo
    BY <1>3, <2>1 DEF Scored
  <2>5. Fetched(t, u).elo \in Int
    BY RatingOnScale DEF Rated
  <2>6. MinRating \in Int /\ MaxRating \in Int
    BY EloAssumption
  <2> QED BY <2>3, <2>4, <2>5, <2>6
<1>5. \A u \in User : Changes(t)[u] \in Int
  BY <1>3, <1>4 DEF Scored
<1>6. Changes(t) = [u \in User |-> Changes(t)[u]]
  BY DEF Changes
<1> QED BY <1>4, <1>5, <1>6

\* An established player gains nothing at a table of fresh accounts.
LEMMA ChangesSpareFresh ==
  ASSUME Shape, NEW t \in Tx, stage[t] # "Idle", Rated(t),
         NEW u \in Seats(t), Fetched(t, u).played >= Provisional,
         \A v \in Seats(t) : v # u => Fetched(t, v).played < Provisional
  PROVE  Changes(t)[u] <= 0
<1>1. PICK n \in Nat : n = Len(result[t].seats)
  <2>1. result[t] \in Results
    BY DEF Shape
  <2> QED BY <2>1, RatingsAssumption
<1>2. PICK table : \E id \in [1..n -> User] : Scored(t, n, table, id)
  BY <1>1, MatchIsScored
<1>3. PICK id \in [1..n -> User] : Scored(t, n, table, id)
  BY <1>2
<1>4. PICK k \in 1..n : id[k] = u
  BY <1>3 DEF Scored
<1>5. OnScale(table, n)
  BY <1>3 DEF Scored
<1>6. Fetched(t, u).elo \in Int /\ Fetched(t, u).played \in Nat /\ Provisional \in Nat
  BY RatingOnScale, RatingsAssumption DEF Rated
<1>7. ~table[k].provisional
  BY <1>3, <1>4, <1>6 DEF Scored
<1>8. \A j \in 1..n : j # k => table[j].provisional
  BY <1>3, <1>4 DEF Scored
<1>9. PICK x : x = Calculate(table)[k]
  OBVIOUS
<1>10. x \in Scale /\ x <= table[k].rating
  BY <1>5, <1>7, <1>8, <1>9, CalculateKeepsScale, ProvisionalsPayNothing
<1>11. table[k].rating = Fetched(t, u).elo * Unit /\ Changes(t)[u] = Points(x) - Fetched(t, u).elo
  BY <1>3, <1>4, <1>9 DEF Scored
<1>12. Points(x) <= Fetched(t, u).elo /\ Points(x) \in Int
  <2>1. MinRating \in Int /\ MaxRating \in Int
    BY EloAssumption
  <2> QED BY <1>6, <1>10, <1>11, <2>1, PointsRound
<1> QED BY <1>6, <1>11, <1>12

\* Established players win and lose from each other, up to the rounding of each seat.
LEMMA ChangesBalance ==
  ASSUME Shape, NEW t \in Tx, stage[t] # "Idle", Rated(t),
         \A u \in Seats(t) : Fetched(t, u).played >= Provisional
  PROVE  2 * SumFunction(Changes(t)) \in (-Len(result[t].seats))..Len(result[t].seats)
<1>1. PICK n \in Nat : n = Len(result[t].seats)
  <2>1. result[t] \in Results
    BY DEF Shape
  <2> QED BY <2>1, RatingsAssumption
<1>2. PICK table : \E id \in [1..n -> User] : Scored(t, n, table, id)
  BY <1>1, MatchIsScored
<1>3. PICK id \in [1..n -> User] : Scored(t, n, table, id)
  BY <1>2
<1>4. PICK f \in [User -> Int] : f = Changes(t)
  BY ChangesWithinBounds
<1>5. PICK sum : sum = SumFunctionOnSet(f, User) /\ SumFunction(f) = sum
  BY DEF SumFunction, SumFunctionOnSet
<1>6. OnScale(table, n) /\ \A k, l \in 1..n : id[k] = id[l] => k = l
  BY <1>3 DEF Scored
<1>7. \A u \in User : (\A i \in 1..n : id[i] # u) => f[u] = 0
  BY <1>3, <1>4 DEF Scored
<1>8. PICK g \in [0..n -> Int] : AddsAlong(g, n, f, id, sum)
  BY <1>5, <1>6, <1>7, SumAlong
<1>9. \A k \in 1..n : Fetched(t, id[k]).elo \in Int /\ ~table[k].provisional
  <2> SUFFICES ASSUME NEW k \in 1..n PROVE Fetched(t, id[k]).elo \in Int /\ ~table[k].provisional
    OBVIOUS
  <2>1. id[k] \in Seats(t) /\ (table[k].provisional <=> Fetched(t, id[k]).played < Provisional)
    BY <1>3 DEF Scored
  <2>2. Fetched(t, id[k]).elo \in Int /\ Fetched(t, id[k]).played \in Nat /\ Provisional \in Nat
    BY <2>1, RatingOnScale, RatingsAssumption DEF Rated
  <2>3. Fetched(t, id[k]).played >= Provisional
    BY <2>1
  <2> QED BY <2>1, <2>2, <2>3
<1>10. PICK term \in [1..n -> Int] : \A k \in 1..n : term[k] = f[id[k]]
  <2>1. [k \in 1..n |-> f[id[k]]] \in [1..n -> Int]
    OBVIOUS
  <2> QED BY <2>1
<1>11. PICK above \in [1..n -> Int] : above = FromAbove(table)
  BY <1>6, FromAboveIs
<1>12. PICK below \in [1..n -> Int] : \A k \in 1..n : below[k] = FromBelow(table, k)
  <2>1. [k \in 1..n |-> FromBelow(table, k)] \in [1..n -> Int]
    BY <1>6, SeatsOnScale
  <2> QED BY <2>1
<1>13. Unit \in Nat \ {0}
  BY EloAssumption
<1>14. ASSUME NEW k \in 1..n
       PROVE  2 * (term[k] * Unit) - 2 * (above[k] + below[k]) \in -Unit..Unit
  <2>1. PICK e \in Int : e = Fetched(t, id[k]).elo
    BY <1>9
  <2>2. PICK x : x = Calculate(table)[k]
    OBVIOUS
  <2>3. x \in Scale /\ x = table[k].rating + above[k] + below[k]
    BY <1>6, <1>11, <1>12, <2>2, CalculateKeepsScale
  <2>4. PICK p : p = Points(x)
    OBVIOUS
  <2>5. x \in Int /\ p \in Int /\ 2 * (p * Unit) - 2 * x \in -Unit..Unit
    <3>1. MinRating \in Int /\ MaxRating \in Int
      BY EloAssumption
    <3> QED BY <2>3, <2>4, <3>1, PointsRound
  <2>6. table[k].rating = e * Unit /\ term[k] = p - e
    BY <1>3, <1>4, <1>10, <2>1, <2>2, <2>4 DEF Scored
  <2>7. PICK y, z, a, b \in Int : y = p * Unit /\ z = e * Unit /\ a = above[k] /\ b = below[k]
    <3>1. p * Unit \in Int /\ e * Unit \in Int
      BY <1>13, <2>5
    <3>2. above[k] \in Int /\ below[k] \in Int
      OBVIOUS
    <3> QED BY <3>1, <3>2
  <2>8. term[k] * Unit = y - z
    BY <1>13, <2>5, <2>6, <2>7
  <2>9. x = z + a + b
    BY <2>3, <2>6, <2>7
  <2>10. 2 * y - 2 * (z + a + b) \in -Unit..Unit
    BY <2>5, <2>7, <2>9
  <2>11. 2 * (y - z) - 2 * (a + b) = 2 * y - 2 * (z + a + b)
    OBVIOUS
  <2> QED BY <2>7, <2>8, <2>10, <2>11
<1>15. Balanced(n, term, Unit, above, below)
  <2>1. /\ n > 0 => above[1] = 0 /\ below[n] = 0
        /\ \A i \in 1..n : i < n => above[i + 1] = -below[i]
    <3>1. /\ n > 0 => FromAbove(table)[1] = 0 /\ FromBelow(table, n) = 0
          /\ \A i \in 1..n : i < n => FromAbove(table)[i + 1] = -FromBelow(table, i)
      BY <1>6, <1>9, NeighboursBalance
    <3>2. \A i \in 1..n : i < n => above[i + 1] = -below[i]
      BY <1>11, <1>12, <3>1
    <3>3. n > 0 => n \in 1..n
      OBVIOUS
    <3> QED BY <1>11, <1>12, <3>1, <3>2, <3>3
  <2> QED BY <1>14, <2>1 DEF Balanced
<1>16. \A i \in 1..n : g[i] = g[i - 1] + term[i]
  BY <1>8, <1>10 DEF AddsAlong
<1>17. 2 * g[n] \in -n..n
  BY <1>8, <1>13, <1>15, <1>16, RoundingOnly DEF AddsAlong
<1> QED BY <1>1, <1>4, <1>5, <1>8, <1>17 DEF AddsAlong

-----------------------------------------------------------------------------
(* The ladder and the history *)

\* A ranked match that is about to be recorded.
Booked(t) == stage[t] = "Record" /\ result[t].ranked

\* Rankings t has inserted are nobody else's business: the rows are not there for others.
InsertedUnseen ==
  \A t \in Tx : Counting(t) => \A u \in seeded[t] : ranking[<<u, GameOf(t)>>] = None

\* The rankings t has read are there, and locked.
ReadRowsHeld ==
  \A t \in Tx : Booked(t) => \A u \in Seats(t) \ seeded[t] :
    ranking[<<u, GameOf(t)>>] # None /\ rowLock[<<u, GameOf(t)>>] = t

\* What t is about to write is what it would compute now.
DeltaCurrent ==
  \A t \in Tx : stage[t] \notin {"Done", "Aborted"} =>
    delta[t] = IF Booked(t) /\ paid[t] THEN Changes(t) ELSE Nothing

BookShape ==
  /\ ranking \in [User \X Game -> Row \cup {None}]
  /\ delta \in [Tx -> [User -> Int]]
  /\ erasing \in [User -> {"No", "Deleting", "Erased"}]
  /\ \A t \in Tx : stage[t] \in {"Seats", "Seed", "Fetch"} => result[t].ranked

\* Why the ladder and the history cannot diverge.
BookInv == BookShape /\ InsertedUnseen /\ ReadRowsHeld /\ DeltaCurrent

LEMMA FreshIsRow == Fresh \in Row
<1>1. DefaultRating \in MinRating..MaxRating /\ 0 \in Nat
  BY EloAssumption
<1> QED BY <1>1 DEF Fresh, Row

LEMMA NoneIsNoRow == ASSUME NEW x \in Row PROVE x # None
BY RatingsAssumption

\* A match that is booked reads rankings that are there and within their bounds.
LEMMA BookedIsRated ==
  ASSUME Shape, BookShape, InsertedUnseen, ReadRowsHeld, NEW t \in Tx, Booked(t)
  PROVE  Rated(t)
<1> SUFFICES ASSUME NEW u \in Seats(t) PROVE Fetched(t, u) \in Row
  BY DEF Rated
<1>1. u \in User /\ GameOf(t) \in Game
  BY SeatsAreUsers, ResultShape DEF Booked
<1>2. CASE u \in seeded[t]
  BY <1>2, FreshIsRow DEF Fetched
<1>3. CASE u \notin seeded[t]
  <2>1. ranking[<<u, GameOf(t)>>] # None
    BY <1>3 DEF ReadRowsHeld
  <2>2. ranking[<<u, GameOf(t)>>] \in Row \cup {None}
    BY <1>1 DEF BookShape
  <2> QED BY <1>3, <2>1, <2>2 DEF Fetched
<1> QED BY <1>2, <1>3

\* A step of somebody else: s stays booked as it was.
Undisturbed(s) ==
  /\ Booked(s)
  /\ result'[s] = result[s] /\ seeded'[s] = seeded[s]
  /\ paid'[s] = paid[s] /\ delta'[s] = delta[s]
  /\ \A u \in Seats(s) \ seeded[s] :
       /\ ranking'[<<u, GameOf(s)>>] = ranking[<<u, GameOf(s)>>]
       /\ rowLock'[<<u, GameOf(s)>>] = rowLock[<<u, GameOf(s)>>]

LEMMA SameChanges ==
  ASSUME NEW s \in Tx, Undisturbed(s)
  PROVE  Changes(s)' = Changes(s)
<1>1. result'[s] = result[s] /\ Seats(s)' = Seats(s) /\ GameOf(s)' = GameOf(s)
  BY DEF Undisturbed, Seats, GameOf
<1>2. \A u \in Seats(s) : Fetched(s, u)' = Fetched(s, u)
  BY <1>1 DEF Undisturbed, Fetched
<1>3. \A i \in DOMAIN result[s].seats : result[s].seats[i] \in Seats(s)
  BY DEF Seats, ToSet
<1>4. Players(s)' = Players(s)
  BY <1>1, <1>2, <1>3 DEF Players
<1>5. PICK players : players = Players(s) /\ players = Players(s)'
  BY <1>4
<1>6. PICK old : old = [u \in User |-> Fetched(s, u)]
  OBVIOUS
<1>7. PICK now : now = [u \in User |-> Fetched(s, u)']
  OBVIOUS
<1>8. \A u \in Seats(s) : u \in User => now[u] = old[u]
  BY <1>2, <1>6, <1>7
<1> DEFINE Change(f, u) ==
      Points(Calculate(Ordered(players))[CHOOSE i \in DOMAIN Ordered(players) : Ordered(players)[i].id = u]) - f[u].elo
<1>9. Changes(s) = [u \in User |-> IF u \in Seats(s) THEN Change(old, u) ELSE 0]
  BY <1>5, <1>6 DEF Changes
<1>10. Changes(s)' = [u \in User |-> IF u \in Seats(s) THEN Change(now, u) ELSE 0]
  BY <1>1, <1>5, <1>7 DEF Changes
<1>11. \A u \in User : u \in Seats(s) => Change(now, u) = Change(old, u)
  BY <1>8
<1> HIDE DEF Change
<1> QED BY <1>9, <1>10, <1>11

\* A step that books nobody and moves nothing a booked match has read keeps the books.
LEMMA OthersBooks ==
  ASSUME Shape, BookInv, BookShape', InsertedUnseen',
         \A s \in Tx : Booked(s)' => Undisturbed(s),
         \A s \in Tx : stage'[s] \notin {"Done", "Aborted"} /\ ~Booked(s)' => delta'[s] = Nothing
  PROVE  BookInv'
<1>1. ReadRowsHeld'
  <2> SUFFICES ASSUME NEW s \in Tx, Booked(s)', NEW u \in (Seats(s) \ seeded[s])'
               PROVE  (ranking[<<u, GameOf(s)>>] # None /\ rowLock[<<u, GameOf(s)>>] = s)'
    BY DEF ReadRowsHeld
  <2>1. Undisturbed(s) /\ Booked(s)
    BY DEF Undisturbed
  <2>2. u \in Seats(s) \ seeded[s] /\ GameOf(s)' = GameOf(s)
    BY <2>1 DEF Undisturbed, Seats, GameOf
  <2>3. ranking[<<u, GameOf(s)>>] # None /\ rowLock[<<u, GameOf(s)>>] = s
    BY <2>1, <2>2 DEF BookInv, ReadRowsHeld
  <2> QED BY <2>1, <2>2, <2>3 DEF Undisturbed
<1>2. DeltaCurrent'
  <2> SUFFICES ASSUME NEW s \in Tx, stage'[s] \notin {"Done", "Aborted"}
               PROVE  delta'[s] = IF (Booked(s) /\ paid[s])' THEN Changes(s)' ELSE Nothing
    BY DEF DeltaCurrent, Nothing
  <2>1. CASE ~Booked(s)'
    BY <2>1
  <2>2. CASE Booked(s)'
    <3>1. Undisturbed(s) /\ Booked(s) /\ paid'[s] = paid[s] /\ delta'[s] = delta[s]
      BY <2>2 DEF Undisturbed
    <3>2. Changes(s)' = Changes(s)
      BY <3>1, SameChanges
    <3>3. delta[s] = IF Booked(s) /\ paid[s] THEN Changes(s) ELSE Nothing
      <4>1. stage[s] \notin {"Done", "Aborted"}
        BY <3>1 DEF Booked
      <4> QED BY <4>1 DEF BookInv, DeltaCurrent
    <3>4. CASE paid[s]
      BY <2>2, <3>1, <3>2, <3>3, <3>4
    <3>5. CASE ~paid[s]
      BY <2>2, <3>1, <3>3, <3>5
    <3> QED BY <3>4, <3>5
  <2> QED BY <2>1, <2>2
<1> QED BY <1>1, <1>2 DEF BookInv

\* Before its update t has read a ranking for each of its seats.
LEMMA UpdateIsRated ==
  ASSUME Shape, BookShape, NEW t \in Tx, UpdateRankings(t)
  PROVE  /\ Rated(t)
         /\ \A u \in Seats(t) \ seeded[t] : ranking[<<u, GameOf(t)>>] # None /\ rowLock[<<u, GameOf(t)>>] = t
<1>1. stage[t] = "Fetch" /\ Unfetched(t) = {} /\ Missing(t) = {}
  BY DEF UpdateRankings
<1>2. Seats(t) \subseteq User /\ GameOf(t) \in Game
  BY <1>1, SeatsAreUsers, ResultShape
<1>3. ASSUME NEW u \in Seats(t) \ seeded[t]
      PROVE  /\ ranking[<<u, GameOf(t)>>] # None /\ rowLock[<<u, GameOf(t)>>] = t
             /\ ranking[<<u, GameOf(t)>>] \in Row
  <2>1. ranking[<<u, GameOf(t)>>] # None
    BY <1>1 DEF Missing, Unranked
  <2>2. rowLock[<<u, GameOf(t)>>] = t
    BY <1>1, <2>1 DEF Unfetched
  <2>3. ranking[<<u, GameOf(t)>>] \in Row \cup {None}
    BY <1>2 DEF BookShape
  <2> QED BY <2>1, <2>2, <2>3
<1>4. Rated(t)
  BY <1>3, FreshIsRow DEF Rated, Fetched
<1> QED BY <1>3, <1>4

\* What the recorded match makes of a ranking it read.
After(t, u) ==
  [elo    |-> IF paid[t] THEN Fetched(t, u).elo + delta[t][u] ELSE Fetched(t, u).elo,
   played |-> Fetched(t, u).played + 1]

LEMMA CommitWrites ==
  ASSUME Shape, BookInv, NEW t \in Tx, Commit(t)
  PROVE  \A u \in User, g \in Game :
           ranking'[<<u, g>>] = IF Booked(t) /\ g = GameOf(t) /\ u \in Seats(t) THEN After(t, u) ELSE ranking[<<u, g>>]
<1>1. stage[t] = "Record"
  BY DEF Commit
<1>2. CASE ~result[t].ranked
  BY <1>2 DEF Commit, Booked
<1>3. CASE result[t].ranked
  <2>1. ranking' = [r \in User \X Game |->
                      IF r[2] = GameOf(t) /\ r[1] \in Seats(t) THEN After(t, r[1]) ELSE ranking[r]]
    BY <1>3 DEF Commit, After
  <2> QED BY <1>1, <1>3, <2>1 DEF Booked
<1> QED BY <1>2, <1>3

LEMMA AfterIsRow ==
  ASSUME Shape, BookInv, NEW t \in Tx, Booked(t), NEW u \in Seats(t)
  PROVE  /\ After(t, u) \in Row
         /\ After(t, u) = [elo |-> Fetched(t, u).elo + delta[t][u], played |-> Fetched(t, u).played + 1]
<1>1. Rated(t) /\ stage[t] # "Idle" /\ stage[t] \notin {"Done", "Aborted"}
  BY BookedIsRated DEF BookInv, Booked
<1>2. delta[t] = IF Booked(t) /\ paid[t] THEN Changes(t) ELSE Nothing
  BY <1>1 DEF BookInv, DeltaCurrent
<1>3. u \in User
  BY <1>1, SeatsAreUsers
<1>4. /\ Fetched(t, u) \in Row /\ Fetched(t, u).elo \in Int /\ Fetched(t, u).elo \in MinRating..MaxRating
      /\ Fetched(t, u).played + 1 \in Nat
  <2>1. Fetched(t, u) \in Row
    BY <1>1 DEF Rated
  <2>2. Fetched(t, u).played \in Nat
    BY <2>1, RatingOnScale
  <2> QED BY <2>1, <2>2, RatingOnScale DEF Row
<1>5. CASE paid[t]
  <2>1. Fetched(t, u).elo + delta[t][u] \in MinRating..MaxRating
    BY <1>1, <1>2, <1>5, ChangesWithinBounds
  <2> QED BY <1>4, <1>5, <2>1 DEF After, Row
<1>6. CASE ~paid[t]
  <2>1. delta[t][u] = 0
    BY <1>2, <1>3, <1>6 DEF Nothing
  <2>2. Fetched(t, u).elo + delta[t][u] = Fetched(t, u).elo
    BY <1>4, <2>1
  <2> QED BY <1>4, <1>6, <2>2 DEF After, Row
<1> QED BY <1>5, <1>6

LEMMA BookShapeKept ==
  ASSUME Shape, LockShape, BookInv, [Next]_vars
  PROVE  BookShape'
<1> USE DEF BookShape, BookInv, To, Shape
<1>1. ASSUME NEW t \in Tx, GetOrCreateGame(t) \/ LockPairing(t) \/ SeedRankingRows(t) \/ FetchRanking(t)
                          \/ NoRankingRow(t) \/ RollBack(t)
      PROVE  BookShape'
  <2>1. UNCHANGED <<ranking, result, delta, erasing>> /\ \A s \in Tx : s # t => stage'[s] = stage[s]
    BY <1>1 DEF GetOrCreateGame, LockPairing, SeedRankingRows, FetchRanking, NoRankingRow, RollBack,
                stored, writes, locks, erasures
  <2>2. stage'[t] \in {"Seats", "Seed", "Fetch"} => result[t].ranked
    BY <1>1 DEF GetOrCreateGame, LockPairing, SeedRankingRows, FetchRanking, NoRankingRow, RollBack
  <2> QED BY <2>1, <2>2
<1>2. ASSUME NEW t \in Tx, UpdateRankings(t) PROVE BookShape'
  <2>1. stage[t] # "Idle" /\ Rated(t)
    BY <1>2, UpdateIsRated DEF UpdateRankings
  <2>2. Deltas(t) \in [User -> Int]
    BY <2>1, ChangesWithinBounds DEF Deltas, Nothing
  <2> QED BY <1>2, <2>2 DEF UpdateRankings, stored, locks, erasures
<1>3. ASSUME NEW t \in Tx, Commit(t) PROVE BookShape'
  <2>1. \A u \in User, g \in Game : ranking'[<<u, g>>] \in Row \cup {None}
    <3> SUFFICES ASSUME NEW u \in User, NEW g \in Game PROVE ranking'[<<u, g>>] \in Row \cup {None}
      OBVIOUS
    <3>1. ranking'[<<u, g>>] =
            IF Booked(t) /\ g = GameOf(t) /\ u \in Seats(t) THEN After(t, u) ELSE ranking[<<u, g>>]
      BY <1>3, CommitWrites
    <3>2. Booked(t) /\ u \in Seats(t) => After(t, u) \in Row
      BY AfterIsRow
    <3>3. ranking[<<u, g>>] \in Row \cup {None}
      OBVIOUS
    <3> QED BY <3>1, <3>2, <3>3
  <2>2. ranking' = [r \in User \X Game |-> ranking'[r]]
    BY <1>3 DEF Commit
  <2>3. ranking' \in [User \X Game -> Row \cup {None}]
    BY <2>1, <2>2
  <2> QED BY <1>3, <2>3 DEF Commit, writes, erasures
<1>4. ASSUME NEW t \in Tx, NEW r \in Results, Begin(t, r) PROVE BookShape'
  BY <1>4 DEF Begin, stored, writes, locks, erasures
<1>5. ASSUME NEW u \in User, DeleteAccount(u) PROVE BookShape'
  BY <1>5 DEF DeleteAccount, stored, writes, locks
<1>6. ASSUME NEW u \in User, NEW g \in Game, DeleteRanking(u, g) PROVE BookShape'
  BY <1>6 DEF DeleteRanking, stored, writes, erasures
<1>7. ASSUME NEW u \in User, Anonymise(u) PROVE BookShape'
  <2>1. ranking' \in [User \X Game -> Row \cup {None}]
    BY <1>7 DEF Anonymise
  <2> QED BY <1>7, <2>1 DEF Anonymise, writes
<1>8. CASE Age \/ UNCHANGED vars
  BY <1>8 DEF Age, vars, stored, writes, locks, erasures
<1> QED BY <1>1, <1>2, <1>3, <1>4, <1>5, <1>6, <1>7, <1>8 DEF Next, Finalize, Erase

\* Rankings t inserted stay unseen: whoever could write them would hold t's seat.
LEMMA InsertedStayUnseen ==
  ASSUME Shape, LockShape, LockInv, BookInv, [Next]_vars
  PROVE  InsertedUnseen'
<1> DEFINE Same == /\ \A s \in Tx : Counting(s)' =>
                        /\ result'[s] = result[s]
                        /\ seeded'[s] = seeded[s]
                        /\ Counting(s) \/ seeded[s] = {}
                   /\ \A r \in User \X Game : ranking'[r] \in {ranking[r], None}
<1>1. ASSUME Same PROVE InsertedUnseen'
  <2> SUFFICES ASSUME NEW s \in Tx, Counting(s)', NEW u \in seeded'[s]
               PROVE  ranking'[<<u, GameOf(s)'>>] = None
    BY DEF InsertedUnseen
  <2>1. Counting(s) /\ u \in seeded[s] /\ GameOf(s)' = GameOf(s)
    BY <1>1 DEF GameOf
  <2>2. ranking[<<u, GameOf(s)>>] = None
    BY <2>1 DEF BookInv, InsertedUnseen
  <2>3. u \in User /\ GameOf(s) \in Game
    BY <2>1, ResultShape DEF LockShape, Counting
  <2> QED BY <1>1, <2>1, <2>2, <2>3
<1>2. ASSUME NEW t \in Tx,
             GetOrCreateGame(t) \/ LockPairing(t) \/ FetchRanking(t) \/ UpdateRankings(t)
             \/ NoRankingRow(t) \/ RollBack(t)
      PROVE  InsertedUnseen'
  <2>1. UNCHANGED <<ranking, result, seeded>>
    BY <1>2 DEF GetOrCreateGame, LockPairing, FetchRanking, UpdateRankings, NoRankingRow, RollBack,
                stored, writes
  <2>2. \A s \in Tx : s # t => stage'[s] = stage[s]
    BY <1>2 DEF GetOrCreateGame, LockPairing, FetchRanking, UpdateRankings, NoRankingRow, RollBack, To, Shape
  <2>3. Counting(t)' => Counting(t) \/ stage[t] = "Seats"
    BY <1>2, <2>1 DEF GetOrCreateGame, LockPairing, FetchRanking, UpdateRankings, NoRankingRow, RollBack,
                To, Shape, Counting
  <2>4. stage[t] = "Seats" => seeded[t] = {}
    BY DEF LockInv, HoldersKnown
  <2>5. Same
    BY <2>1, <2>2, <2>3, <2>4 DEF Counting
  <2> QED BY <1>1, <2>5
<1>3. ASSUME NEW t \in Tx, SeedRankingRows(t) PROVE InsertedUnseen'
  <2> SUFFICES ASSUME NEW s \in Tx, Counting(s)', NEW u \in seeded'[s]
               PROVE  ranking'[<<u, GameOf(s)'>>] = None
    BY DEF InsertedUnseen
  <2>1. UNCHANGED <<ranking, result>> /\ seeded' = [seeded EXCEPT ![t] = Unranked(t)]
    BY <1>3 DEF SeedRankingRows, stored
  <2>2. CASE s = t
    BY <2>1, <2>2 DEF Unranked, GameOf, LockShape
  <2>3. CASE s # t
    <3>1. Counting(s) /\ u \in seeded[s]
      BY <1>3, <2>1, <2>3 DEF SeedRankingRows, To, Shape, Counting, LockShape
    <3> QED BY <2>1, <3>1 DEF BookInv, InsertedUnseen, GameOf
  <2> QED BY <2>2, <2>3
<1>4. ASSUME NEW t \in Tx, Commit(t) PROVE InsertedUnseen'
  <2> SUFFICES ASSUME NEW s \in Tx, Counting(s)', NEW u \in seeded'[s]
               PROVE  ranking'[<<u, GameOf(s)'>>] = None
    BY DEF InsertedUnseen
  <2>1. UNCHANGED <<result, seeded>> /\ stage'[t] = "Done" /\ \A x \in Tx : x # t => stage'[x] = stage[x]
    BY <1>4 DEF Commit, writes, To, Shape
  <2>2. s # t /\ Counting(s) /\ u \in seeded[s] /\ GameOf(s)' = GameOf(s)
    BY <2>1 DEF Counting, GameOf
  <2>3. ranking[<<u, GameOf(s)>>] = None /\ u \in User /\ GameOf(s) \in Game
    BY <2>2, ResultShape DEF BookInv, InsertedUnseen, LockShape, Counting
  <2>4. u \in Seats(s) /\ seatLock[u] = s
    BY <2>2 DEF LockInv, HoldersKnown, SeatsHeld
  <2>5. ~(Booked(t) /\ u \in Seats(t))
    BY <2>2, <2>4 DEF LockInv, SeatsHeld, Counting, Booked
  <2> QED BY <1>4, <2>2, <2>3, <2>5, CommitWrites
<1>5. ASSUME NEW t \in Tx, NEW r \in Results, Begin(t, r) PROVE InsertedUnseen'
  <2>1. /\ UNCHANGED <<ranking, seeded>>
        /\ \A s \in Tx : s # t => stage'[s] = stage[s] /\ result'[s] = result[s]
        /\ stage'[t] = "Game"
    BY <1>5 DEF Begin, stored, writes, To, Shape
  <2>2. ~Counting(t)'
    BY <2>1 DEF Counting
  <2>3. \A s \in Tx : s # t => (Counting(s)' <=> Counting(s))
    BY <2>1 DEF Counting
  <2>4. Same
    BY <2>1, <2>2, <2>3
  <2> QED BY <1>1, <2>4
<1>6. ASSUME NEW u \in User, Anonymise(u) PROVE InsertedUnseen'
  <2>1. UNCHANGED <<stage, result, seeded>>
    BY <1>6 DEF Anonymise, writes
  <2>2. \A r \in User \X Game : ranking'[r] \in {ranking[r], None}
    BY <1>6 DEF Anonymise
  <2>3. Same
    BY <2>1, <2>2 DEF Counting
  <2> QED BY <1>1, <2>3
<1>7. CASE (\E u \in User : DeleteAccount(u) \/ \E g \in Game : DeleteRanking(u, g)) \/ Age \/ UNCHANGED vars
  <2>1. UNCHANGED <<ranking, stage, result, seeded>>
    BY <1>7 DEF DeleteAccount, DeleteRanking, Age, vars, stored, writes
  <2>2. Same
    BY <2>1 DEF Counting
  <2> QED BY <1>1, <2>2
<1> QED BY <1>2, <1>3, <1>4, <1>5, <1>6, <1>7 DEF Next, Finalize, Erase

\* The update books t, with the rankings it has locked and what it computed from them.
LEMMA UpdateBooks ==
  ASSUME Shape, BookInv, BookShape', InsertedUnseen', NEW t \in Tx, UpdateRankings(t)
  PROVE  BookInv'
<1>1. /\ stage[t] = "Fetch" /\ UNCHANGED <<ranking, result, seeded, rowLock>>
      /\ \A s \in Tx : s # t => stage'[s] = stage[s] /\ paid'[s] = paid[s] /\ delta'[s] = delta[s]
      /\ stage'[t] = "Record" /\ paid'[t] = ~Damped(t) /\ delta'[t] = Deltas(t)
  BY DEF UpdateRankings, To, Shape, stored, locks, BookInv, BookShape
<1>2. \A s \in Tx : Seats(s)' = Seats(s) /\ GameOf(s)' = GameOf(s) /\ Changes(s)' = Changes(s)
  <2>1. \A s \in Tx : Seats(s)' = Seats(s) /\ GameOf(s)' = GameOf(s)
    BY <1>1 DEF Seats, GameOf
  <2>2. ASSUME NEW s \in Tx PROVE Changes(s)' = Changes(s)
    BY <1>1 DEF Changes, Players, Fetched, Seats, GameOf
  <2> QED BY <2>1, <2>2
<1>3. ReadRowsHeld'
  <2> SUFFICES ASSUME NEW s \in Tx, Booked(s)', NEW u \in (Seats(s) \ seeded[s])'
               PROVE  (ranking[<<u, GameOf(s)>>] # None /\ rowLock[<<u, GameOf(s)>>] = s)'
    BY DEF ReadRowsHeld
  <2>1. u \in Seats(s) \ seeded[s]
    BY <1>1, <1>2
  <2>2. CASE s = t
    BY <1>1, <1>2, <2>1, <2>2, UpdateIsRated DEF BookInv
  <2>3. CASE s # t
    BY <1>1, <1>2, <2>1, <2>3 DEF BookInv, ReadRowsHeld, Booked
  <2> QED BY <2>2, <2>3
<1>4. DeltaCurrent'
  <2> SUFFICES ASSUME NEW s \in Tx, stage'[s] \notin {"Done", "Aborted"}
               PROVE  delta'[s] = IF (Booked(s) /\ paid[s])' THEN Changes(s)' ELSE Nothing
    BY DEF DeltaCurrent, Nothing
  <2>1. CASE s # t
    <3>1. (Booked(s) /\ paid[s])' <=> Booked(s) /\ paid[s]
      BY <1>1, <2>1 DEF Booked
    <3>2. delta[s] = IF Booked(s) /\ paid[s] THEN Changes(s) ELSE Nothing
      BY <1>1, <2>1 DEF BookInv, DeltaCurrent
    <3> QED BY <1>1, <1>2, <2>1, <3>1, <3>2
  <2>2. CASE s = t
    <3>1. delta'[t] = IF Damped(t) THEN Nothing ELSE Changes(t)
      BY <1>1 DEF Deltas
    <3>2. CASE Damped(t)
      BY <1>1, <2>2, <3>1, <3>2
    <3>3. CASE ~Damped(t)
      <4>1. Booked(t)'
        BY <1>1 DEF Booked, BookInv, BookShape
      <4> QED BY <1>1, <1>2, <2>2, <3>1, <3>3, <4>1
    <3> QED BY <3>2, <3>3
  <2> QED BY <2>1, <2>2
<1> QED BY <1>3, <1>4 DEF BookInv

\* Between its update and its commit a match keeps its rankings to itself.
LEMMA StepKeepsBooks ==
  ASSUME Shape, LockShape, LockInv, BookInv, [Next]_vars
  PROVE  BookInv'
<1> DEFINE Stages1 == \A s \in Tx : stage'[s] \notin {"Done", "Aborted"} =>
                        /\ stage[s] \notin {"Done", "Aborted"}
                        /\ Booked(s) <=> Booked(s)'
                        /\ delta'[s] = delta[s]
           Writes1 == \A s \in Tx : Booked(s)' =>
                        result'[s] = result[s] /\ seeded'[s] = seeded[s] /\ paid'[s] = paid[s]
           Untouched(s, u) == /\ ranking'[<<u, GameOf(s)>>] = ranking[<<u, GameOf(s)>>]
                              /\ rowLock'[<<u, GameOf(s)>>] = rowLock[<<u, GameOf(s)>>]
           Rows1 == \A s \in Tx : \A u \in User :
                      Booked(s) /\ Booked(s)' /\ u \in Seats(s) /\ GameOf(s) \in Game
                      /\ ranking[<<u, GameOf(s)>>] # None /\ rowLock[<<u, GameOf(s)>>] = s
                        => Untouched(s, u)
<1>1. BookShape' /\ InsertedUnseen'
  BY BookShapeKept, InsertedStayUnseen
<1>2. ASSUME Stages1, Writes1, Rows1 PROVE BookInv'
  <2>1. ASSUME NEW s \in Tx, Booked(s)' PROVE Undisturbed(s)
    <3>1. Booked(s) /\ delta'[s] = delta[s] /\ stage[s] # "Idle"
      BY <1>2, <2>1 DEF Booked
    <3>2. ASSUME NEW u \in Seats(s) \ seeded[s] PROVE Untouched(s, u)
      <4>1. u \in User /\ GameOf(s) \in Game
        BY <3>1, SeatsAreUsers, ResultShape
      <4>2. ranking[<<u, GameOf(s)>>] # None /\ rowLock[<<u, GameOf(s)>>] = s
        BY <3>1 DEF BookInv, ReadRowsHeld
      <4> QED BY <1>2, <2>1, <3>1, <4>1, <4>2
    <3> QED BY <1>2, <2>1, <3>1, <3>2 DEF Undisturbed
  <2>2. ASSUME NEW s \in Tx, stage'[s] \notin {"Done", "Aborted"}, ~Booked(s)' PROVE delta'[s] = Nothing
    <3>1. stage[s] \notin {"Done", "Aborted"} /\ ~Booked(s) /\ delta'[s] = delta[s]
      BY <1>2, <2>2
    <3> QED BY <3>1 DEF BookInv, DeltaCurrent
  <2> QED BY <1>1, <2>1, <2>2, OthersBooks
<1>3. ASSUME NEW t \in Tx, UpdateRankings(t) PROVE BookInv'
  BY <1>1, <1>3, UpdateBooks
<1>4. ASSUME NEW t \in Tx, GetOrCreateGame(t) \/ LockPairing(t) \/ SeedRankingRows(t) PROVE BookInv'
  <2>1. /\ UNCHANGED <<ranking, result, delta, paid, rowLock>>
        /\ \A s \in Tx : s # t => stage'[s] = stage[s] /\ seeded'[s] = seeded[s]
        /\ stage[t] \in {"Game", "Seats", "Seed"} /\ stage'[t] \in {"Seats", "Seed", "Fetch", "Record"}
        /\ stage'[t] = "Record" => ~result[t].ranked
    BY <1>4 DEF GetOrCreateGame, LockPairing, SeedRankingRows, To, Shape, LockShape, stored, writes, locks
  <2>2. ~Booked(t) /\ ~Booked(t)' /\ \A s \in Tx : s # t => (Booked(s) <=> Booked(s)')
    BY <2>1 DEF Booked
  <2>3. Stages1
    BY <2>1, <2>2
  <2>4. Writes1 /\ Rows1
    BY <2>1, <2>2
  <2> HIDE DEF Stages1, Writes1, Rows1
  <2> QED BY <1>2, <2>3, <2>4
<1>5. ASSUME NEW t \in Tx, FetchRanking(t) PROVE BookInv'
  <2>1. /\ UNCHANGED <<ranking, stage, result, seeded, delta, paid>>
        /\ stage[t] = "Fetch" /\ Unfetched(t) # {}
        /\ rowLock' = [rowLock EXCEPT ![<<NextRow(t), GameOf(t)>>] = t]
    BY <1>5 DEF FetchRanking, stored, writes
  <2>2. rowLock[<<NextRow(t), GameOf(t)>>] \in {None, t}
    BY <1>5, <2>1 DEF FetchRanking, WaitsFor, Blocking
  <2>3. \A s \in Tx : Booked(s) <=> Booked(s)'
    BY <2>1 DEF Booked
  <2>4. ASSUME NEW s \in Tx, NEW u \in User, Booked(s), GameOf(s) \in Game, rowLock[<<u, GameOf(s)>>] = s
        PROVE  Untouched(s, u)
    <3>1. s # t /\ s # None
      BY <2>1, <2>4, RatingsAssumption DEF Booked
    <3>2. <<u, GameOf(s)>> # <<NextRow(t), GameOf(t)>>
      BY <2>2, <2>4, <3>1
    <3> QED BY <2>1, <2>4, <3>2 DEF LockShape
  <2>5. Stages1 /\ Writes1
    BY <2>1, <2>3
  <2>6. Rows1
    <3> HIDE DEF Untouched
    <3> QED BY <2>4
  <2> HIDE DEF Stages1, Writes1, Rows1
  <2> QED BY <1>2, <2>5, <2>6
<1>6. ASSUME NEW t \in Tx, NoRankingRow(t) \/ RollBack(t) PROVE BookInv'
  <2>1. /\ UNCHANGED <<ranking, result, seeded, delta, paid>>
        /\ \A s \in Tx : s # t => stage'[s] = stage[s]
        /\ stage'[t] = "Aborted"
        /\ Release(t)
    BY <1>6 DEF NoRankingRow, RollBack, Running, To, Shape, stored, writes
  <2>2. ~Booked(t)' /\ \A s \in Tx : s # t => (Booked(s) <=> Booked(s)')
    BY <2>1 DEF Booked
  <2>3. Stages1 /\ Writes1
    BY <2>1, <2>2
  <2>4. Rows1
    BY <2>1, <2>2 DEF Release
  <2> HIDE DEF Stages1, Writes1, Rows1
  <2> QED BY <1>2, <2>3, <2>4
<1>7. ASSUME NEW t \in Tx, Commit(t) PROVE BookInv'
  <2>1. /\ UNCHANGED <<result, seeded, delta, paid>>
        /\ \A s \in Tx : s # t => stage'[s] = stage[s]
        /\ stage[t] = "Record" /\ stage'[t] = "Done"
        /\ Release(t)
    BY <1>7 DEF Commit, To, Shape, writes
  <2>2. ~Booked(t)' /\ \A s \in Tx : s # t => (Booked(s) <=> Booked(s)')
    BY <2>1 DEF Booked
  <2>3. Stages1 /\ Writes1
    BY <2>1, <2>2
  <2>4. ASSUME NEW s \in Tx, NEW u \in User, Booked(s), Booked(s)', u \in Seats(s), GameOf(s) \in Game,
               rowLock[<<u, GameOf(s)>>] = s
        PROVE  Untouched(s, u)
    <3>1. s # t
      BY <2>2, <2>4
    <3>2. seatLock[u] = s
      BY <2>4 DEF LockInv, SeatsHeld, Counting, Booked
    <3>3. ~(Booked(t) /\ u \in Seats(t))
      BY <3>1, <3>2 DEF LockInv, SeatsHeld, Counting, Booked
    <3>4. ranking'[<<u, GameOf(s)>>] = ranking[<<u, GameOf(s)>>]
      BY <1>7, <2>4, <3>3, CommitWrites
    <3>5. rowLock'[<<u, GameOf(s)>>] = rowLock[<<u, GameOf(s)>>]
      BY <2>1, <2>4, <3>1 DEF Release
    <3> QED BY <3>4, <3>5
  <2>5. Rows1
    <3> HIDE DEF Untouched
    <3> QED BY <2>4
  <2> HIDE DEF Stages1, Writes1, Rows1
  <2> QED BY <1>2, <2>3, <2>5
<1>8. ASSUME NEW t \in Tx, NEW r \in Results, Begin(t, r) PROVE BookInv'
  <2>1. /\ UNCHANGED <<ranking, seeded, delta, paid, rowLock>>
        /\ \A s \in Tx : s # t => stage'[s] = stage[s] /\ result'[s] = result[s]
        /\ stage[t] = "Idle" /\ stage'[t] = "Game"
    BY <1>8 DEF Begin, To, Shape, stored, writes, locks
  <2>2. ~Booked(t) /\ ~Booked(t)' /\ \A s \in Tx : s # t => (Booked(s) <=> Booked(s)')
    BY <2>1 DEF Booked
  <2>3. Stages1
    BY <2>1, <2>2
  <2>4. Writes1 /\ Rows1
    BY <2>1, <2>2
  <2> HIDE DEF Stages1, Writes1, Rows1
  <2> QED BY <1>2, <2>3, <2>4
<1>9. ASSUME NEW v \in User, NEW g \in Game, DeleteRanking(v, g) PROVE BookInv'
  <2>1. /\ UNCHANGED <<ranking, stage, result, seeded, delta, paid>>
        /\ rowLock[<<v, g>>] = None /\ rowLock' = [rowLock EXCEPT ![<<v, g>>] = v]
    BY <1>9 DEF DeleteRanking, stored, writes
  <2>2. \A s \in Tx : (Booked(s) <=> Booked(s)') /\ s # None
    BY <2>1, RatingsAssumption DEF Booked
  <2>3. Stages1 /\ Writes1
    BY <2>1, <2>2
  <2>4. Rows1
    BY <2>1, <2>2 DEF LockShape
  <2> HIDE DEF Stages1, Writes1, Rows1
  <2> QED BY <1>2, <2>3, <2>4
<1>10. ASSUME NEW v \in User, Anonymise(v) PROVE BookInv'
  <2>1. /\ UNCHANGED <<stage, result, seeded, delta, paid>>
        /\ \A g \in doomed[v] : rowLock[<<v, g>>] = v
        /\ ranking' = [r \in User \X Game |-> IF r[1] = v /\ r[2] \in doomed[v] THEN None ELSE ranking[r]]
        /\ rowLock' = [r \in User \X Game |-> IF rowLock[r] = v THEN None ELSE rowLock[r]]
    BY <1>10 DEF Anonymise, writes
  <2>2. \A s \in Tx : (Booked(s) <=> Booked(s)') /\ s # v
    BY <2>1, RatingsAssumption DEF Booked
  <2>3. Stages1 /\ Writes1
    BY <2>1, <2>2
  <2>4. Rows1
    BY <2>1, <2>2
  <2> HIDE DEF Stages1, Writes1, Rows1
  <2> QED BY <1>2, <2>3, <2>4
<1>11. CASE (\E u \in User : DeleteAccount(u)) \/ Age \/ UNCHANGED vars
  <2>1. UNCHANGED <<ranking, stage, result, seeded, delta, paid, rowLock>>
    BY <1>11 DEF DeleteAccount, Age, vars, stored, writes, locks
  <2>2. \A s \in Tx : Booked(s) <=> Booked(s)'
    BY <2>1 DEF Booked
  <2>3. Stages1 /\ Writes1 /\ Rows1
    BY <2>1, <2>2
  <2> HIDE DEF Stages1, Writes1, Rows1
  <2> QED BY <1>2, <2>3
<1> QED BY <1>3, <1>4, <1>5, <1>6, <1>7, <1>8, <1>9, <1>10, <1>11 DEF Next, Finalize, Erase

\* The ladder and the history go together, at every statement.
THEOREM LadderCorrect == Spec => []BookInv
<1>1. Init => BookInv
  BY RatingsAssumption DEF Init, BookInv, BookShape, InsertedUnseen, ReadRowsHeld, DeltaCurrent,
                           Counting, Booked, Nothing
<1>2. Shape /\ LockShape /\ LockInv /\ BookInv /\ [Next]_vars => BookInv'
  BY StepKeepsBooks
<1> QED BY <1>1, <1>2, ShapeCorrect, LockShapeCorrect, LocksCorrect, PTL DEF Spec

\* The ranking everybody sees, and the matches of u that a step records.
Seen(u, g) == IF ranking[<<u, g>>] = None THEN Fresh ELSE ranking[<<u, g>>]
RecordedNow(u, g) == {t \in Tx : Recorded(t) /\ result[t].ranked /\ result[t].game = g /\ u \in Seats(t)}

\* What LadderFollowsHistory says of a step.
LadderStep ==
  \A u \in User, g \in Game :
    ranking'[<<u, g>>] # ranking[<<u, g>>] /\ ranking'[<<u, g>>] # None =>
      \E t \in RecordedNow(u, g) :
        RecordedNow(u, g) = {t}
        /\ ranking'[<<u, g>>] = [elo |-> Seen(u, g).elo + delta[t][u], played |-> Seen(u, g).played + 1]

LEMMA OnlyCommitsMove ==
  ASSUME Next, NEW r \in User \X Game, ranking'[r] # ranking[r], ranking'[r] # None
  PROVE  \E t \in Tx : Commit(t)
<1>1. ASSUME NEW t \in Tx, Finalize(t) \/ RollBack(t), ~Commit(t) PROVE FALSE
  BY <1>1 DEF Finalize, GetOrCreateGame, LockPairing, SeedRankingRows, FetchRanking, NoRankingRow,
              UpdateRankings, RollBack, stored
<1>2. ASSUME NEW t \in Tx, NEW x \in Results, Begin(t, x) PROVE FALSE
  BY <1>2 DEF Begin, stored
<1>3. ASSUME NEW u \in User, DeleteAccount(u) \/ Erase(u) PROVE FALSE
  BY <1>3 DEF DeleteAccount, Erase, DeleteRanking, Anonymise, stored
<1>4. CASE Age
  BY <1>4 DEF Age
<1> QED BY <1>1, <1>2, <1>3, <1>4 DEF Next

\* What t has read is what everybody else sees.
LEMMA FetchedIsCurrent ==
  ASSUME InsertedUnseen, ReadRowsHeld, NEW t \in Tx, Booked(t), NEW u \in Seats(t)
  PROVE  Fetched(t, u) = Seen(u, GameOf(t))
<1>1. CASE u \in seeded[t]
  <2>1. ranking[<<u, GameOf(t)>>] = None
    BY <1>1 DEF InsertedUnseen, Counting, Booked
  <2> QED BY <1>1, <2>1 DEF Fetched, Seen
<1>2. CASE u \notin seeded[t]
  <2>1. ranking[<<u, GameOf(t)>>] # None
    BY <1>2 DEF ReadRowsHeld
  <2> QED BY <1>2, <2>1 DEF Fetched, Seen
<1> QED BY <1>1, <1>2

\* A rating moves by what the match recorded in the same step says of it, counted from the
\* value everybody else saw, and by nothing else.
THEOREM LadderIsHistory == Spec => LadderFollowsHistory
<1>1. ASSUME Shape, BookInv, Next PROVE LadderStep
  <2> SUFFICES ASSUME NEW u \in User, NEW g \in Game,
                      ranking'[<<u, g>>] # ranking[<<u, g>>], ranking'[<<u, g>>] # None
               PROVE  \E t \in RecordedNow(u, g) :
                        RecordedNow(u, g) = {t}
                        /\ ranking'[<<u, g>>] = [elo |-> Seen(u, g).elo + delta[t][u], played |-> Seen(u, g).played + 1]
    BY DEF LadderStep
  <2>1. PICK t \in Tx : Commit(t)
    BY <1>1, OnlyCommitsMove
  <2>2. Booked(t) /\ g = GameOf(t) /\ u \in Seats(t) /\ ranking'[<<u, g>>] = After(t, u)
    BY <1>1, <2>1, CommitWrites
  <2>3. ranking'[<<u, g>>] = [elo |-> Fetched(t, u).elo + delta[t][u], played |-> Fetched(t, u).played + 1]
    BY <1>1, <2>2, AfterIsRow
  <2>4. Fetched(t, u) = Seen(u, g)
    BY <1>1, <2>2, FetchedIsCurrent DEF BookInv
  <2>5. \A s \in Tx : Recorded(s) <=> s = t
    BY <1>1, <2>1 DEF Commit, To, Shape, Recorded
  <2>6. RecordedNow(u, g) = {t}
    BY <2>2, <2>5 DEF Booked, GameOf, RecordedNow
  <2> QED BY <2>3, <2>4, <2>6
<1>2. Shape /\ BookInv /\ [Next]_vars => [LadderStep]_vars
  BY <1>1
<1> QED BY <1>2, ShapeCorrect, LadderCorrect, PTL DEF Spec, LadderFollowsHistory, LadderStep, Seen, RecordedNow

-----------------------------------------------------------------------------
(* What a match is about to move *)

\* No match is recorded twice.
THEOREM TypesKept == Spec => []TypeOK
<1>1. Init => IsInjective(history)
  BY DEF Init, IsInjective
<1>2. Shape /\ IsInjective(history) /\ [Next]_vars => IsInjective(history)'
  <2> SUFFICES ASSUME Shape, IsInjective(history), [Next]_vars PROVE IsInjective(history')
    BY DEF IsInjective
  <2>1. ASSUME NEW t \in Tx, Commit(t) PROVE IsInjective(history')
    <3>1. history' = Append(history, t) /\ \A i \in 1..Len(history) : history[i] # t
      BY <2>1 DEF Commit, Shape
    <3>2. history \in Seq(Tx) /\ \A i, j \in 1..Len(history) : history[i] = history[j] => i = j
      BY DEF Shape, IsInjective
    <3> QED BY <3>1, <3>2 DEF IsInjective
  <2>2. CASE history' = history
    BY <2>2
  <2>3. (\E t \in Tx : Commit(t)) \/ history' = history
    BY DEF Next, Finalize, Erase, GetOrCreateGame, LockPairing, SeedRankingRows, FetchRanking, NoRankingRow,
           UpdateRankings, RollBack, Begin, DeleteAccount, DeleteRanking, Anonymise, Age, stored, vars
  <2> QED BY <2>1, <2>2, <2>3
<1>3. Shape /\ LockShape /\ BookShape /\ IsInjective(history) => TypeOK
  BY RatingsAssumption DEF Shape, LockShape, BookShape, TypeOK, Stages
<1>4. BookInv => BookShape
  BY DEF BookInv
<1> QED BY <1>1, <1>2, <1>3, <1>4, ShapeCorrect, LockShapeCorrect, LadderCorrect, PTL DEF Spec

\* What t has computed and not yet recorded.
LEMMA DeltaIs ==
  ASSUME BookInv, NEW t \in Tx, stage[t] = "Record"
  PROVE  delta[t] = IF Booked(t) /\ paid[t] THEN Changes(t) ELSE Nothing
BY DEF BookInv, DeltaCurrent

LEMMA NothingIsNothing ==
  /\ Nothing \in [User -> Int] /\ \A u \in User : Nothing[u] = 0
  /\ SumFunction(Nothing) = 0
<1>1. PICK f \in [User -> Int] : f = Nothing /\ \A u \in User : f[u] = 0
  <2>1. Nothing \in [User -> Int] /\ \A u \in User : Nothing[u] = 0
    BY DEF Nothing
  <2> QED BY <2>1
<1>2. f = [u \in User |-> 0]
  BY <1>1
<1>3. SumFunction(f) = SumFunctionOnSet(f, User)
  BY DEF SumFunction, SumFunctionOnSet
<1>4. SumFunctionOnSet(f, User) = 0
  BY <1>2, RatingsAssumption, SumOfNothing
<1> QED BY <1>1, <1>3, <1>4

\* An established player never gains at a table of fresh accounts.
LEMMA FreshNeverPay ==
  ASSUME Shape, BookInv
  PROVE  FreshPaysNobody
<1> SUFFICES ASSUME NEW t \in Tx, NEW u \in User,
                    stage[t] = "Record", delta[t][u] > 0, Fetched(t, u).played >= Provisional,
                    \A v \in Seats(t) \ {u} : ~(Fetched(t, v).played >= Provisional)
             PROVE  FALSE
  BY DEF FreshPaysNobody
<1>1. Booked(t) /\ delta[t] = Changes(t)
  BY DeltaIs, NothingIsNothing
<1>2. Rated(t) /\ stage[t] # "Idle"
  BY <1>1, BookedIsRated DEF BookInv
<1>3. u \in Seats(t)
  BY <1>1 DEF Changes
<1>4. \A v \in Seats(t) : v # u => Fetched(t, v).played < Provisional
  BY <1>2, RatingOnScale, RatingsAssumption DEF Rated
<1>5. Changes(t)[u] <= 0 /\ Changes(t)[u] \in Int
  BY <1>2, <1>3, <1>4, ChangesSpareFresh, ChangesWithinBounds
<1> QED BY <1>1, <1>5

\* Established players win from each other what they lose, up to the rounding of each seat.
LEMMA EstablishedBalance ==
  ASSUME Shape, BookInv
  PROVE  RatingConserved
<1> SUFFICES ASSUME NEW t \in Tx, stage[t] = "Record", result[t].ranked,
                    \A u \in Seats(t) : Fetched(t, u).played >= Provisional
             PROVE  2 * SumFunction(delta[t]) \in (-Len(result[t].seats))..Len(result[t].seats)
  BY DEF RatingConserved
<1>1. Booked(t) /\ Rated(t) /\ stage[t] # "Idle"
  BY BookedIsRated DEF BookInv, Booked
<1>2. CASE paid[t]
  <2>1. delta[t] = Changes(t)
    BY <1>1, <1>2, DeltaIs
  <2> QED BY <1>1, <2>1, ChangesBalance
<1>3. CASE ~paid[t]
  <2>1. SumFunction(delta[t]) = 0
    BY <1>3, DeltaIs, NothingIsNothing
  <2>2. Len(result[t].seats) \in Nat
    BY <1>1, RatingsAssumption DEF Shape
  <2> QED BY <2>1, <2>2
<1> QED BY <1>2, <1>3

\* What a match is about to move keeps ratings in their bounds, makes no points and takes
\* none from fresh accounts for established ones.
THEOREM TransfersAreSound == Spec => []TransfersSound
<1>1. Shape /\ BookInv /\ TypeOK => TransfersSound
  BY FreshNeverPay, EstablishedBalance DEF TransfersSound
<1> QED BY <1>1, ShapeCorrect, LadderCorrect, TypesKept, PTL
==============================================================================
