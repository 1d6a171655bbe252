------------------------- MODULE EvaluatorProofs ----------------------------
(***************************************************************************)
(* Proof that the hand evaluator finds the best five-card hand, for any    *)
(* five, six or seven cards of any deck of four suits at most.  Five cards *)
(* lie, grouped by rank, in one of nine shapes, which says what they are   *)
(* worth at their face; what counting finds of a class is no less than any *)
(* five cards of that shape, and some five cards reach it.                 *)
(***************************************************************************)
EXTENDS Evaluator, DataLemmas, SequenceTheorems, FunctionTheorems, FiniteSetTheorems

-----------------------------------------------------------------------------
(* The evaluator: the highest of some cards *)

\* A value goes up to the ace, and a card is known by its value and its suit.
LEMMA ValueIs ==
  /\ \A c \in EvalDeck : Value(c) \in 2..14
  /\ \A c, d \in EvalDeck : Value(c) = Value(d) /\ c.suit = d.suit => c = d
BY EvaluatorAssumption DEF Value, RankValue

\* Parts of the deck are counted.
LEMMA PartCounted ==
  ASSUME NEW X \in SUBSET EvalDeck
  PROVE  /\ IsFiniteSet(X) /\ Cardinality(X) \in Nat
         /\ \A Y \in SUBSET X : /\ Y \in SUBSET EvalDeck /\ IsFiniteSet(Y) /\ Cardinality(Y) \in Nat
                                /\ Cardinality(Y) <= Cardinality(X)
BY EvaluatorAssumption, FS_Subset, FS_CardinalityType

\* One card more or less counts one.
LEMMA CardCounts ==
  ASSUME NEW S, IsFiniteSet(S), NEW x
  PROVE  /\ IsFiniteSet(S \ {x}) /\ Cardinality(S \ {x}) \in Nat
         /\ Cardinality(S) = Cardinality(S \ {x}) + (IF x \in S THEN 1 ELSE 0)
<1>1. /\ IsFiniteSet(S \ {x})
      /\ Cardinality(S \ {x}) = IF x \in S THEN Cardinality(S) - 1 ELSE Cardinality(S)
  BY FS_RemoveElement
<1>2. Cardinality(S \ {x}) \in Nat /\ Cardinality(S) \in Nat
  BY <1>1, FS_CardinalityType
<1> QED BY <1>1, <1>2

\* n different members, the greater before the lesser, and none left out that is greater than
\* one of them.
Tops(d, n, X, f) ==
  /\ d \in [1..n -> X] /\ \A i, j \in 1..n : d[i] = d[j] => i = j
  /\ \A i, j \in 1..n : i < j => f[d[i]] >= f[d[j]]
  /\ \A c \in X : (\E i \in 1..n : d[i] = c) \/ \A i \in 1..n : f[c] <= f[d[i]]

\* The first i of n picks.
Firsts(d, i) == {d[j] : j \in 1..i}

\* So many different picks count so many.
LEMMA FirstsCounted ==
  ASSUME NEW n \in Nat, NEW i \in 0..n, NEW d, \A j, k \in 1..n : d[j] = d[k] => j = k
  PROVE  IsFiniteSet(Firsts(d, i)) /\ Cardinality(Firsts(d, i)) = i
<1>1. PICK f : f = [j \in 1..i |-> d[j]]
  OBVIOUS
<1>2. f \in Bijection(1..i, Firsts(d, i))
  <2>1. f \in Injection(1..i, Firsts(d, i))
    BY <1>1 DEF Injection, IsInjective, Firsts
  <2>2. f \in Surjection(1..i, Firsts(d, i))
    BY <1>1 DEF Surjection, Firsts
  <2> QED BY <2>1, <2>2 DEF Bijection
<1>3. IsFiniteSet(1..i) /\ Cardinality(1..i) = i
  BY IntervalCount
<1>4. ExistsBijection(1..i, Firsts(d, i))
  BY <1>2 DEF ExistsBijection
<1> QED BY <1>3, <1>4, FS_Bijection

\* Of enough members the greatest can be picked.
LEMMA TopsExist ==
  ASSUME NEW X, IsFiniteSet(X), NEW f, IntsOn(f, X), NEW n \in 0..Cardinality(X)
  PROVE  \E d : Tops(d, n, X, f)
<1> DEFINE K == {k \in Nat : k <= Cardinality(X) => \E d : Tops(d, k, X, f)}
<1>1. 0 \in K
  <2>1. PICK d : d = [i \in 1..0 |-> X]
    OBVIOUS
  <2>2. d \in [1..0 -> X] /\ 1..0 = {}
    BY <2>1
  <2>3. Tops(d, 0, X, f)
    BY <2>2 DEF Tops
  <2> QED BY <2>3
<1>2. ASSUME NEW k \in Nat, k \in K PROVE k + 1 \in K
  <2> SUFFICES ASSUME k + 1 <= Cardinality(X) PROVE \E d : Tops(d, k + 1, X, f)
    OBVIOUS
  <2>1. Cardinality(X) \in Nat /\ \A x \in X : f[x] \in Int
    BY FS_CardinalityType DEF IntsOn
  <2>2. PICK d : Tops(d, k, X, f)
    BY <1>2, <2>1
  <2>3. PICK rest : rest = X \ Firsts(d, k)
    OBVIOUS
  <2>4. rest # {}
    <3>1. Cardinality(Firsts(d, k)) = k
      <4>1. k \in 0..k /\ \A i, j \in 1..k : d[i] = d[j] => i = j
        BY <2>2 DEF Tops
      <4> QED BY <4>1, FirstsCounted
    <3>2. Firsts(d, k) \subseteq X
      BY <2>2 DEF Tops, Firsts
    <3>3. Firsts(d, k) # X
      BY <2>1, <3>1
    <3> QED BY <2>3, <3>2, <3>3
  <2>5. PICK c \in rest : \A x \in rest : f[x] <= f[c]
    <3>1. IsFiniteSet(rest) /\ IntsOn(f, rest)
      BY <2>1, <2>3, FS_Subset DEF IntsOn
    <3> QED BY <2>4, <3>1, SomeoneGreatest
  <2>6. c \in X /\ \A i \in 1..k : d[i] # c /\ f[c] <= f[d[i]]
    BY <2>2, <2>3, <2>5 DEF Tops, Firsts
  <2>7. PICK e : e = [i \in 1..(k + 1) |-> IF i <= k THEN d[i] ELSE c]
    OBVIOUS
  <2>8. e[k + 1] = c /\ \A i \in 1..k : e[i] = d[i] /\ i \in 1..(k + 1)
    BY <2>7
  <2>9. \A i \in 1..(k + 1) : i \in 1..k \/ i = k + 1
    OBVIOUS
  <2>10. e \in [1..(k + 1) -> X]
    BY <2>2, <2>6, <2>7 DEF Tops
  <2>11. \A i, j \in 1..(k + 1) : e[i] = e[j] => i = j
    BY <2>2, <2>6, <2>8, <2>9 DEF Tops
  <2>12. ASSUME NEW i \in 1..(k + 1), NEW j \in 1..(k + 1), i < j PROVE f[e[i]] >= f[e[j]]
    <3>1. i \in 1..k
      BY <2>12
    <3>2. CASE j \in 1..k
      BY <2>2, <2>8, <2>12, <3>1, <3>2 DEF Tops
    <3>3. CASE j = k + 1
      <4>1. f[c] <= f[d[i]] /\ f[c] \in Int /\ f[d[i]] \in Int
        BY <2>1, <2>2, <2>6, <3>1 DEF Tops
      <4> QED BY <2>8, <3>1, <3>3, <4>1
    <3> QED BY <2>9, <3>2, <3>3
  <2>13. ASSUME NEW x \in X
         PROVE  (\E i \in 1..(k + 1) : e[i] = x) \/ \A i \in 1..(k + 1) : f[x] <= f[e[i]]
    <3>1. CASE x \in rest
      <4>1. f[x] <= f[c] /\ f[x] \in Int /\ f[c] \in Int
        BY <2>1, <2>5, <2>6, <3>1
      <4>2. \A i \in 1..k : f[c] <= f[d[i]] /\ f[d[i]] \in Int
        BY <2>1, <2>2, <2>6 DEF Tops
      <4>3. \A i \in 1..k : f[x] <= f[d[i]]
        BY <4>1, <4>2
      <4> QED BY <2>8, <2>9, <4>1, <4>3
    <3>2. CASE x \notin rest
      <4>1. PICK i \in 1..k : d[i] = x
        BY <2>3, <3>2 DEF Firsts
      <4> QED BY <2>8, <4>1
    <3> QED BY <3>1, <3>2
  <2>14. Tops(e, k + 1, X, f)
    BY <2>10, <2>11, <2>12, <2>13 DEF Tops
  <2> QED BY <2>14
<1>3. \A k \in Nat : k \in K
  <2> HIDE DEF K
  <2> QED BY <1>1, <1>2, CountsOn
<1> QED BY <1>3, FS_CardinalityType

\* w is the i-th greatest: fewer than i members are above it, and i are not below.
Ith(X, f, i, w) ==
  Cardinality({c \in X : f[c] > w}) < i /\ Cardinality({c \in X : f[c] >= w}) >= i

\* Only one value is the i-th greatest.
LEMMA IthIsOne ==
  ASSUME NEW X, IsFiniteSet(X), NEW f, IntsOn(f, X), NEW i \in Int,
         NEW v \in Int, NEW w \in Int, Ith(X, f, i, v), Ith(X, f, i, w)
  PROVE  v = w
<1>1. ASSUME NEW a \in Int, NEW b \in Int, Ith(X, f, i, a), Ith(X, f, i, b), a < b PROVE FALSE
  <2>1. {c \in X : f[c] >= b} \subseteq {c \in X : f[c] > a} /\ IsFiniteSet({c \in X : f[c] > a})
    BY <1>1, FS_Subset DEF IntsOn
  <2>2. Cardinality({c \in X : f[c] >= b}) <= Cardinality({c \in X : f[c] > a})
    BY <2>1, FS_Subset
  <2>3. Cardinality({c \in X : f[c] >= b}) \in Nat /\ Cardinality({c \in X : f[c] > a}) \in Nat
    BY <2>1, FS_Subset, FS_CardinalityType
  <2> QED BY <1>1, <2>2, <2>3 DEF Ith
<1> QED BY <1>1

\* The picks are the greatest, one after another.
LEMMA TopIsIth ==
  ASSUME NEW X, IsFiniteSet(X), NEW f, IntsOn(f, X), NEW n \in Nat, NEW d, Tops(d, n, X, f),
         NEW i \in 1..n
  PROVE  n <= Cardinality(X) /\ d[i] \in X /\ f[d[i]] \in Int /\ Ith(X, f, i, f[d[i]])
<1>1. /\ IsFiniteSet(Firsts(d, i)) /\ Cardinality(Firsts(d, i)) = i
      /\ IsFiniteSet(Firsts(d, i - 1)) /\ Cardinality(Firsts(d, i - 1)) = i - 1
      /\ Cardinality(Firsts(d, n)) = n
  <2>1. i \in 0..n /\ i - 1 \in 0..n /\ n \in 0..n
    OBVIOUS
  <2> QED BY <2>1, FirstsCounted DEF Tops
<1>2. Firsts(d, n) \in SUBSET X /\ d[i] \in X
  BY DEF Firsts, Tops
<1>3. n <= Cardinality(X)
  BY <1>1, <1>2, FS_Subset
<1>4. PICK v : v = f[d[i]]
  OBVIOUS
<1>5. v \in Int /\ \A c \in X : f[c] \in Int
  BY <1>2, <1>4 DEF IntsOn
<1>6. Firsts(d, i) \subseteq {c \in X : f[c] >= v}
  BY <1>4, <1>5 DEF Tops, Firsts
<1>7. {c \in X : f[c] > v} \subseteq Firsts(d, i - 1)
  <2> SUFFICES ASSUME NEW c \in X, f[c] > v PROVE c \in Firsts(d, i - 1)
    OBVIOUS
  <2>1. PICK j \in 1..n : d[j] = c
    BY <1>4, <1>5 DEF Tops
  <2>2. j < i
    <3>1. j # i
      BY <1>4, <1>5, <2>1
    <3>2. ~(i < j)
      BY <1>4, <1>5, <2>1 DEF Tops
    <3> QED BY <3>1, <3>2
  <2> QED BY <2>1, <2>2 DEF Firsts
<1>8. Cardinality({c \in X : f[c] >= v}) >= i
  <2>1. IsFiniteSet({c \in X : f[c] >= v})
    BY FS_Subset
  <2>2. i <= Cardinality({c \in X : f[c] >= v})
    BY <1>1, <1>6, <2>1, FS_Subset
  <2> QED BY <2>1, <2>2, FS_CardinalityType
<1>9. Cardinality({c \in X : f[c] > v}) < i
  <2>1. Cardinality({c \in X : f[c] > v}) <= i - 1
    BY <1>1, <1>7, FS_Subset
  <2>2. Cardinality({c \in X : f[c] > v}) \in Nat
    BY FS_Subset, FS_CardinalityType
  <2> QED BY <2>1, <2>2
<1> QED BY <1>2, <1>3, <1>4, <1>5, <1>8, <1>9 DEF Ith

\* n different cards, the higher before the lower.
Descends(d, n, X) ==
  /\ d \in [1..n -> X] /\ \A i, j \in 1..n : d[i] = d[j] => i = j
  /\ \A i, j \in 1..n : i < j => Value(d[i]) >= Value(d[j])

worth == [c \in EvalDeck |-> Value(c)]

\* Of enough cards so many can be laid out that they have the highest values in turn.
LEMMA NthIsDealt ==
  ASSUME NEW X \in SUBSET EvalDeck, NEW n \in 0..Cardinality(X)
  PROVE  \E d : /\ Descends(d, n, X)
                /\ \A i \in 1..n : /\ Nth(X, i) = Value(d[i]) /\ Nth(X, i) \in 2..14
                                   /\ Ith(X, worth, i, Nth(X, i))
<1>1. IsFiniteSet(X) /\ Cardinality(X) \in Nat /\ n \in Nat
  BY PartCounted
<1>2. \A c \in X : worth[c] = Value(c) /\ Value(c) \in 2..14 /\ Value(c) \in Int
  BY ValueIs DEF worth
<1>3. IntsOn(worth, X)
  BY <1>2 DEF IntsOn
<1>4. PICK d : Tops(d, n, X, worth)
  BY <1>1, <1>3, TopsExist
<1>5. Descends(d, n, X)
  BY <1>2, <1>4 DEF Tops, Descends
<1>6. ASSUME NEW i \in 1..n
      PROVE  Nth(X, i) = Value(d[i]) /\ Nth(X, i) \in 2..14 /\ Ith(X, worth, i, Nth(X, i))
  <2>1. d[i] \in X /\ Ith(X, worth, i, worth[d[i]])
    BY <1>1, <1>3, <1>4, TopIsIth
  <2>2. \A v \in Int : /\ {c \in X : worth[c] > v} = {c \in X : Value(c) > v}
                       /\ {c \in X : worth[c] >= v} = {c \in X : Value(c) >= v}
    BY <1>2
  <2>3. Values(X) \subseteq Int
    BY <1>2 DEF Values
  <2>4. \A v \in Values(X) : Ith(X, worth, i, v) <=>
          /\ Cardinality({c \in X : Value(c) > v}) < i
          /\ Cardinality({c \in X : Value(c) >= v}) >= i
    BY <2>2, <2>3 DEF Ith
  <2>5. Value(d[i]) \in Values(X) /\ Ith(X, worth, i, Value(d[i]))
    BY <1>2, <2>1 DEF Values
  <2>6. Nth(X, i) \in Values(X) /\ Ith(X, worth, i, Nth(X, i))
    BY <2>4, <2>5 DEF Nth
  <2>7. Nth(X, i) = Value(d[i])
    BY <1>1, <1>3, <2>3, <2>5, <2>6, IthIsOne
  <2> QED BY <1>2, <2>1, <2>6, <2>7
<1> QED BY <1>5, <1>6

\* Cards laid out in turn are no higher than the highest in turn.
LEMMA NthIsHighest ==
  ASSUME NEW X \in SUBSET EvalDeck, NEW n \in Nat, NEW g, Descends(g, n, X)
  PROVE  n <= Cardinality(X) /\ \A i \in 1..n : Value(g[i]) <= Nth(X, i)
<1>1. /\ \A i \in 0..n : IsFiniteSet(Firsts(g, i)) /\ Cardinality(Firsts(g, i)) = i
      /\ \A i \in 0..n : Firsts(g, i) \subseteq X
  BY FirstsCounted DEF Descends, Firsts
<1>2. n <= Cardinality(X) /\ Cardinality(X) \in Nat /\ IsFiniteSet(X)
  <2>1. n \in 0..n
    OBVIOUS
  <2> QED BY <1>1, <2>1, PartCounted
<1>3. ASSUME NEW i \in 1..n, ~(Value(g[i]) <= Nth(X, i)) PROVE FALSE
  <2>1. Nth(X, i) \in 2..14 /\ Ith(X, worth, i, Nth(X, i))
    <3>1. n \in 0..Cardinality(X)
      BY <1>2
    <3> QED BY <3>1, NthIsDealt
  <2>2. PICK v : v = Nth(X, i)
    OBVIOUS
  <2>3. v \in Int /\ Value(g[i]) > v
    BY <1>3, <2>1, <2>2, ValueIs DEF Descends
  <2>4. \A j \in 1..i : g[j] \in X /\ worth[g[j]] = Value(g[j]) /\ Value(g[j]) >= Value(g[i])
                        /\ Value(g[j]) \in Int
    BY ValueIs DEF Descends, worth
  <2>5. Value(g[i]) \in Int
    BY ValueIs DEF Descends
  <2>6. Firsts(g, i) \subseteq {c \in X : worth[c] > v}
    BY <2>3, <2>4, <2>5 DEF Firsts
  <2>7. i <= Cardinality({c \in X : worth[c] > v})
    <3>1. IsFiniteSet({c \in X : worth[c] > v}) /\ i \in 0..n
      BY <1>2, FS_Subset
    <3> QED BY <1>1, <2>6, <3>1, FS_Subset
  <2>8. Cardinality({c \in X : worth[c] > v}) \in Nat
    BY <1>2, FS_Subset, FS_CardinalityType
  <2> QED BY <2>1, <2>2, <2>7, <2>8 DEF Ith
<1> QED BY <1>2, <1>3

-----------------------------------------------------------------------------
(* The evaluator: five cards *)

Five(d) == d \in [1..5 -> EvalDeck] /\ \A i, j \in 1..5 : d[i] = d[j] => i = j

\* What a card counts among some cards.
One(yes) == IF yes THEN 1 ELSE 0

\* A part of five cards counts those of the five that are in it.
LEMMA FiveCounted ==
  ASSUME NEW d, Five(d)
  PROVE  /\ Firsts(d, 5) \in kSubset(5, EvalDeck) /\ Firsts(d, 5) \in SUBSET EvalDeck
         /\ \A S \in SUBSET Firsts(d, 5) :
              Cardinality(S) = One(d[1] \in S) + One(d[2] \in S) + One(d[3] \in S)
                               + One(d[4] \in S) + One(d[5] \in S)
<1>1. PICK a, b, c, x, y : a = d[1] /\ b = d[2] /\ c = d[3] /\ x = d[4] /\ y = d[5]
  OBVIOUS
<1>2. /\ a # b /\ a # c /\ a # x /\ a # y /\ b # c /\ b # x /\ b # y /\ c # x /\ c # y /\ x # y
      /\ a \in EvalDeck /\ b \in EvalDeck /\ c \in EvalDeck /\ x \in EvalDeck /\ y \in EvalDeck
  BY <1>1 DEF Five
<1>3. Firsts(d, 5) = {a, b, c, x, y}
  <2>1. 1..5 = {1, 2, 3, 4, 5}
    OBVIOUS
  <2> QED BY <1>1, <2>1 DEF Firsts
<1>4. IsFiniteSet(Firsts(d, 5)) /\ Cardinality(Firsts(d, 5)) = 5
  <2>1. 5 \in 0..5
    OBVIOUS
  <2> QED BY <2>1, FirstsCounted DEF Five
<1>5. Firsts(d, 5) \in SUBSET EvalDeck
  BY <1>2, <1>3
<1>6. ASSUME NEW S \in SUBSET Firsts(d, 5)
      PROVE  Cardinality(S) = One(a \in S) + One(b \in S) + One(c \in S) + One(x \in S) + One(y \in S)
  <2>1. IsFiniteSet(S)
    BY <1>4, FS_Subset
  <2>2. PICK S1, S2, S3, S4, S5 : /\ S1 = S \ {a} /\ S2 = S1 \ {b} /\ S3 = S2 \ {c} /\ S4 = S3 \ {x}
                                  /\ S5 = S4 \ {y}
    OBVIOUS
  <2>3. Cardinality(S) = Cardinality(S1) + One(a \in S) /\ IsFiniteSet(S1)
    BY <2>1, <2>2, CardCounts DEF One
  <2>4. Cardinality(S1) = Cardinality(S2) + One(b \in S1) /\ IsFiniteSet(S2)
    BY <2>2, <2>3, CardCounts DEF One
  <2>5. Cardinality(S2) = Cardinality(S3) + One(c \in S2) /\ IsFiniteSet(S3)
    BY <2>2, <2>4, CardCounts DEF One
  <2>6. Cardinality(S3) = Cardinality(S4) + One(x \in S3) /\ IsFiniteSet(S4)
    BY <2>2, <2>5, CardCounts DEF One
  <2>7. Cardinality(S4) = Cardinality(S5) + One(y \in S4)
    BY <2>2, <2>6, CardCounts DEF One
  <2>8. S5 = {}
    BY <1>3, <2>2
  <2>9. Cardinality(S5) = 0
    BY <2>8, FS_EmptySet
  <2>10. /\ (b \in S1 <=> b \in S) /\ (c \in S2 <=> c \in S) /\ (x \in S3 <=> x \in S)
         /\ (y \in S4 <=> y \in S)
    BY <1>2, <2>2
  <2> QED BY <2>3, <2>4, <2>5, <2>6, <2>7, <2>9, <2>10 DEF One
<1>7. Firsts(d, 5) \in kSubset(5, EvalDeck)
  BY <1>4, <1>5 DEF kSubset
<1> QED BY <1>1, <1>5, <1>6, <1>7

\* How many cards of a value there are among five.
LEMMA FiveCount ==
  ASSUME NEW d, Five(d), NEW v
  PROVE  Count(Firsts(d, 5), v) = One(Value(d[1]) = v) + One(Value(d[2]) = v) + One(Value(d[3]) = v)
                                  + One(Value(d[4]) = v) + One(Value(d[5]) = v)
<1>1. PICK S : S = {c \in Firsts(d, 5) : Value(c) = v}
  OBVIOUS
<1>2. \A i \in 1..5 : d[i] \in S <=> Value(d[i]) = v
  BY <1>1 DEF Firsts
<1>3. /\ (d[1] \in S <=> Value(d[1]) = v) /\ (d[2] \in S <=> Value(d[2]) = v)
      /\ (d[3] \in S <=> Value(d[3]) = v) /\ (d[4] \in S <=> Value(d[4]) = v)
      /\ (d[5] \in S <=> Value(d[5]) = v)
  BY <1>2
<1>4. Cardinality(S) = One(d[1] \in S) + One(d[2] \in S) + One(d[3] \in S)
                       + One(d[4] \in S) + One(d[5] \in S)
  BY <1>1, FiveCounted
<1> QED BY <1>1, <1>3, <1>4 DEF Count, One

Weight(five, c) == 100 * Count(five, Value(c)) + Value(c)

\* Five cards in turn of their weights are grouped as they lie.
LEMMA GroupedIs ==
  ASSUME NEW d, Five(d),
         \A i, j \in 1..5 : i < j => Weight(Firsts(d, 5), d[i]) >= Weight(Firsts(d, 5), d[j])
  PROVE  Grouped(Firsts(d, 5)) = [i \in 1..5 |-> Value(d[i])]
<1>1. PICK F : F = Firsts(d, 5)
  OBVIOUS
<1>2. PICK f : f = [c \in F |-> Weight(F, c)]
  OBVIOUS
<1>3. /\ F \in SUBSET EvalDeck /\ IsFiniteSet(F) /\ \A i \in 1..5 : d[i] \in F
      /\ \A c \in F : \E i \in 1..5 : d[i] = c
  <2>1. F \in SUBSET EvalDeck
    BY <1>1, FiveCounted
  <2> QED BY <1>1, <2>1, PartCounted DEF Firsts
<1>4. \A c \in F : /\ f[c] = 100 * Count(F, Value(c)) + Value(c) /\ Value(c) \in 2..14
                   /\ Count(F, Value(c)) \in Nat /\ f[c] \in Nat
  <2>1. \A v : Count(F, v) \in Nat
    BY <1>3, PartCounted DEF Count
  <2>2. \A c \in F : Value(c) \in 2..14
    BY <1>3, ValueIs
  <2> QED BY <1>2, <2>1, <2>2 DEF Weight
<1>5. IntsOn(f, F)
  BY <1>4 DEF IntsOn
<1>6. Tops(d, 5, F, f)
  <2>1. d \in [1..5 -> F]
    BY <1>3 DEF Five
  <2>2. \A i, j \in 1..5 : i < j => f[d[i]] >= f[d[j]]
    BY <1>1, <1>2, <1>3
  <2> QED BY <1>3, <2>1, <2>2 DEF Tops, Five
<1> DEFINE weight(c) == 100 * Count(F, Value(c)) + Value(c)
           heaviest(i) == CHOOSE w \in {weight(c) : c \in F} :
                            /\ Cardinality({c \in F : weight(c) > w}) < i
                            /\ Cardinality({c \in F : weight(c) >= w}) >= i
<1>7. ASSUME NEW i \in 1..5 PROVE heaviest(i) % 100 = Value(d[i])
  <2>1. d[i] \in F /\ f[d[i]] \in Int /\ Ith(F, f, i, f[d[i]])
    BY <1>3, <1>5, <1>6, TopIsIth
  <2>2. \A c \in F : weight(c) = f[c]
    BY <1>4
  <2> HIDE DEF weight
  <2>3. \A w : /\ {c \in F : f[c] > w} = {c \in F : weight(c) > w}
               /\ {c \in F : f[c] >= w} = {c \in F : weight(c) >= w}
    BY <2>2
  <2>4. \A w : Ith(F, f, i, w) <=> /\ Cardinality({c \in F : weight(c) > w}) < i
                                   /\ Cardinality({c \in F : weight(c) >= w}) >= i
    BY <2>3 DEF Ith
  <2>5. weight(d[i]) = f[d[i]] /\ f[d[i]] \in {weight(c) : c \in F}
    BY <2>1, <2>2
  <2>6. heaviest(i) \in {weight(c) : c \in F} /\ Ith(F, f, i, heaviest(i))
    BY <2>1, <2>4, <2>5
  <2>7. heaviest(i) \in Int
    <3> HIDE DEF heaviest
    <3> QED BY <1>4, <2>2, <2>6
  <2> HIDE DEF heaviest
  <2>8. heaviest(i) = f[d[i]]
    BY <1>3, <1>5, <2>1, <2>6, <2>7, IthIsOne
  <2>9. PICK k \in Nat, v \in 2..14 : f[d[i]] = 100 * k + v /\ v = Value(d[i])
    BY <1>4, <2>1
  <2>10. (100 * k + v) % 100 = v
    BY <2>9
  <2> QED BY <2>8, <2>9, <2>10
<1>8. Grouped(F) = [i \in 1..5 |-> heaviest(i) % 100]
  BY Zenon DEF Grouped
<1> HIDE DEF heaviest
<1> QED BY <1>1, <1>7, <1>8

\* A member more counts one, unless it was there.
LEMMA OneMore ==
  ASSUME NEW S, IsFiniteSet(S), NEW x
  PROVE  /\ IsFiniteSet(S \cup {x}) /\ Cardinality(S) \in Nat
         /\ Cardinality(S \cup {x}) = Cardinality(S) + One(x \notin S)
<1>1. Cardinality(S) \in Nat
  BY FS_CardinalityType
<1> QED BY <1>1, FS_AddElement DEF One

\* How many different things five are.
Different(a, b, c, x, y) ==
  1 + One(b # a) + One(c \notin {a, b}) + One(x \notin {a, b, c}) + One(y \notin {a, b, c, x})

These(a, b, c, x, y) == {a, b, c, x, y}

\* Five things count as many as are different.
LEMMA DifferentCounted ==
  ASSUME NEW a, NEW b, NEW c, NEW x, NEW y
  PROVE  Cardinality(These(a, b, c, x, y)) = Different(a, b, c, x, y)
<1>1. IsFiniteSet({a}) /\ Cardinality({a}) = 1
  BY FS_Singleton
<1>2. PICK S2, S3, S4, S5 : /\ S2 = {a} \cup {b} /\ S3 = S2 \cup {c} /\ S4 = S3 \cup {x}
                            /\ S5 = S4 \cup {y}
  OBVIOUS
<1>3. IsFiniteSet(S2) /\ Cardinality(S2) = 1 + One(b # a)
  <2>1. Cardinality({a} \cup {b}) = Cardinality({a}) + One(b \notin {a}) /\ IsFiniteSet({a} \cup {b})
    BY <1>1, OneMore
  <2> QED BY <1>1, <1>2, <2>1 DEF One
<1>4. IsFiniteSet(S3) /\ Cardinality(S3) = Cardinality(S2) + One(c \notin S2) /\ Cardinality(S2) \in Nat
  BY <1>2, <1>3, OneMore
<1>5. IsFiniteSet(S4) /\ Cardinality(S4) = Cardinality(S3) + One(x \notin S3) /\ Cardinality(S3) \in Nat
  BY <1>2, <1>4, OneMore
<1>6. Cardinality(S5) = Cardinality(S4) + One(y \notin S4) /\ Cardinality(S4) \in Nat
  BY <1>2, <1>5, OneMore
<1>7. S2 = {a, b} /\ S3 = {a, b, c} /\ S4 = {a, b, c, x} /\ S5 = {a, b, c, x, y}
  BY <1>2
<1> QED BY <1>3, <1>4, <1>5, <1>6, <1>7 DEF Different, These

\* Sequences with as many members agree where their members do; one behind the other.
LEMMA Sixes ==
  ASSUME NEW s \in Seq(Int), Len(s) = 6
  PROVE  s = <<s[1], s[2], s[3], s[4], s[5], s[6]>>
<1>1. DOMAIN s = 1..6 /\ s = [i \in 1..6 |-> s[i]]
  OBVIOUS
<1>2. PICK t : t = <<s[1], s[2], s[3], s[4], s[5], s[6]>>
  OBVIOUS
<1>3. /\ t \in Seq(Int) /\ Len(t) = 6
      /\ t[1] = s[1] /\ t[2] = s[2] /\ t[3] = s[3] /\ t[4] = s[4] /\ t[5] = s[5] /\ t[6] = s[6]
  <2>1. s[1] \in Int /\ s[2] \in Int /\ s[3] \in Int /\ s[4] \in Int /\ s[5] \in Int /\ s[6] \in Int
    <3>1. \A i \in 1..Len(s) : s[i] \in Int
      BY ElementOfSeq
    <3>2. 1 \in 1..6 /\ 2 \in 1..6 /\ 3 \in 1..6 /\ 4 \in 1..6 /\ 5 \in 1..6 /\ 6 \in 1..6
      OBVIOUS
    <3> QED BY <3>1, <3>2
  <2> QED BY <1>2, <2>1
<1>4. \A i \in 1..6 : i = 1 \/ i = 2 \/ i = 3 \/ i = 4 \/ i = 5 \/ i = 6
  OBVIOUS
<1>5. \A i \in 1..6 : s[i] = t[i]
  BY <1>3, <1>4
<1>6. t = [i \in 1..6 |-> t[i]]
  BY <1>3
<1> QED BY <1>1, <1>2, <1>5, <1>6

\* Where the members of two sequences are when one follows the other.
LEMMA Behind ==
  ASSUME NEW s \in Seq(Int), NEW t \in Seq(Int)
  PROVE  /\ s \o t \in Seq(Int) /\ Len(s \o t) = Len(s) + Len(t)
         /\ \A i \in 1..Len(s) : (s \o t)[i] = s[i]
         /\ \A i \in 1..Len(t) : (s \o t)[Len(s) + i] = t[i]
OBVIOUS

\* The classes as they are numbered, from the lowest.
LEMMA ClassValueIs ==
  /\ ClassValue("HighCard") = 1 /\ ClassValue("Pair") = 2 /\ ClassValue("TwoPair") = 3
  /\ ClassValue("ThreeOfAKind") = 4 /\ ClassValue("Straight") = 5 /\ ClassValue("Flush") = 6
  /\ ClassValue("FullHouse") = 7 /\ ClassValue("FourOfAKind") = 8 /\ ClassValue("StraightFlush") = 9
<1>1. Len(Classes) = 9 /\ 1..9 = {1, 2, 3, 4, 5, 6, 7, 8, 9}
  BY DEF Classes
<1>2. /\ Classes[1] = "HighCard" /\ Classes[2] = "Pair" /\ Classes[3] = "TwoPair"
      /\ Classes[4] = "ThreeOfAKind" /\ Classes[5] = "Straight" /\ Classes[6] = "Flush"
      /\ Classes[7] = "FullHouse" /\ Classes[8] = "FourOfAKind" /\ Classes[9] = "StraightFlush"
  BY DEF Classes
<1> QED BY <1>1, <1>2 DEF ClassValue

\* The kickers fill the places behind the class, and zeros what they leave.
LEMMA HandValueIs ==
  ASSUME NEW class, NEW k \in Int, ClassValue(class) = k, NEW s \in Seq(Int)
  PROVE  /\ Len(s) = 5 => HandValue(class, s) = <<k, s[1], s[2], s[3], s[4], s[5]>>
         /\ Len(s) = 5 => <<k>> \o s = <<k, s[1], s[2], s[3], s[4], s[5]>>
         /\ Len(s) = 1 => HandValue(class, s) = <<k, s[1], 0, 0, 0, 0>>
<1>1. PICK h : h = <<k>> \o s
  OBVIOUS
<1>2. PICK z : z = [i \in 1..(5 - Len(s)) |-> 0]
  OBVIOUS
<1>3. PICK t : t = h \o z
  OBVIOUS
<1>4. /\ h \in Seq(Int) /\ Len(h) = 1 + Len(s) /\ h[1] = k
      /\ \A i \in 1..Len(s) : h[1 + i] = s[i]
  <2>1. <<k>> \in Seq(Int) /\ Len(<<k>>) = 1 /\ <<k>>[1] = k /\ 1 \in 1..Len(<<k>>)
    OBVIOUS
  <2> QED BY <1>1, <2>1, Behind
<1>5. HandValue(class, s) = t
  BY <1>1, <1>2, <1>3 DEF HandValue
<1>6. CASE Len(s) = 5
  <2>1. h = <<h[1], h[2], h[3], h[4], h[5], h[6]>>
    BY <1>4, <1>6, Sixes
  <2>2. h[2] = s[1] /\ h[3] = s[2] /\ h[4] = s[3] /\ h[5] = s[4] /\ h[6] = s[5]
    BY <1>4, <1>6
  <2>3. h = <<k, s[1], s[2], s[3], s[4], s[5]>>
    BY <1>4, <2>1, <2>2
  <2>4. z = <<>>
    BY <1>2, <1>6
  <2>5. t = h
    BY <1>3, <1>4, <2>4
  <2>6. HandValue(class, s) = h /\ <<k>> \o s = h
    BY <1>1, <1>5, <2>5
  <2>7. ~(Len(s) = 1)
    BY <1>6
  <2> QED BY <2>3, <2>6, <2>7, Zenon
<1>7. CASE Len(s) = 1
  <2>1. z \in Seq(Int) /\ Len(z) = 4 /\ \A i \in 1..4 : z[i] = 0
    BY <1>2, <1>7
  <2>2. /\ t \in Seq(Int) /\ Len(t) = Len(h) + Len(z)
        /\ \A i \in 1..Len(h) : t[i] = h[i]
        /\ \A i \in 1..Len(z) : t[Len(h) + i] = z[i]
    BY <1>3, <1>4, <2>1, Behind
  <2>3. /\ t \in Seq(Int) /\ Len(t) = 6
        /\ \A i \in 1..2 : t[i] = h[i]
        /\ \A i \in 1..4 : t[2 + i] = z[i]
    <3>1. Len(h) = 2 /\ Len(z) = 4
      BY <1>4, <1>7, <2>1
    <3>2. Len(t) = 2 + 4 /\ \A i \in 1..4 : t[2 + i] = z[i]
      BY <2>2, <3>1, Zenon
    <3>3. \A i \in 1..2 : t[i] = h[i]
      BY <2>2, <3>1
    <3>4. t \in Seq(Int) /\ 2 + 4 = 6
      BY <2>2
    <3> QED BY <3>2, <3>3, <3>4
  <2>4. t[1] = k /\ t[2] = s[1] /\ t[3] = 0 /\ t[4] = 0 /\ t[5] = 0 /\ t[6] = 0
    <3>1. t[1] = h[1] /\ t[2] = h[2] /\ h[2] = s[1]
      BY <1>4, <1>7, <2>3
    <3>2. t[2 + 1] = z[1] /\ t[2 + 2] = z[2] /\ t[2 + 3] = z[3] /\ t[2 + 4] = z[4]
      BY <2>3
    <3> QED BY <1>4, <2>1, <3>1, <3>2
  <2> QED BY <1>5, <1>7, <2>3, <2>4, Sixes
<1> QED BY <1>6, <1>7

\* The same, with the class as it is numbered.
LEMMA HandValueOf ==
  ASSUME NEW class, ClassValue(class) \in Int, NEW s \in Seq(Int)
  PROVE  /\ Len(s) = 5 => HandValue(class, s) = <<ClassValue(class), s[1], s[2], s[3], s[4], s[5]>>
         /\ Len(s) = 1 => HandValue(class, s) = <<ClassValue(class), s[1], 0, 0, 0, 0>>
BY HandValueIs

-----------------------------------------------------------------------------
(* The evaluator: what five cards are worth at their face *)

OneSuit(d) == \A i \in 1..5 : d[i].suit = d[1].suit

\* Five values in descending order that follow one another; the ace may play low.
Follow(a, b, c, x, y) == a - y = 4 \/ (a = 14 /\ b = 5 /\ c = 4 /\ x = 3 /\ y = 2)

Falling(a, b, c, x, y) == a > b /\ b > c /\ c > x /\ x > y

\* How five cards lie that are of a class.
Shape(k, a, b, c, x, y, suited) ==
  \/ k = 8 /\ a = b /\ a = c /\ a = x /\ y # a
  \/ k = 7 /\ a = b /\ a = c /\ x = y /\ x # a
  \/ k = 4 /\ a = b /\ a = c /\ x # a /\ y # a /\ x > y
  \/ k = 3 /\ a = b /\ c = x /\ a > c /\ y # a /\ y # c
  \/ k = 2 /\ a = b /\ c # a /\ x # a /\ y # a /\ c > x /\ x > y
  \/ k = 1 /\ Falling(a, b, c, x, y) /\ ~Follow(a, b, c, x, y) /\ ~suited
  \/ k = 6 /\ Falling(a, b, c, x, y) /\ ~Follow(a, b, c, x, y) /\ suited
  \/ k = 5 /\ Falling(a, b, c, x, y) /\ Follow(a, b, c, x, y) /\ ~suited
  \/ k = 9 /\ Falling(a, b, c, x, y) /\ Follow(a, b, c, x, y) /\ suited

Shaped5(k, d) ==
  Shape(k, Value(d[1]), Value(d[2]), Value(d[3]), Value(d[4]), Value(d[5]), OneSuit(d))

\* The value of five cards that lie so.
FaceIs(k, d) ==
  LET a == Value(d[1])
  IN  IF k \in {5, 9} THEN <<k, IF a = 14 /\ Value(d[2]) = 5 THEN 5 ELSE a, 0, 0, 0, 0>>
      ELSE <<k, a, Value(d[2]), Value(d[3]), Value(d[4]), Value(d[5])>>

\* The greatest and the least of a set.
LEMMA MaxMinAre ==
  ASSUME NEW S, S \subseteq Int, NEW g \in S, NEW l \in S, \A v \in S : l <= v /\ v <= g
  PROVE  Max(S) = g /\ Min(S) = l
<1>1. Max(S) \in S /\ \A v \in S : Max(S) >= v
  BY DEF Max
<1>2. Min(S) \in S /\ \A v \in S : Min(S) <= v
  BY DEF Min
<1>3. Max(S) \in Int /\ Max(S) >= g /\ Max(S) <= g /\ g \in Int
  BY <1>1
<1>4. Min(S) \in Int /\ Min(S) <= l /\ Min(S) >= l /\ l \in Int
  BY <1>2
<1> QED BY <1>3, <1>4

\* What the face of five cards is read from.
FaceFacts(d, a, b, c, x, y) ==
  LET F == Firsts(d, 5)
      N(v) == One(a = v) + One(b = v) + One(c = v) + One(x = v) + One(y = v)
  IN  /\ a \in 2..14 /\ b \in 2..14 /\ c \in 2..14 /\ x \in 2..14 /\ y \in 2..14
      /\ Values(F) = {a, b, c, x, y} /\ \A v : Count(F, v) = N(v)
      /\ Cardinality(Values(F)) = Different(a, b, c, x, y)
      /\ Cardinality({z.suit : z \in F}) = 1 <=> OneSuit(d)
      /\ OneSuit(d) => Cardinality(Values(F)) = 5
      /\ N(a) <= 4 /\ N(b) <= 4 /\ N(c) <= 4 /\ N(x) <= 4 /\ N(y) <= 4

\* Five cards are such.
LEMMA FaceFactsHold ==
  ASSUME NEW d, Five(d)
  PROVE  FaceFacts(d, Value(d[1]), Value(d[2]), Value(d[3]), Value(d[4]), Value(d[5]))
<1> DEFINE F == Firsts(d, 5)
<1>1. PICK a, b, c, x, y : a = Value(d[1]) /\ b = Value(d[2]) /\ c = Value(d[3]) /\ x = Value(d[4])
                           /\ y = Value(d[5])
  OBVIOUS
<1>2. 1..5 = {1, 2, 3, 4, 5}
  OBVIOUS
<1>3. F = {d[1], d[2], d[3], d[4], d[5]}
  BY <1>2 DEF Firsts
<1>4. /\ d[1] \in EvalDeck /\ d[2] \in EvalDeck /\ d[3] \in EvalDeck /\ d[4] \in EvalDeck
      /\ d[5] \in EvalDeck
      /\ d[1] # d[2] /\ d[1] # d[3] /\ d[1] # d[4] /\ d[1] # d[5] /\ d[2] # d[3] /\ d[2] # d[4]
      /\ d[2] # d[5] /\ d[3] # d[4] /\ d[3] # d[5] /\ d[4] # d[5]
  BY DEF Five
<1>5. a \in 2..14 /\ b \in 2..14 /\ c \in 2..14 /\ x \in 2..14 /\ y \in 2..14
  BY <1>1, <1>4, ValueIs
<1>6. Values(F) = {a, b, c, x, y}
  BY <1>1, <1>3 DEF Values
<1>7. \A v : Count(F, v) = One(a = v) + One(b = v) + One(c = v) + One(x = v) + One(y = v)
  BY <1>1, FiveCount
<1>8. Cardinality(Values(F)) = Different(a, b, c, x, y)
  <2>1. Values(F) = These(a, b, c, x, y)
    BY <1>6 DEF These
  <2> QED BY <2>1, DifferentCounted
<1>9. PICK s, t, u, v, w : s = d[1].suit /\ t = d[2].suit /\ u = d[3].suit /\ v = d[4].suit
                           /\ w = d[5].suit
  OBVIOUS
<1>10. OneSuit(d) <=> t = s /\ u = s /\ v = s /\ w = s
  BY <1>2, <1>9 DEF OneSuit
<1>11. {z.suit : z \in F} = These(s, t, u, v, w)
  BY <1>3, <1>9 DEF These
<1>12. Cardinality(These(s, t, u, v, w)) = Different(s, t, u, v, w)
  BY DifferentCounted
<1>13. Cardinality({z.suit : z \in F}) = 1 <=> OneSuit(d)
  BY <1>10, <1>11, <1>12 DEF One, Different
<1>14. ASSUME OneSuit(d) PROVE Cardinality(Values(F)) = 5
  <2>1. /\ a # b /\ a # c /\ a # x /\ a # y /\ b # c /\ b # x /\ b # y /\ c # x /\ c # y /\ x # y
    BY <1>1, <1>4, <1>9, <1>10, <1>14, ValueIs
  <2> QED BY <1>8, <2>1 DEF One, Different
<1>15. ~(a = b /\ a = c /\ a = x /\ a = y)
  <2> SUFFICES ASSUME a = b, a = c, a = x, a = y PROVE FALSE
    OBVIOUS
  <2>1. /\ s # t /\ s # u /\ s # v /\ s # w /\ t # u /\ t # v /\ t # w /\ u # v /\ u # w /\ v # w
    BY <1>1, <1>4, <1>9, ValueIs
  <2>2. Cardinality(These(s, t, u, v, w)) = 5
    BY <1>12, <2>1 DEF One, Different
  <2>3. These(s, t, u, v, w) \subseteq {z.suit : z \in EvalDeck}
    BY <1>4, <1>9 DEF These
  <2>4. IsFiniteSet({z.suit : z \in EvalDeck})
    <3>1. PICK f : f = [z \in EvalDeck |-> z.suit]
      OBVIOUS
    <3>2. f \in Surjection(EvalDeck, {z.suit : z \in EvalDeck})
      BY <3>1 DEF Surjection
    <3> QED BY <3>2, EvaluatorAssumption, FS_Surjection
  <2>5. Cardinality({z.suit : z \in EvalDeck}) <= 4 /\ Cardinality({z.suit : z \in EvalDeck}) \in Nat
    BY <2>4, EvaluatorAssumption, FS_CardinalityType
  <2>6. Cardinality(These(s, t, u, v, w)) <= Cardinality({z.suit : z \in EvalDeck})
    BY <2>3, <2>4, FS_Subset
  <2> QED BY <2>2, <2>5, <2>6
<1>16. \A z \in {a, b, c, x, y} : One(a = z) + One(b = z) + One(c = z) + One(x = z) + One(y = z) <= 4
  BY <1>15 DEF One
<1> HIDE DEF F
<1>17. FaceFacts(d, a, b, c, x, y)
  BY <1>5, <1>6, <1>7, <1>8, <1>13, <1>14, <1>16 DEF FaceFacts, F
<1> QED BY <1>1, <1>17

\* Five cards that lie as those of a class are worth what they show.
LEMMA FaceOf ==
  ASSUME NEW d, Five(d), NEW k \in 1..9, Shaped5(k, d)
  PROVE  FiveCardValue(Firsts(d, 5)) = FaceIs(k, d)
<1>1. PICK a, b, c, x, y : a = Value(d[1]) /\ b = Value(d[2]) /\ c = Value(d[3]) /\ x = Value(d[4])
                           /\ y = Value(d[5])
  OBVIOUS
<1>2. PICK F : F = Firsts(d, 5)
  OBVIOUS
<1>3. PICK suited \in BOOLEAN : suited <=> OneSuit(d)
  OBVIOUS
<1>4. Shape(k, a, b, c, x, y, suited)
  BY <1>1, <1>3 DEF Shaped5, Shape
<1>5. FaceFacts(d, a, b, c, x, y)
  BY <1>1, FaceFactsHold
<1> DEFINE N(v) == One(a = v) + One(b = v) + One(c = v) + One(x = v) + One(y = v)
           vs == Values(F)
           flush == Cardinality({z.suit : z \in F}) = 1
           high == IF vs = wheel THEN 5 ELSE Max(vs)
           straight == Cardinality(vs) = 5 /\ (vs = wheel \/ Max(vs) - Min(vs) = 4)
           as(class) == <<ClassValue(class)>> \o Grouped(F)
<1>6. /\ a \in 2..14 /\ b \in 2..14 /\ c \in 2..14 /\ x \in 2..14 /\ y \in 2..14
      /\ vs = {a, b, c, x, y} /\ \A v : Count(F, v) = N(v)
      /\ Cardinality(vs) = Different(a, b, c, x, y)
      /\ (flush <=> suited) /\ (suited => Cardinality(vs) = 5)
  BY <1>2, <1>3, <1>5 DEF FaceFacts
<1>7. FiveCardValue(F) =
        CASE straight /\ flush              -> HandValue("StraightFlush", <<high>>)
          [] straight /\ ~flush             -> HandValue("Straight", <<high>>)
          [] flush /\ ~straight             -> as("Flush")
          [] Shaped(F, 4, 1)                -> as("FourOfAKind")
          [] Shaped(F, 3, 2)                -> as("FullHouse")
          [] Cardinality(vs) = 3 /\ Shaped(F, 3, 1) -> as("ThreeOfAKind")
          [] Shaped(F, 2, 2)                -> as("TwoPair")
          [] Cardinality(vs) = 4            -> as("Pair")
          [] Cardinality(vs) = 5 /\ ~flush /\ ~straight -> as("HighCard")
  BY Zenon DEF FiveCardValue
<1>8. \A n, m \in Nat : Shaped(F, n, m) <=> \E v, w \in {a, b, c, x, y} : v # w /\ N(v) = n /\ N(w) = m
  BY <1>6 DEF Shaped
<1> HIDE DEF vs, flush, high, straight, as
<1>9. ASSUME \A i, j \in 1..5 : i < j => Weight(F, d[i]) >= Weight(F, d[j])
      PROVE  \A class : ClassValue(class) \in Int => as(class) = <<ClassValue(class), a, b, c, x, y>>
  <2>1. Grouped(F) = [i \in 1..5 |-> Value(d[i])]
    BY <1>2, <1>9, GroupedIs
  <2>2. PICK g : g = [i \in 1..5 |-> Value(d[i])]
    OBVIOUS
  <2>3. \A i \in 1..5 : Value(d[i]) \in Int
    BY ValueIs DEF Five
  <2>4. g \in Seq(Int) /\ Len(g) = 5
    BY <2>2, <2>3
  <2>5. g[1] = a /\ g[2] = b /\ g[3] = c /\ g[4] = x /\ g[5] = y
    BY <1>1, <2>2
  <2> SUFFICES ASSUME NEW class, ClassValue(class) \in Int
               PROVE  as(class) = <<ClassValue(class), a, b, c, x, y>>
    OBVIOUS
  <2>6. <<ClassValue(class)>> \o g = <<ClassValue(class), a, b, c, x, y>>
    BY <2>4, <2>5, HandValueIs
  <2> QED BY <2>1, <2>2, <2>6 DEF as
<1>10. \A i \in 1..5 : \/ i = 1 /\ Weight(F, d[i]) = 100 * N(a) + a
                       \/ i = 2 /\ Weight(F, d[i]) = 100 * N(b) + b
                       \/ i = 3 /\ Weight(F, d[i]) = 100 * N(c) + c
                       \/ i = 4 /\ Weight(F, d[i]) = 100 * N(x) + x
                       \/ i = 5 /\ Weight(F, d[i]) = 100 * N(y) + y
  <2>1. \A i \in 1..5 : i = 1 \/ i = 2 \/ i = 3 \/ i = 4 \/ i = 5
    OBVIOUS
  <2> QED BY <1>1, <1>6, <2>1 DEF Weight
<1> HIDE DEF N
<1>11. ASSUME /\ 100 * N(a) + a >= 100 * N(b) + b /\ 100 * N(b) + b >= 100 * N(c) + c
              /\ 100 * N(c) + c >= 100 * N(x) + x /\ 100 * N(x) + x >= 100 * N(y) + y
       PROVE  /\ as("FourOfAKind") = <<8, a, b, c, x, y>> /\ as("FullHouse") = <<7, a, b, c, x, y>>
              /\ as("Flush") = <<6, a, b, c, x, y>> /\ as("ThreeOfAKind") = <<4, a, b, c, x, y>>
              /\ as("TwoPair") = <<3, a, b, c, x, y>> /\ as("Pair") = <<2, a, b, c, x, y>>
              /\ as("HighCard") = <<1, a, b, c, x, y>>
  <2>1. \A v : N(v) \in Int
    BY DEF N, One
  <2>2. \A i, j \in 1..5 : i < j => Weight(F, d[i]) >= Weight(F, d[j])
    BY <1>6, <1>10, <1>11, <2>1
  <2>3. ASSUME NEW class, NEW n \in 1..9, ClassValue(class) = n PROVE as(class) = <<n, a, b, c, x, y>>
    <3>1. n \in Int
      OBVIOUS
    <3>2. as(class) = <<ClassValue(class), a, b, c, x, y>>
      BY <1>9, <2>2, <2>3, <3>1
    <3> QED BY <2>3, <3>2
  <2>4. 1 \in 1..9 /\ 2 \in 1..9 /\ 3 \in 1..9 /\ 4 \in 1..9 /\ 6 \in 1..9 /\ 7 \in 1..9 /\ 8 \in 1..9
    OBVIOUS
  <2> QED BY <2>3, <2>4, ClassValueIs, Zenon
<1>12. /\ k \notin {5, 9} => FaceIs(k, d) = <<k, a, b, c, x, y>>
       /\ k \in {5, 9} => FaceIs(k, d) = <<k, IF a = 14 /\ b = 5 THEN 5 ELSE a, 0, 0, 0, 0>>
  BY <1>1 DEF FaceIs
<1>13. CASE k = 8
  <2>1. a = b /\ a = c /\ a = x /\ y # a
    BY <1>4, <1>13 DEF Shape
  <2>2. \A v : N(v) = IF v = a THEN 4 ELSE IF v = y THEN 1 ELSE 0
    BY <1>6, <2>1 DEF N, One
  <2>3. Cardinality(vs) = 2
    BY <1>6, <2>1 DEF Different, One
  <2>4. ~straight /\ ~flush
    BY <1>6, <2>3 DEF straight
  <2>5. Shaped(F, 4, 1)
    <3>1. N(a) = 4 /\ N(y) = 1 /\ a # y
      BY <2>1, <2>2
    <3> QED BY <1>8, <3>1
  <2>6. ~Shaped(F, 3, 2)
    <3>1. \A v : N(v) # 3
      BY <2>2
    <3> QED BY <1>8, <3>1
  <2>7. ~Shaped(F, 3, 1)
    <3>1. \A v : N(v) # 3
      BY <2>2
    <3> QED BY <1>8, <3>1
  <2>8. ~Shaped(F, 2, 2)
    <3>1. \A v : N(v) # 2
      BY <2>2
    <3> QED BY <1>8, <3>1
  <2>9. as("FourOfAKind") = <<k, a, b, c, x, y>>
    <3>1. /\ 100 * N(a) + a >= 100 * N(b) + b /\ 100 * N(b) + b >= 100 * N(c) + c
          /\ 100 * N(c) + c >= 100 * N(x) + x /\ 100 * N(x) + x >= 100 * N(y) + y
      BY <1>6, <2>1, <2>2
    <3> QED BY <1>11, <1>13, <3>1
  <2>10. FiveCardValue(F) = as("FourOfAKind")
    BY <1>7, <2>3, <2>4, <2>5, <2>6, <2>7, <2>8
  <2>11. k \notin {5, 9}
    BY <1>13
  <2> QED BY <1>2, <1>12, <2>9, <2>10, <2>11, Zenon
<1>14. CASE k = 7
  <2>1. a = b /\ a = c /\ x = y /\ x # a
    BY <1>4, <1>14 DEF Shape
  <2>2. \A v : N(v) = IF v = a THEN 3 ELSE IF v = x THEN 2 ELSE 0
    BY <1>6, <2>1 DEF N, One
  <2>3. Cardinality(vs) = 2
    BY <1>6, <2>1 DEF Different, One
  <2>4. ~straight /\ ~flush
    BY <1>6, <2>3 DEF straight
  <2>5. ~Shaped(F, 4, 1)
    <3>1. \A v : N(v) # 4
      BY <2>2
    <3> QED BY <1>8, <3>1
  <2>6. Shaped(F, 3, 2)
    <3>1. N(a) = 3 /\ N(x) = 2 /\ a # x
      BY <2>1, <2>2
    <3> QED BY <1>8, <3>1
  <2>7. ~Shaped(F, 3, 1)
    <3>1. \A v : N(v) # 1
      BY <2>2
    <3> QED BY <1>8, <3>1
  <2>8. ~Shaped(F, 2, 2)
    BY <1>8, <2>1, <2>2
  <2>9. as("FullHouse") = <<k, a, b, c, x, y>>
    <3>1. /\ 100 * N(a) + a >= 100 * N(b) + b /\ 100 * N(b) + b >= 100 * N(c) + c
          /\ 100 * N(c) + c >= 100 * N(x) + x /\ 100 * N(x) + x >= 100 * N(y) + y
      BY <1>6, <2>1, <2>2
    <3> QED BY <1>11, <1>14, <3>1
  <2>10. FiveCardValue(F) = as("FullHouse")
    BY <1>7, <2>3, <2>4, <2>5, <2>6, <2>7, <2>8
  <2>11. k \notin {5, 9}
    BY <1>14
  <2> QED BY <1>2, <1>12, <2>9, <2>10, <2>11, Zenon
<1>15. CASE k = 4
  <2>1. a = b /\ a = c /\ x # a /\ y # a /\ x > y
    BY <1>4, <1>15 DEF Shape
  <2>2. \A v : N(v) = IF v = a THEN 3 ELSE IF v = x \/ v = y THEN 1 ELSE 0
    BY <1>6, <2>1 DEF N, One
  <2>3. Cardinality(vs) = 3
    BY <1>6, <2>1 DEF Different, One
  <2>4. ~straight /\ ~flush
    BY <1>6, <2>3 DEF straight
  <2>5. ~Shaped(F, 4, 1)
    <3>1. \A v : N(v) # 4
      BY <2>2
    <3> QED BY <1>8, <3>1
  <2>6. ~Shaped(F, 3, 2)
    <3>1. \A v : N(v) # 2
      BY <2>2
    <3> QED BY <1>8, <3>1
  <2>7. Shaped(F, 3, 1)
    <3>1. N(a) = 3 /\ N(x) = 1 /\ a # x
      BY <2>1, <2>2
    <3> QED BY <1>8, <3>1
  <2>8. ~Shaped(F, 2, 2)
    <3>1. \A v : N(v) # 2
      BY <2>2
    <3> QED BY <1>8, <3>1
  <2>9. as("ThreeOfAKind") = <<k, a, b, c, x, y>>
    <3>1. /\ 100 * N(a) + a >= 100 * N(b) + b /\ 100 * N(b) + b >= 100 * N(c) + c
          /\ 100 * N(c) + c >= 100 * N(x) + x /\ 100 * N(x) + x >= 100 * N(y) + y
      BY <1>6, <2>1, <2>2
    <3> QED BY <1>11, <1>15, <3>1
  <2>10. FiveCardValue(F) = as("ThreeOfAKind")
    BY <1>7, <2>3, <2>4, <2>5, <2>6, <2>7, <2>8
  <2>11. k \notin {5, 9}
    BY <1>15
  <2> QED BY <1>2, <1>12, <2>9, <2>10, <2>11, Zenon
<1>16. CASE k = 3
  <2>1. a = b /\ c = x /\ a > c /\ y # a /\ y # c
    BY <1>4, <1>16 DEF Shape
  <2>2. \A v : N(v) = IF v = a \/ v = c THEN 2 ELSE IF v = y THEN 1 ELSE 0
    BY <1>6, <2>1 DEF N, One
  <2>3. Cardinality(vs) = 3
    BY <1>6, <2>1 DEF Different, One
  <2>4. ~straight /\ ~flush
    BY <1>6, <2>3 DEF straight
  <2>5. ~Shaped(F, 4, 1)
    <3>1. \A v : N(v) # 4
      BY <2>2
    <3> QED BY <1>8, <3>1
  <2>6. ~Shaped(F, 3, 2)
    <3>1. \A v : N(v) # 3
      BY <2>2
    <3> QED BY <1>8, <3>1
  <2>7. ~Shaped(F, 3, 1)
    <3>1. \A v : N(v) # 3
      BY <2>2
    <3> QED BY <1>8, <3>1
  <2>8. Shaped(F, 2, 2)
    <3>1. N(a) = 2 /\ N(c) = 2 /\ a # c
      BY <1>6, <2>1, <2>2
    <3> QED BY <1>8, <3>1
  <2>9. as("TwoPair") = <<k, a, b, c, x, y>>
    <3>1. /\ 100 * N(a) + a >= 100 * N(b) + b /\ 100 * N(b) + b >= 100 * N(c) + c
          /\ 100 * N(c) + c >= 100 * N(x) + x /\ 100 * N(x) + x >= 100 * N(y) + y
      BY <1>6, <2>1, <2>2
    <3> QED BY <1>11, <1>16, <3>1
  <2>10. FiveCardValue(F) = as("TwoPair")
    BY <1>7, <2>3, <2>4, <2>5, <2>6, <2>7, <2>8
  <2>11. k \notin {5, 9}
    BY <1>16
  <2> QED BY <1>2, <1>12, <2>9, <2>10, <2>11, Zenon
<1>17. CASE k = 2
  <2>1. a = b /\ c # a /\ x # a /\ y # a /\ c > x /\ x > y
    BY <1>4, <1>17 DEF Shape
  <2>2. \A v : N(v) = IF v = a THEN 2 ELSE IF v = c \/ v = x \/ v = y THEN 1 ELSE 0
    BY <1>6, <2>1 DEF N, One
  <2>3. Cardinality(vs) = 4
    BY <1>6, <2>1 DEF Different, One
  <2>4. ~straight /\ ~flush
    BY <1>6, <2>3 DEF straight
  <2>5. ~Shaped(F, 4, 1)
    <3>1. \A v : N(v) # 4
      BY <2>2
    <3> QED BY <1>8, <3>1
  <2>6. ~Shaped(F, 3, 2)
    <3>1. \A v : N(v) # 3
      BY <2>2
    <3> QED BY <1>8, <3>1
  <2>7. ~Shaped(F, 3, 1)
    <3>1. \A v : N(v) # 3
      BY <2>2
    <3> QED BY <1>8, <3>1
  <2>8. ~Shaped(F, 2, 2)
    BY <1>8, <2>1, <2>2
  <2>9. as("Pair") = <<k, a, b, c, x, y>>
    <3>1. /\ 100 * N(a) + a >= 100 * N(b) + b /\ 100 * N(b) + b >= 100 * N(c) + c
          /\ 100 * N(c) + c >= 100 * N(x) + x /\ 100 * N(x) + x >= 100 * N(y) + y
      BY <1>6, <2>1, <2>2
    <3> QED BY <1>11, <1>17, <3>1
  <2>10. FiveCardValue(F) = as("Pair")
    BY <1>7, <2>3, <2>4, <2>5, <2>6, <2>7, <2>8
  <2>11. k \notin {5, 9}
    BY <1>17
  <2> QED BY <1>2, <1>12, <2>9, <2>10, <2>11, Zenon
<1>18. CASE k \in {1, 6, 5, 9}
  <2>1. /\ Falling(a, b, c, x, y) /\ (k \in {5, 9} <=> Follow(a, b, c, x, y))
        /\ (k \in {6, 9} <=> suited)
    BY <1>4, <1>18 DEF Shape
  <2>2. \A v : N(v) = IF v \in {a, b, c, x, y} THEN 1 ELSE 0
    BY <1>6, <2>1 DEF N, One, Falling
  <2>3. Cardinality(vs) = 5
    BY <1>6, <2>1 DEF Different, One, Falling
  <2>4. Max(vs) = a /\ Min(vs) = y
    <3>1. vs \subseteq Int /\ a \in vs /\ y \in vs /\ \A v \in vs : y <= v /\ v <= a
      BY <1>6, <2>1 DEF Falling
    <3> QED BY <3>1, MaxMinAre
  <2>5. vs = wheel <=> a = 14 /\ b = 5 /\ c = 4 /\ x = 3 /\ y = 2
    BY <1>6, <2>1 DEF Falling, wheel
  <2>6. straight <=> Follow(a, b, c, x, y)
    BY <2>3, <2>4, <2>5 DEF straight, Follow
  <2>7. ~Shaped(F, 4, 1) /\ ~Shaped(F, 3, 2) /\ ~Shaped(F, 3, 1) /\ ~Shaped(F, 2, 2)
    <3>1. \A v : N(v) # 4 /\ N(v) # 3 /\ N(v) # 2
      BY <2>2
    <3> QED BY <1>8, <3>1
  <2>8. Follow(a, b, c, x, y) => high = IF a = 14 /\ b = 5 THEN 5 ELSE a
    BY <1>6, <2>1, <2>4, <2>5 DEF high, Follow, Falling
  <2>9. high \in Int
    BY <1>6, <2>4 DEF high
  <2>10. \A class, n : n \in Int /\ ClassValue(class) = n =>
           HandValue(class, <<high>>) = <<n, high, 0, 0, 0, 0>>
    <3>1. <<high>> \in Seq(Int) /\ Len(<<high>>) = 1 /\ <<high>>[1] = high
      BY <2>9
    <3> QED BY <3>1, HandValueIs
  <2>11. as("Flush") = <<6, a, b, c, x, y>> /\ as("HighCard") = <<1, a, b, c, x, y>>
    <3>1. /\ 100 * N(a) + a >= 100 * N(b) + b /\ 100 * N(b) + b >= 100 * N(c) + c
            /\ 100 * N(c) + c >= 100 * N(x) + x /\ 100 * N(x) + x >= 100 * N(y) + y
      BY <1>6, <2>1, <2>2 DEF Falling
    <3> QED BY <1>11, <3>1
  <2>12. CASE k = 9
    <3>1. straight /\ (flush <=> k = 9)
      BY <1>6, <2>1, <2>6, <2>12
    <3>2. FiveCardValue(F) = HandValue("StraightFlush", <<high>>)
      BY <1>7, <2>3, <2>7, <2>12, <3>1
    <3>3. HandValue("StraightFlush", <<high>>) = <<k, high, 0, 0, 0, 0>>
      BY <2>10, <2>12, ClassValueIs
    <3>4. FaceIs(k, d) = <<k, high, 0, 0, 0, 0>>
      BY <1>12, <2>1, <2>8, <2>12
    <3> QED BY <1>2, <3>2, <3>3, <3>4
  <2>13. CASE k = 5
    <3>1. straight /\ (flush <=> k = 9)
      BY <1>6, <2>1, <2>6, <2>13
    <3>2. FiveCardValue(F) = HandValue("Straight", <<high>>)
      BY <1>7, <2>3, <2>7, <2>13, <3>1
    <3>3. HandValue("Straight", <<high>>) = <<k, high, 0, 0, 0, 0>>
      BY <2>10, <2>13, ClassValueIs
    <3>4. FaceIs(k, d) = <<k, high, 0, 0, 0, 0>>
      BY <1>12, <2>1, <2>8, <2>13
    <3> QED BY <1>2, <3>2, <3>3, <3>4
  <2>14. CASE k = 6
    <3>1. ~straight /\ (flush <=> k = 6)
      BY <1>6, <2>1, <2>6, <2>14
    <3>2. FiveCardValue(F) = as("Flush")
      BY <1>7, <2>3, <2>7, <2>14, <3>1
    <3>3. as("Flush") = <<k, a, b, c, x, y>>
      BY <2>11, <2>14
    <3>4. k \notin {5, 9}
      BY <2>14
    <3> QED BY <1>2, <1>12, <3>2, <3>3, <3>4, Zenon
  <2>15. CASE k = 1
    <3>1. ~straight /\ (flush <=> k = 6)
      BY <1>6, <2>1, <2>6, <2>15
    <3>2. FiveCardValue(F) = as("HighCard")
      BY <1>7, <2>3, <2>7, <2>15, <3>1
    <3>3. as("HighCard") = <<k, a, b, c, x, y>>
      BY <2>11, <2>15
    <3>4. k \notin {5, 9}
      BY <2>15
    <3> QED BY <1>2, <1>12, <3>2, <3>3, <3>4, Zenon
  <2> QED BY <1>18, <2>12, <2>13, <2>14, <2>15
<1> QED BY <1>2, <1>13, <1>14, <1>15, <1>16, <1>17, <1>18

\* Any five cards lie, in turn of their weights, as those of one of the classes.
LEMMA FaceFound ==
  ASSUME NEW d, Five(d)
  PROVE  \E e : \E k \in 1..9 : Five(e) /\ Firsts(e, 5) = Firsts(d, 5) /\ Shaped5(k, e)
<1>1. PICK F : F = Firsts(d, 5)
  OBVIOUS
<1>2. PICK f : f = [c \in F |-> Weight(F, c)]
  OBVIOUS
<1>3. F \in SUBSET EvalDeck /\ IsFiniteSet(F) /\ Cardinality(F) = 5
  <2>1. F \in SUBSET EvalDeck /\ F \in kSubset(5, EvalDeck)
    BY <1>1, FiveCounted
  <2>2. Cardinality(F) = 5
    BY <2>1 DEF kSubset
  <2> QED BY <2>1, <2>2, PartCounted
<1>4. \A c \in F : f[c] = 100 * Count(F, Value(c)) + Value(c) /\ f[c] \in Int
  <2>1. \A v : Count(F, v) \in Nat
    BY <1>3, PartCounted DEF Count
  <2>2. \A c \in F : Value(c) \in 2..14
    BY <1>3, ValueIs
  <2> QED BY <1>2, <2>1, <2>2 DEF Weight
<1>5. PICK e : Tops(e, 5, F, f)
  <2>1. IntsOn(f, F) /\ 5 \in 0..Cardinality(F)
    BY <1>3, <1>4 DEF IntsOn
  <2> QED BY <1>3, <2>1, TopsExist
<1>6. Five(e)
  BY <1>3, <1>5 DEF Tops, Five
<1>7. Firsts(e, 5) = F
  <2>1. Firsts(e, 5) \in SUBSET F
    BY <1>5 DEF Tops, Firsts
  <2>2. Cardinality(Firsts(e, 5)) = 5
    BY <1>6, FiveCounted DEF kSubset
  <2> QED BY <1>3, <2>1, <2>2, FS_Subset
<1>8. PICK a, b, c, x, y : a = Value(e[1]) /\ b = Value(e[2]) /\ c = Value(e[3]) /\ x = Value(e[4])
                           /\ y = Value(e[5])
  OBVIOUS
<1>9. PICK suited \in BOOLEAN : suited <=> OneSuit(e)
  OBVIOUS
<1>10. FaceFacts(e, a, b, c, x, y)
  BY <1>6, <1>8, FaceFactsHold
<1> DEFINE N(v) == One(a = v) + One(b = v) + One(c = v) + One(x = v) + One(y = v)
<1>11. /\ a \in 2..14 /\ b \in 2..14 /\ c \in 2..14 /\ x \in 2..14 /\ y \in 2..14
       /\ \A v : Count(F, v) = N(v)
       /\ N(a) <= 4
  BY <1>7, <1>10 DEF FaceFacts
<1>12. f[e[1]] >= f[e[2]] /\ f[e[2]] >= f[e[3]] /\ f[e[3]] >= f[e[4]] /\ f[e[4]] >= f[e[5]]
  BY <1>5 DEF Tops
<1>13. /\ f[e[1]] = 100 * N(a) + a /\ f[e[2]] = 100 * N(b) + b /\ f[e[3]] = 100 * N(c) + c
       /\ f[e[4]] = 100 * N(x) + x /\ f[e[5]] = 100 * N(y) + y
  <2>1. e[1] \in F /\ e[2] \in F /\ e[3] \in F /\ e[4] \in F /\ e[5] \in F
    BY <1>5 DEF Tops
  <2> QED BY <1>4, <1>8, <1>11, <2>1
<1>14. /\ 100 * N(a) + a >= 100 * N(b) + b /\ 100 * N(b) + b >= 100 * N(c) + c
       /\ 100 * N(c) + c >= 100 * N(x) + x /\ 100 * N(x) + x >= 100 * N(y) + y
  BY <1>12, <1>13
<1>15. \/ a = b /\ a = c /\ a = x /\ y # a
       \/ a = b /\ a = c /\ x = y /\ x # a
       \/ a = b /\ a = c /\ x # a /\ y # a /\ x > y
       \/ a = b /\ c = x /\ a > c /\ y # a /\ y # c
       \/ a = b /\ c # a /\ x # a /\ y # a /\ c > x /\ x > y
       \/ Falling(a, b, c, x, y)
  BY <1>11, <1>14 DEF One, Falling
<1>16. \E k \in 1..9 : Shape(k, a, b, c, x, y, suited)
  <2>1. \A k \in 1..9 : Shape(k, a, b, c, x, y, suited) => \E n \in 1..9 : Shape(n, a, b, c, x, y, suited)
    OBVIOUS
  <2>2. \/ Shape(8, a, b, c, x, y, suited) \/ Shape(7, a, b, c, x, y, suited)
        \/ Shape(4, a, b, c, x, y, suited) \/ Shape(3, a, b, c, x, y, suited)
        \/ Shape(2, a, b, c, x, y, suited) \/ Shape(1, a, b, c, x, y, suited)
        \/ Shape(6, a, b, c, x, y, suited) \/ Shape(5, a, b, c, x, y, suited)
        \/ Shape(9, a, b, c, x, y, suited)
    BY <1>15 DEF Shape
  <2> QED BY <2>2
<1>17. \A k : Shape(k, a, b, c, x, y, suited) => Shaped5(k, e)
  BY <1>8, <1>9 DEF Shaped5, Shape
<1> QED BY <1>1, <1>6, <1>7, <1>16, <1>17

-----------------------------------------------------------------------------
(* The evaluator: sets, straights and flushes among some cards *)

\* The greatest of some values, or nothing.
LEMMA MaxOr0Is ==
  ASSUME NEW S, S \subseteq 2..14
  PROVE  /\ S = {} => MaxOr0(S) = 0
         /\ S # {} => MaxOr0(S) \in S /\ MaxOr0(S) \in 2..14
         /\ MaxOr0(S) \in 0..14 /\ \A v \in S : v <= MaxOr0(S)
<1>1. CASE S = {}
  <2>1. S \cup {0} \subseteq Int /\ 0 \in S \cup {0} /\ \A v \in S \cup {0} : 0 <= v /\ v <= 0
    BY <1>1
  <2>2. Max(S \cup {0}) = 0
    BY <2>1, MaxMinAre
  <2> QED BY <1>1, <2>2 DEF MaxOr0
<1>2. CASE S # {}
  <2>1. S \subseteq Nat /\ \A v \in S : v <= 14
    OBVIOUS
  <2>2. PICK g \in S : \A v \in S : v <= g
    BY <1>2, <2>1, BoundedHasGreatest
  <2>3. S \cup {0} \subseteq Int /\ g \in S \cup {0} /\ 0 \in S \cup {0}
        /\ \A v \in S \cup {0} : 0 <= v /\ v <= g
    BY <2>2
  <2>4. Max(S \cup {0}) = g
    BY <2>3, MaxMinAre
  <2> QED BY <1>2, <2>2, <2>4 DEF MaxOr0
<1> QED BY <1>1, <1>2

\* There are four cards of a value at most.
LEMMA FourSuits ==
  ASSUME NEW X \in SUBSET EvalDeck
  PROVE  /\ Values(X) \subseteq 2..14
         /\ \A v : /\ Count(X, v) \in 0..4 /\ (Count(X, v) > 0 => v \in Values(X))
                   /\ (v \in Values(X) => Count(X, v) > 0)
<1>1. Values(X) \subseteq 2..14
  BY ValueIs DEF Values
<1>2. IsFiniteSet({z.suit : z \in EvalDeck})
  <2>1. PICK f : f = [z \in EvalDeck |-> z.suit]
    OBVIOUS
  <2>2. f \in Surjection(EvalDeck, {z.suit : z \in EvalDeck})
    BY <2>1 DEF Surjection
  <2> QED BY <2>2, EvaluatorAssumption, FS_Surjection
<1>3. ASSUME NEW v PROVE Count(X, v) \in 0..4
  <2>1. PICK S : S = {c \in X : Value(c) = v}
    OBVIOUS
  <2>2. PICK f : f = [z \in S |-> z.suit]
    OBVIOUS
  <2>3. f \in Injection(S, {z.suit : z \in EvalDeck})
    BY <2>1, <2>2, ValueIs DEF Injection, IsInjective
  <2>4. Cardinality(S) <= Cardinality({z.suit : z \in EvalDeck})
    BY <1>2, <2>3, FS_Injection
  <2>5. Cardinality({z.suit : z \in EvalDeck}) \in Nat /\ Cardinality(S) \in Nat
    BY <1>2, <2>1, PartCounted, FS_CardinalityType
  <2> QED BY <2>1, <2>4, <2>5, EvaluatorAssumption DEF Count
<1>4. ASSUME NEW v PROVE Count(X, v) = 0 <=> v \notin Values(X)
  <2>1. PICK S : S = {c \in X : Value(c) = v}
    OBVIOUS
  <2>2. S = {} <=> v \notin Values(X)
    BY <2>1 DEF Values
  <2>3. IsFiniteSet(S)
    BY <2>1, PartCounted
  <2>4. Cardinality(S) = 0 <=> S = {}
    BY <2>3, FS_EmptySet
  <2> QED BY <2>1, <2>2, <2>4 DEF Count
<1> QED BY <1>1, <1>3, <1>4

\* Some values in descending order.
LEMMA DescendingLists ==
  ASSUME NEW S, S \subseteq 2..14
  PROVE  LET o == Descending(S)
         IN  /\ IsFiniteSet(S) /\ o \in Seq(S) /\ Len(o) = Cardinality(S) /\ Cardinality(S) \in Nat
             /\ ToSet(o) = S /\ \A i, j \in 1..Len(o) : i < j => o[i] > o[j]
             /\ \A i \in 1..Len(o) : o[i] \in S /\ Cardinality({y \in S : y > o[i]}) = i - 1
<1> DEFINE pick(i) == CHOOSE x \in S : Cardinality({y \in S : y > x}) = i - 1
<1>1. PICK B : B = {e \in S \X S : e[1] > e[2]}
  OBVIOUS
<1>2. \A x, y \in S : <<x, y>> \in B <=> x > y
  BY <1>1
<1>3. IsFiniteSet(S) /\ \A x \in S : x \in Int
  <2>1. PICK lo \in Int, hi \in Int : lo = 2 /\ hi = 14
    OBVIOUS
  <2>2. IsFiniteSet(lo..hi)
    BY FS_Interval
  <2>3. S \subseteq lo..hi
    BY <2>1
  <2>4. IsFiniteSet(S)
    BY <2>2, <2>3, FS_Subset
  <2>5. \A x \in S : x \in Int
    OBVIOUS
  <2> QED BY <2>4, <2>5
<1>4. Orders(B, S)
  BY <1>2, <1>3 DEF Orders
<1>5. \A x \in S : {y \in S : y > x} = Preceding(B, S, x)
  BY <1>2 DEF Preceding
<1>6. PICK o : o = Descending(S)
  OBVIOUS
<1>7. o = [i \in 1..Cardinality(S) |-> pick(i)]
  BY <1>6, Zenon DEF Descending, InOrder
<1>8. ASSUME NEW i \in 1..Cardinality(S)
      PROVE  o[i] \in S /\ Cardinality(Preceding(B, S, o[i])) = i - 1
  <2>1. \E x \in S : Cardinality(Preceding(B, S, x)) = i - 1
    BY <1>3, <1>4, PlacesFilled
  <2>2. \E x \in S : Cardinality({y \in S : y > x}) = i - 1
    BY <1>5, <2>1
  <2>3. o[i] = pick(i)
    <3> HIDE DEF pick
    <3> QED BY <1>7
  <2>4. o[i] \in S /\ Cardinality({y \in S : y > o[i]}) = i - 1
    BY <2>2, <2>3, Zenon
  <2> QED BY <1>5, <2>4
<1>9. o = [i \in 1..Cardinality(S) |-> o[i]]
  <2> HIDE DEF pick
  <2> QED BY <1>7
<1> HIDE DEF pick
<1>10. Lists(o, S, B)
  <2>1. PutInPlace(o, S, B)
    BY <1>8, <1>9 DEF PutInPlace
  <2> QED BY <1>3, <1>4, <2>1, OrderLists
<1>11. \A i, j \in 1..Len(o) : i < j => o[i] > o[j]
  <2>1. \A i \in 1..Len(o) : o[i] \in S
    BY <1>10, ElementOfSeq DEF Lists
  <2> QED BY <1>2, <1>10, <2>1 DEF Lists
<1>12. \A i \in 1..Cardinality(S) : o[i] \in S /\ Cardinality({y \in S : y > o[i]}) = i - 1
  BY <1>5, <1>8
<1> QED BY <1>3, <1>6, <1>10, <1>11, <1>12, FS_CardinalityType DEF Lists

\* A value of which there are two, or three beside a higher three of a kind.
Paired(X, v) == Count(X, v) = 2 \/ (Count(X, v) = 3 /\ v # Trip(X))

\* Four, three and two of a kind.
LEMMA SetsAre ==
  ASSUME NEW X \in SUBSET EvalDeck
  PROVE  /\ Quad(X) \in 0..14 /\ Trip(X) \in 0..14
         /\ Quad(X) # 0 => Quad(X) \in 2..14 /\ Count(X, Quad(X)) = 4
         /\ Trip(X) # 0 => Trip(X) \in 2..14 /\ Count(X, Trip(X)) = 3
         /\ \A v : Count(X, v) = 4 => v \in 2..14 /\ v <= Quad(X)
         /\ \A v : Count(X, v) = 3 => v \in 2..14 /\ v <= Trip(X)
<1>1. \A n \in 1..4 : \A v : v \in RanksHeld(X, n) <=> Count(X, v) = n
  BY FourSuits DEF RanksHeld
<1>2. RanksHeld(X, 3) \subseteq 2..14 /\ RanksHeld(X, 4) \subseteq 2..14
  BY FourSuits DEF RanksHeld
<1>3. /\ Quad(X) = MaxOr0(RanksHeld(X, 4)) /\ Trip(X) = MaxOr0(RanksHeld(X, 3))
      /\ 3 \in 1..4 /\ 4 \in 1..4
  BY DEF Quad, Trip
<1>4. \A v : /\ v \in RanksHeld(X, 3) <=> Count(X, v) = 3
             /\ v \in RanksHeld(X, 4) <=> Count(X, v) = 4
  BY <1>1, <1>3
<1>5. /\ Quad(X) \in 0..14 /\ (Quad(X) # 0 => Quad(X) \in 2..14 /\ Count(X, Quad(X)) = 4)
      /\ \A v : Count(X, v) = 4 => v \in 2..14 /\ v <= Quad(X)
  BY <1>2, <1>3, <1>4, MaxOr0Is
<1>6. /\ Trip(X) \in 0..14 /\ (Trip(X) # 0 => Trip(X) \in 2..14 /\ Count(X, Trip(X)) = 3)
      /\ \A v : Count(X, v) = 3 => v \in 2..14 /\ v <= Trip(X)
  BY <1>2, <1>3, <1>4, MaxOr0Is
<1> QED BY <1>5, <1>6

\* The pairs are in turn of their ranks, and all of them.
LEMMA PairsAre ==
  ASSUME NEW X \in SUBSET EvalDeck
  PROVE  LET p == Pairs(X)
         IN  /\ p \in Seq(Int) /\ Len(p) \in Nat
             /\ \A v : Paired(X, v) => v \in 2..14 /\ Len(p) >= 1 /\ v <= p[1]
             /\ \A v, w : Paired(X, v) /\ Paired(X, w) /\ v # w => Len(p) >= 2
             /\ Len(p) >= 1 => Paired(X, p[1])
             /\ Len(p) >= 2 => /\ Paired(X, p[2]) /\ p[1] > p[2]
                               /\ \A v : Paired(X, v) => v = p[1] \/ v <= p[2]
<1>1. PICK S : S = RanksHeld(X, 2) \cup (RanksHeld(X, 3) \ {Trip(X)})
  OBVIOUS
<1>2. \A v : v \in S <=> Paired(X, v)
  BY <1>1, FourSuits DEF RanksHeld, Paired
<1>3. S \subseteq 2..14
  BY <1>1, FourSuits DEF RanksHeld
<1>4. PICK o : o = Descending(S)
  OBVIOUS
<1>5. Pairs(X) = o
  BY <1>1, <1>4 DEF Pairs
<1>6. /\ o \in Seq(S) /\ Len(o) \in Nat /\ ToSet(o) = S
      /\ \A i, j \in 1..Len(o) : i < j => o[i] > o[j]
  BY <1>3, <1>4, DescendingLists
<1>7. \A i \in 1..Len(o) : o[i] \in S
  BY <1>6, ElementOfSeq
<1>8. \A v \in S : \E i \in 1..Len(o) : o[i] = v
  BY <1>6 DEF ToSet
<1>9. o \in Seq(Int)
  <2>1. S \subseteq Int
    BY <1>3
  <2> QED BY <1>6, <2>1, SeqMonotonic
<1>10. Len(o) >= 1 => 1 \in 1..Len(o)
  BY <1>6
<1>11. Len(o) >= 2 => 1 \in 1..Len(o) /\ 2 \in 1..Len(o)
  BY <1>6
<1>12. ASSUME NEW v \in S PROVE v \in 2..14 /\ Len(o) >= 1 /\ v <= o[1]
  <2>1. PICK i \in 1..Len(o) : o[i] = v
    BY <1>8
  <2>2. Len(o) >= 1 /\ 1 \in 1..Len(o) /\ o[1] \in S
    BY <1>6, <1>7, <2>1
  <2>3. i = 1 \/ o[1] > o[i]
    BY <1>6, <2>1, <2>2
  <2>4. v \in 2..14 /\ o[1] \in 2..14
    BY <1>3, <2>2
  <2>5. v = o[1] \/ o[1] > v
    BY <2>1, <2>3
  <2> QED BY <2>2, <2>4, <2>5
<1>13. ASSUME NEW v \in S, NEW w \in S, v # w PROVE Len(o) >= 2
  <2>1. PICK i \in 1..Len(o), j \in 1..Len(o) : o[i] = v /\ o[j] = w
    BY <1>8
  <2>2. i # j
    BY <1>13, <2>1
  <2> QED BY <1>6, <2>1, <2>2
<1>14. ASSUME Len(o) >= 2, NEW v \in S PROVE v = o[1] \/ v <= o[2]
  <2>1. PICK i \in 1..Len(o) : o[i] = v
    BY <1>8
  <2>2. 2 \in 1..Len(o) /\ o[2] \in S
    BY <1>7, <1>11, <1>14
  <2>3. i = 1 \/ i = 2 \/ o[2] > o[i]
    BY <1>6, <2>1, <2>2
  <2>4. v \in 2..14 /\ o[2] \in 2..14
    BY <1>3, <2>2
  <2>5. v = o[1] \/ v = o[2] \/ o[2] > v
    BY <2>1, <2>3
  <2> QED BY <2>4, <2>5
<1>15. Len(o) >= 1 => o[1] \in S
  BY <1>7, <1>10
<1>16. Len(o) >= 2 => o[2] \in S /\ o[1] > o[2]
  <2>1. 1 < 2
    OBVIOUS
  <2> QED BY <1>6, <1>7, <1>11, <2>1
<1> QED BY <1>2, <1>5, <1>6, <1>9, <1>12, <1>13, <1>14, <1>15, <1>16

\* The highest straight that some values hold.
LEMMA StraightIs ==
  ASSUME NEW V, V \subseteq 2..14
  PROVE  LET h == StraightHigh(V)
         IN  /\ \/ h = 0
                \/ h = 5 /\ wheel \subseteq V
                \/ h \in 6..14 /\ {h, h - 1, h - 2, h - 3, h - 4} \subseteq V
             /\ \A g \in V : {g - 1, g - 2, g - 3, g - 4} \subseteq V => g <= h
             /\ wheel \subseteq V => h >= 5
<1>1. PICK R : R = {h \in V : (h - 4)..h \subseteq V}
  OBVIOUS
<1>2. \A h \in V : h \in R <=> {h - 1, h - 2, h - 3, h - 4} \subseteq V
  <2> SUFFICES ASSUME NEW h \in V PROVE h \in R <=> {h - 1, h - 2, h - 3, h - 4} \subseteq V
    OBVIOUS
  <2>1. (h - 4)..h = {h, h - 1, h - 2, h - 3, h - 4}
    OBVIOUS
  <2> QED BY <1>1, <2>1
<1>3. R \subseteq V
  BY <1>1
<1>4. PICK h : h = StraightHigh(V)
  OBVIOUS
<1>5. h = IF R # {} THEN Max(R) ELSE IF wheel \subseteq V THEN 5 ELSE 0
  BY <1>1, <1>4 DEF StraightHigh
<1>6. CASE R = {}
  <2>1. h = IF wheel \subseteq V THEN 5 ELSE 0
    BY <1>5, <1>6
  <2>2. \A g \in V : ~({g - 1, g - 2, g - 3, g - 4} \subseteq V)
    BY <1>2, <1>6
  <2> QED BY <1>4, <2>1, <2>2
<1>7. CASE R # {}
  <2>1. R \subseteq Nat /\ \A v \in R : v <= 14
    BY <1>3
  <2>2. PICK g \in R : \A v \in R : v <= g
    BY <1>7, <2>1, BoundedHasGreatest
  <2>3. PICK l \in R : \A v \in R : l <= v
    BY <1>7, <2>1, NatHasLeast
  <2>4. Max(R) = g
    <3>1. R \subseteq Int /\ \A v \in R : l <= v /\ v <= g
      BY <2>1, <2>2, <2>3
    <3> QED BY <3>1, MaxMinAre
  <2>5. h = g
    BY <1>5, <1>7, <2>4
  <2>6. g \in V /\ g \in 2..14 /\ {g - 1, g - 2, g - 3, g - 4} \subseteq V
    BY <1>2, <1>3, <2>2
  <2>7. g - 4 \in 2..14
    BY <2>6
  <2>8. g \in 6..14
    BY <2>6, <2>7
  <2> QED BY <1>2, <1>4, <2>2, <2>5, <2>6, <2>8
<1> QED BY <1>6, <1>7

\* The cards of a suit.
OfSuit(X, s) == {c \in X : c.suit = s}

\* Few cards have five of one suit at most.
LEMMA OneFlushSuit ==
  ASSUME NEW X \in SUBSET EvalDeck, Cardinality(X) <= 7, NEW s \in FlushSuits(X)
  PROVE  FlushSuits(X) = {s} /\ Cardinality(OfSuit(X, s)) >= 5
<1>1. Cardinality(OfSuit(X, s)) >= 5
  BY DEF FlushSuits, OfSuit
<1>2. ASSUME NEW t \in FlushSuits(X), t # s PROVE FALSE
  <2>1. Cardinality(OfSuit(X, t)) >= 5
    BY DEF FlushSuits, OfSuit
  <2>2. PICK A, B : A = OfSuit(X, s) /\ B = OfSuit(X, t)
    OBVIOUS
  <2>3. A \cap B = {} /\ A \cup B \in SUBSET X /\ A \in SUBSET X /\ B \in SUBSET X
    BY <1>2, <2>2 DEF OfSuit
  <2>4. IsFiniteSet(A) /\ IsFiniteSet(B) /\ Cardinality(A \cup B) <= Cardinality(X)
        /\ Cardinality(A) \in Nat /\ Cardinality(B) \in Nat /\ Cardinality(X) \in Nat
    BY <2>3, PartCounted
  <2>5. Cardinality(A \cup B) = Cardinality(A) + Cardinality(B) - Cardinality(A \cap B)
    BY <2>4, FS_Union
  <2>6. Cardinality(A \cap B) = 0
    BY <2>3, FS_EmptySet
  <2> QED BY <1>1, <2>1, <2>2, <2>4, <2>5, <2>6
<1> QED BY <1>1, <1>2

\* The cards of one suit have different values.
LEMMA SuitCounted ==
  ASSUME NEW Y \in SUBSET EvalDeck, \A c, e \in Y : c.suit = e.suit, NEW Z \in SUBSET Y
  PROVE  Cardinality(Values(Z)) = Cardinality(Z)
<1>1. PICK f : f = [c \in Z |-> Value(c)]
  OBVIOUS
<1>2. f \in Injection(Z, Values(Z)) /\ f \in Surjection(Z, Values(Z))
  <2>1. f \in [Z -> Values(Z)]
    BY <1>1 DEF Values
  <2>2. \A c, e \in Z : f[c] = f[e] => c = e
    BY <1>1, ValueIs
  <2>3. \A v \in Values(Z) : \E c \in Z : f[c] = v
    BY <1>1 DEF Values
  <2> QED BY <2>1, <2>2, <2>3 DEF Injection, IsInjective, Surjection
<1>3. IsFiniteSet(Z)
  BY PartCounted
<1> QED BY <1>2, <1>3, FS_Surjection

\* In descending order they are the highest in turn.
LEMMA SuitedIs ==
  ASSUME NEW Y \in SUBSET EvalDeck, \A c, e \in Y : c.suit = e.suit
  PROVE  LET o == Descending(Values(Y))
         IN  o \in Seq(2..14) /\ Len(o) = Cardinality(Y) /\ \A i \in 1..Len(o) : o[i] = Nth(Y, i)
<1>1. PICK V, o : V = Values(Y) /\ o = Descending(V)
  OBVIOUS
<1>2. V \subseteq 2..14
  BY <1>1, FourSuits
<1>3. /\ IsFiniteSet(V) /\ o \in Seq(V) /\ Len(o) = Cardinality(V)
      /\ \A i \in 1..Len(o) : o[i] \in V /\ Cardinality({y \in V : y > o[i]}) = i - 1
  BY <1>1, <1>2, DescendingLists
<1>4. Cardinality(V) = Cardinality(Y) /\ Cardinality(Y) \in Nat /\ IsFiniteSet(Y)
  BY <1>1, SuitCounted, PartCounted
<1>5. ASSUME NEW i \in 1..Len(o) PROVE o[i] = Nth(Y, i)
  <2>1. PICK w : w = o[i]
    OBVIOUS
  <2>2. w \in V /\ w \in 2..14 /\ w \in Int /\ Cardinality({y \in V : y > w}) = i - 1
    <3>1. w \in V /\ Cardinality({y \in V : y > w}) = i - 1
      BY <1>3, <2>1
    <3>2. w \in 2..14
      BY <1>2, <3>1
    <3> QED BY <3>1, <3>2
  <2>3. PICK A, B : A = {y \in V : y > w} /\ B = {y \in V : y >= w}
    OBVIOUS
  <2>4. B = A \cup {w} /\ w \notin A /\ IsFiniteSet(A)
    <3>1. IsFiniteSet(A)
      BY <1>3, <2>3, FS_Subset
    <3>2. \A y \in V : y \in 2..14
      BY <1>2
    <3>3. \A y \in V : (y >= w <=> y > w \/ y = w) /\ ~(w > w)
      BY <2>2, <3>2
    <3> QED BY <2>2, <2>3, <3>1, <3>3
  <2>5. Cardinality(B) = i
    <3>1. Cardinality(A) = i - 1 /\ i \in Int
      BY <2>2, <2>3
    <3>2. Cardinality(A \cup {w}) = Cardinality(A) + 1
      BY <2>4, FS_AddElement
    <3>3. (i - 1) + 1 = i
      BY <3>1
    <3> QED BY <2>4, <3>1, <3>2, <3>3
  <2>6. \A c \in Y : worth[c] = Value(c)
    BY DEF worth
  <2>7. A = Values({c \in Y : worth[c] > w}) /\ B = Values({c \in Y : worth[c] >= w})
    BY <1>1, <2>3, <2>6 DEF Values
  <2>8. Cardinality({c \in Y : worth[c] > w}) = i - 1 /\ Cardinality({c \in Y : worth[c] >= w}) = i
    BY <2>2, <2>3, <2>5, <2>7, SuitCounted
  <2>9. Ith(Y, worth, i, w)
    BY <2>8 DEF Ith
  <2>10. Nth(Y, i) \in 2..14 /\ Ith(Y, worth, i, Nth(Y, i))
    <3>1. Cardinality(Y) \in 0..Cardinality(Y) /\ i \in 1..Cardinality(Y)
      BY <1>3, <1>4
    <3> QED BY <3>1, NthIsDealt
  <2>11. IntsOn(worth, Y) /\ Nth(Y, i) \in Int
    BY <2>6, <2>10, ValueIs DEF IntsOn
  <2> QED BY <1>4, <2>1, <2>2, <2>9, <2>10, <2>11, IthIsOne
<1> QED BY <1>1, <1>2, <1>3, <1>4, <1>5, SeqMonotonic

\* The flush and the straight flush among few cards are those of one suit.
LEMMA FlushIs ==
  ASSUME NEW X \in SUBSET EvalDeck, Cardinality(X) <= 7
  PROVE  /\ FlushSuits(X) = {} => BestFlush(X) = <<>> /\ StraightFlushHigh(X) = 0
         /\ \A s \in FlushSuits(X) :
              /\ BestFlush(X) \in Seq(Int) /\ Len(BestFlush(X)) = 5 /\ Cardinality(OfSuit(X, s)) >= 5
              /\ \A i \in 1..5 : BestFlush(X)[i] = Nth(OfSuit(X, s), i)
              /\ StraightFlushHigh(X) = StraightHigh(Values(OfSuit(X, s)))
<1> DEFINE ranks == {Top(Suited(X, s), 5) : s \in FlushSuits(X)}
           above(a, b) == \E i \in 1..5 : a[i] > b[i] /\ \A j \in 1..(i - 1) : a[j] = b[j]
           highs == {StraightHigh(Values({c \in X : c.suit = s})) : s \in FlushSuits(X)}
<1>1. BestFlush(X) = IF ranks = {} THEN <<>> ELSE CHOOSE r \in ranks : \A q \in ranks : ~above(q, r)
  BY Zenon DEF BestFlush
<1>2. StraightFlushHigh(X) = MaxOr0(highs)
  BY Zenon DEF StraightFlushHigh
<1>3. ASSUME FlushSuits(X) = {} PROVE BestFlush(X) = <<>> /\ StraightFlushHigh(X) = 0
  <2>1. ranks = {} /\ highs = {}
    BY <1>3
  <2> HIDE DEF ranks, highs
  <2>2. MaxOr0(highs) = 0
    <3>1. highs \subseteq 2..14
      BY <2>1
    <3> QED BY <2>1, <3>1, MaxOr0Is
  <2> QED BY <1>1, <1>2, <2>1, <2>2
<1>4. ASSUME NEW s \in FlushSuits(X)
      PROVE  /\ BestFlush(X) \in Seq(Int) /\ Len(BestFlush(X)) = 5 /\ Cardinality(OfSuit(X, s)) >= 5
             /\ \A i \in 1..5 : BestFlush(X)[i] = Nth(OfSuit(X, s), i)
             /\ StraightFlushHigh(X) = StraightHigh(Values(OfSuit(X, s)))
  <2>1. FlushSuits(X) = {s} /\ Cardinality(OfSuit(X, s)) >= 5
    BY OneFlushSuit
  <2>2. PICK Y, o : Y = OfSuit(X, s) /\ o = Descending(Values(Y))
    OBVIOUS
  <2>3. Y \in SUBSET EvalDeck /\ Cardinality(Y) \in Nat /\ \A c, e \in Y : c.suit = e.suit
    <3>1. Y \in SUBSET EvalDeck /\ \A c, e \in Y : c.suit = e.suit
      BY <2>2 DEF OfSuit
    <3> QED BY <3>1, PartCounted
  <2>4. o \in Seq(2..14) /\ Len(o) = Cardinality(Y) /\ \A i \in 1..Len(o) : o[i] = Nth(Y, i)
    BY <2>2, <2>3, SuitedIs
  <2>5. PICK t : t = Top(Suited(X, s), 5)
    OBVIOUS
  <2>6. t = SubSeq(o, 1, 5)
    BY <2>2, <2>5 DEF Top, Suited, OfSuit
  <2>7. /\ t \in Seq(2..14) /\ Len(t) = 5 /\ \A i \in 1..5 : t[i] = o[i]
    BY <2>1, <2>2, <2>3, <2>4, <2>6
  <2>8. \A i \in 1..5 : t[i] = Nth(Y, i) /\ t[i] \in Int
    <3>1. \A i \in 1..5 : i \in 1..Len(o)
      BY <2>1, <2>2, <2>3, <2>4
    <3>2. \A i \in 1..5 : t[i] \in 2..14
      BY <2>7, ElementOfSeq
    <3> QED BY <2>4, <2>7, <3>1, <3>2
  <2>9. ranks = {t}
    BY <2>1, <2>5
  <2>10. ~above(t, t)
    BY <2>8
  <2>11. BestFlush(X) = t
    <3> HIDE DEF ranks, above
    <3> QED BY <1>1, <2>9, <2>10
  <2>12. PICK h : h = StraightHigh(Values(Y))
    OBVIOUS
  <2>13. highs = {h}
    BY <2>1, <2>2, <2>12 DEF OfSuit
  <2>14. StraightFlushHigh(X) = h
    <3>1. h = 0 \/ h \in 2..14
      <4>1. Values(Y) \subseteq 2..14
        BY <2>3, FourSuits
      <4> QED BY <2>12, <4>1, StraightIs
    <3> HIDE DEF highs
    <3>2. {h} \cup {0} \subseteq Int /\ h \in {h} \cup {0} /\ 0 \in {h} \cup {0}
          /\ \A v \in {h} \cup {0} : 0 <= v /\ v <= h
      BY <3>1
    <3>3. Max({h} \cup {0}) = h
      BY <3>2, MaxMinAre
    <3> QED BY <1>2, <2>13, <3>3 DEF MaxOr0
  <2>15. t \in Seq(Int)
    BY <2>7, SeqMonotonic
  <2> HIDE DEF ranks, above, highs
  <2> QED BY <2>1, <2>2, <2>7, <2>8, <2>11, <2>12, <2>14, <2>15
<1> QED BY <1>3, <1>4

-----------------------------------------------------------------------------
(* The evaluator: the classes some cards fit *)

Others(X, exclude) == {c \in X : Value(c) \notin exclude}

Kicker(X, exclude, i) ==
  IF i <= Cardinality(Others(X, exclude)) THEN Nth(Others(X, exclude), i) ELSE 0

\* Kickers are the highest others, one after another.
LEMMA KickerIs ==
  ASSUME NEW X \in SUBSET EvalDeck, NEW exclude
  PROVE  /\ Others(X, exclude) \in SUBSET EvalDeck /\ Cardinality(Others(X, exclude)) \in Nat
         /\ \A i \in 1..5 : Kicker(X, exclude, i) \in Int
         /\ \A n \in 1..5 : /\ Kickers(X, exclude, n) \in Seq(Int) /\ Len(Kickers(X, exclude, n)) = n
                            /\ \A i \in 1..n : Kickers(X, exclude, n)[i] = Kicker(X, exclude, i)
<1>1. Others(X, exclude) \in SUBSET EvalDeck /\ Cardinality(Others(X, exclude)) \in Nat
  BY PartCounted DEF Others
<1>2. ASSUME NEW i \in 1..5 PROVE Kicker(X, exclude, i) \in Int
  <2>1. CASE i <= Cardinality(Others(X, exclude))
    <3>1. Cardinality(Others(X, exclude)) \in 0..Cardinality(Others(X, exclude))
          /\ i \in 1..Cardinality(Others(X, exclude))
      BY <1>1, <2>1
    <3>2. Nth(Others(X, exclude), i) \in 2..14
      BY <1>1, <3>1, NthIsDealt
    <3> QED BY <2>1, <3>2 DEF Kicker
  <2>2. CASE ~(i <= Cardinality(Others(X, exclude)))
    BY <2>2 DEF Kicker
  <2> QED BY <2>1, <2>2
<1>3. ASSUME NEW n \in 1..5
      PROVE  /\ Kickers(X, exclude, n) \in Seq(Int) /\ Len(Kickers(X, exclude, n)) = n
             /\ \A i \in 1..n : Kickers(X, exclude, n)[i] = Kicker(X, exclude, i)
  <2>1. Kickers(X, exclude, n) = [i \in 1..n |-> Kicker(X, exclude, i)]
    BY DEF Kickers, Kicker, Others
  <2>2. \A i \in 1..n : Kicker(X, exclude, i) \in Int
    BY <1>2
  <2> QED BY <2>1, <2>2
<1> QED BY <1>1, <1>2, <1>3

\* Some ranks of a class with kickers behind them, and what they are worth.
RanksAndKickers(X, exclude, s, n, class, u) ==
  /\ s \in Seq(Int) /\ n \in 1..5 /\ Len(s) + n = 5 /\ ClassValue(class) \in Int
  /\ u = s \o Kickers(X, exclude, n)

WorthThat(X, exclude, s, n, class, u) ==
  /\ HandValue(class, u) = <<ClassValue(class), u[1], u[2], u[3], u[4], u[5]>>
  /\ \A i \in 1..Len(s) : u[i] = s[i]
  /\ \A i \in 1..n : u[Len(s) + i] = Kicker(X, exclude, i)

\* A class with its ranks first and kickers in the places behind them.
LEMMA BehindRanks ==
  ASSUME NEW X, X \in SUBSET EvalDeck, NEW exclude, NEW s, NEW n, NEW class, NEW u,
         RanksAndKickers(X, exclude, s, n, class, u)
  PROVE  WorthThat(X, exclude, s, n, class, u)
<1>1. /\ s \in Seq(Int) /\ n \in 1..5 /\ Len(s) + n = 5 /\ ClassValue(class) \in Int
      /\ u = s \o Kickers(X, exclude, n)
  BY DEF RanksAndKickers
<1>2. PICK t : t = Kickers(X, exclude, n)
  OBVIOUS
<1>3. t \in Seq(Int) /\ Len(t) = n /\ \A i \in 1..n : t[i] = Kicker(X, exclude, i)
  BY <1>1, <1>2, KickerIs
<1>4. /\ u \in Seq(Int) /\ Len(u) = Len(s) + Len(t) /\ \A i \in 1..Len(s) : u[i] = s[i]
      /\ \A i \in 1..Len(t) : u[Len(s) + i] = t[i]
  BY <1>1, <1>2, <1>3, Behind
<1>5. Len(u) = 5
  BY <1>1, <1>3, <1>4
<1>6. HandValue(class, u) = <<ClassValue(class), u[1], u[2], u[3], u[4], u[5]>>
  BY <1>1, <1>4, <1>5, HandValueOf
<1> QED BY <1>3, <1>4, <1>6 DEF WorthThat

\* A class that some cards fit, with its value.
Reading(X, k, r) ==
  LET q == Quad(X)
      t == Trip(X)
      p == Pairs(X)
      f == BestFlush(X)
  IN  \/ k = 9 /\ StraightFlushHigh(X) # 0 /\ r = <<9, StraightFlushHigh(X), 0, 0, 0, 0>>
      \/ k = 8 /\ q # 0 /\ r = <<8, q, q, q, q, Kicker(X, {q}, 1)>>
      \/ k = 7 /\ t # 0 /\ Len(p) >= 1 /\ r = <<7, t, t, t, p[1], p[1]>>
      \/ k = 6 /\ f # <<>> /\ r = <<6, f[1], f[2], f[3], f[4], f[5]>>
      \/ k = 5 /\ StraightHigh(Values(X)) # 0 /\ r = <<5, StraightHigh(Values(X)), 0, 0, 0, 0>>
      \/ k = 4 /\ t # 0 /\ r = <<4, t, t, t, Kicker(X, {t}, 1), Kicker(X, {t}, 2)>>
      \/ k = 3 /\ Len(p) >= 2 /\ r = <<3, p[1], p[1], p[2], p[2], Kicker(X, {p[1], p[2]}, 1)>>
      \/ k = 2 /\ Len(p) >= 1
         /\ r = <<2, p[1], p[1], Kicker(X, {p[1]}, 1), Kicker(X, {p[1]}, 2), Kicker(X, {p[1]}, 3)>>
      \/ k = 1 /\ r = <<1, Kicker(X, {}, 1), Kicker(X, {}, 2), Kicker(X, {}, 3), Kicker(X, {}, 4),
                        Kicker(X, {}, 5)>>

\* Kickers behind four, three, two or none of the ranks.
LEMMA HandsAre ==
  ASSUME NEW X \in SUBSET EvalDeck, NEW a \in Int, NEW b \in Int
  PROVE  /\ HandValue("FourOfAKind", <<a, a, a, a>> \o Kickers(X, {a}, 1)) =
              <<8, a, a, a, a, Kicker(X, {a}, 1)>>
         /\ HandValue("ThreeOfAKind", <<a, a, a>> \o Kickers(X, {a}, 2)) =
              <<4, a, a, a, Kicker(X, {a}, 1), Kicker(X, {a}, 2)>>
         /\ HandValue("TwoPair", <<a, a, b, b>> \o Kickers(X, {a, b}, 1)) =
              <<3, a, a, b, b, Kicker(X, {a, b}, 1)>>
         /\ HandValue("Pair", <<a, a>> \o Kickers(X, {a}, 3)) =
              <<2, a, a, Kicker(X, {a}, 1), Kicker(X, {a}, 2), Kicker(X, {a}, 3)>>
         /\ HandValue("HighCard", Kickers(X, {}, 5)) =
              <<1, Kicker(X, {}, 1), Kicker(X, {}, 2), Kicker(X, {}, 3), Kicker(X, {}, 4),
                Kicker(X, {}, 5)>>
         /\ HandValue("FullHouse", <<a, a, a, b, b>>) = <<7, a, a, a, b, b>>
         /\ HandValue("StraightFlush", <<a>>) = <<9, a, 0, 0, 0, 0>>
         /\ HandValue("Straight", <<a>>) = <<5, a, 0, 0, 0, 0>>
<1>1. HandValue("FourOfAKind", <<a, a, a, a>> \o Kickers(X, {a}, 1)) =
        <<8, a, a, a, a, Kicker(X, {a}, 1)>>
  <2>1. PICK s, ex : s = <<a, a, a, a>> /\ ex = {a}
    OBVIOUS
  <2>2. s \in Seq(Int) /\ Len(s) = 4 /\ s[1] = a /\ s[2] = a /\ s[3] = a /\ s[4] = a
    BY <2>1
  <2>3. PICK u : u = s \o Kickers(X, ex, 1)
    OBVIOUS
  <2>4. /\ HandValue("FourOfAKind", u) = <<ClassValue("FourOfAKind"), u[1], u[2], u[3], u[4], u[5]>>
        /\ \A i \in 1..Len(s) : u[i] = s[i]
        /\ \A i \in 1..1 : u[Len(s) + i] = Kicker(X, ex, i)
    <3>1. PICK class, n : class = "FourOfAKind" /\ n = 1
      OBVIOUS
    <3>2. RanksAndKickers(X, ex, s, n, class, u)
      BY <2>2, <2>3, <3>1, ClassValueIs DEF RanksAndKickers
    <3>3. WorthThat(X, ex, s, n, class, u)
      BY <3>2, BehindRanks, Zenon
    <3> QED BY <3>1, <3>3 DEF WorthThat
  <2>5. u[1] = s[1] /\ u[2] = s[2] /\ u[3] = s[3] /\ u[4] = s[4]
    BY <2>2, <2>4
  <2>6. u[5] = Kicker(X, ex, 1)
    <3>1. u[Len(s) + 1] = Kicker(X, ex, 1)
      BY <2>4
    <3> QED BY <2>2, <3>1
  <2> QED BY <2>1, <2>2, <2>3, <2>4, <2>5, <2>6, ClassValueIs
<1>2. HandValue("ThreeOfAKind", <<a, a, a>> \o Kickers(X, {a}, 2)) =
        <<4, a, a, a, Kicker(X, {a}, 1), Kicker(X, {a}, 2)>>
  <2>1. PICK s, ex : s = <<a, a, a>> /\ ex = {a}
    OBVIOUS
  <2>2. s \in Seq(Int) /\ Len(s) = 3 /\ s[1] = a /\ s[2] = a /\ s[3] = a
    BY <2>1
  <2>3. PICK u : u = s \o Kickers(X, ex, 2)
    OBVIOUS
  <2>4. /\ HandValue("ThreeOfAKind", u) = <<ClassValue("ThreeOfAKind"), u[1], u[2], u[3], u[4], u[5]>>
        /\ \A i \in 1..Len(s) : u[i] = s[i]
        /\ \A i \in 1..2 : u[Len(s) + i] = Kicker(X, ex, i)
    <3>1. PICK class, n : class = "ThreeOfAKind" /\ n = 2
      OBVIOUS
    <3>2. RanksAndKickers(X, ex, s, n, class, u)
      BY <2>2, <2>3, <3>1, ClassValueIs DEF RanksAndKickers
    <3>3. WorthThat(X, ex, s, n, class, u)
      BY <3>2, BehindRanks, Zenon
    <3> QED BY <3>1, <3>3 DEF WorthThat
  <2>5. u[1] = s[1] /\ u[2] = s[2] /\ u[3] = s[3]
    BY <2>2, <2>4
  <2>6. u[4] = Kicker(X, ex, 1) /\ u[5] = Kicker(X, ex, 2)
    <3>1. u[Len(s) + 1] = Kicker(X, ex, 1) /\ u[Len(s) + 2] = Kicker(X, ex, 2)
      BY <2>4
    <3> QED BY <2>2, <3>1
  <2> QED BY <2>1, <2>2, <2>3, <2>4, <2>5, <2>6, ClassValueIs
<1>3. HandValue("TwoPair", <<a, a, b, b>> \o Kickers(X, {a, b}, 1)) =
        <<3, a, a, b, b, Kicker(X, {a, b}, 1)>>
  <2>1. PICK s, ex : s = <<a, a, b, b>> /\ ex = {a, b}
    OBVIOUS
  <2>2. s \in Seq(Int) /\ Len(s) = 4 /\ s[1] = a /\ s[2] = a /\ s[3] = b /\ s[4] = b
    BY <2>1
  <2>3. PICK u : u = s \o Kickers(X, ex, 1)
    OBVIOUS
  <2>4. /\ HandValue("TwoPair", u) = <<ClassValue("TwoPair"), u[1], u[2], u[3], u[4], u[5]>>
        /\ \A i \in 1..Len(s) : u[i] = s[i]
        /\ \A i \in 1..1 : u[Len(s) + i] = Kicker(X, ex, i)
    <3>1. PICK class, n : class = "TwoPair" /\ n = 1
      OBVIOUS
    <3>2. RanksAndKickers(X, ex, s, n, class, u)
      BY <2>2, <2>3, <3>1, ClassValueIs DEF RanksAndKickers
    <3>3. WorthThat(X, ex, s, n, class, u)
      BY <3>2, BehindRanks, Zenon
    <3> QED BY <3>1, <3>3 DEF WorthThat
  <2>5. u[1] = s[1] /\ u[2] = s[2] /\ u[3] = s[3] /\ u[4] = s[4]
    BY <2>2, <2>4
  <2>6. u[5] = Kicker(X, ex, 1)
    <3>1. u[Len(s) + 1] = Kicker(X, ex, 1)
      BY <2>4
    <3> QED BY <2>2, <3>1
  <2> QED BY <2>1, <2>2, <2>3, <2>4, <2>5, <2>6, ClassValueIs
<1>4. HandValue("Pair", <<a, a>> \o Kickers(X, {a}, 3)) =
        <<2, a, a, Kicker(X, {a}, 1), Kicker(X, {a}, 2), Kicker(X, {a}, 3)>>
  <2>1. PICK s, ex : s = <<a, a>> /\ ex = {a}
    OBVIOUS
  <2>2. s \in Seq(Int) /\ Len(s) = 2 /\ s[1] = a /\ s[2] = a
    BY <2>1
  <2>3. PICK u : u = s \o Kickers(X, ex, 3)
    OBVIOUS
  <2>4. /\ HandValue("Pair", u) = <<ClassValue("Pair"), u[1], u[2], u[3], u[4], u[5]>>
        /\ \A i \in 1..Len(s) : u[i] = s[i]
        /\ \A i \in 1..3 : u[Len(s) + i] = Kicker(X, ex, i)
    <3>1. PICK class, n : class = "Pair" /\ n = 3
      OBVIOUS
    <3>2. RanksAndKickers(X, ex, s, n, class, u)
      BY <2>2, <2>3, <3>1, ClassValueIs DEF RanksAndKickers
    <3>3. WorthThat(X, ex, s, n, class, u)
      BY <3>2, BehindRanks, Zenon
    <3> QED BY <3>1, <3>3 DEF WorthThat
  <2>5. u[1] = s[1] /\ u[2] = s[2]
    BY <2>2, <2>4
  <2>6. u[3] = Kicker(X, ex, 1) /\ u[4] = Kicker(X, ex, 2) /\ u[5] = Kicker(X, ex, 3)
    <3>1. u[Len(s) + 1] = Kicker(X, ex, 1) /\ u[Len(s) + 2] = Kicker(X, ex, 2) /\ u[Len(s) + 3] = Kicker(X, ex, 3)
      BY <2>4
    <3> QED BY <2>2, <3>1
  <2> QED BY <2>1, <2>2, <2>3, <2>4, <2>5, <2>6, ClassValueIs
<1>5. HandValue("HighCard", Kickers(X, {}, 5)) =
        <<1, Kicker(X, {}, 1), Kicker(X, {}, 2), Kicker(X, {}, 3), Kicker(X, {}, 4), Kicker(X, {}, 5)>>
  <2>1. PICK t : t = Kickers(X, {}, 5)
    OBVIOUS
  <2>2. t \in Seq(Int) /\ Len(t) = 5 /\ \A i \in 1..5 : t[i] = Kicker(X, {}, i)
    BY <2>1, KickerIs
  <2>3. HandValue("HighCard", t) = <<ClassValue("HighCard"), t[1], t[2], t[3], t[4], t[5]>>
    BY <2>2, HandValueOf, ClassValueIs
  <2> QED BY <2>1, <2>2, <2>3, ClassValueIs
<1>6. HandValue("FullHouse", <<a, a, a, b, b>>) = <<7, a, a, a, b, b>>
  <2>1. PICK s : s = <<a, a, a, b, b>>
    OBVIOUS
  <2>2. s \in Seq(Int) /\ Len(s) = 5 /\ s[1] = a /\ s[2] = a /\ s[3] = a /\ s[4] = b /\ s[5] = b
    BY <2>1
  <2>3. HandValue("FullHouse", s) = <<ClassValue("FullHouse"), s[1], s[2], s[3], s[4], s[5]>>
    <3>1. ClassValue("FullHouse") \in Int
      BY ClassValueIs
    <3> QED BY <2>2, <3>1, HandValueOf
  <2> QED BY <2>1, <2>2, <2>3, ClassValueIs
<1>7. /\ HandValue("StraightFlush", <<a>>) = <<9, a, 0, 0, 0, 0>>
      /\ HandValue("Straight", <<a>>) = <<5, a, 0, 0, 0, 0>>
  <2>1. PICK s : s = <<a>>
    OBVIOUS
  <2>2. s \in Seq(Int) /\ Len(s) = 1 /\ s[1] = a
    BY <2>1
  <2>3. HandValue("StraightFlush", s) = <<ClassValue("StraightFlush"), s[1], 0, 0, 0, 0>>
    BY <2>2, HandValueOf, ClassValueIs
  <2>4. HandValue("Straight", s) = <<ClassValue("Straight"), s[1], 0, 0, 0, 0>>
    BY <2>2, HandValueOf, ClassValueIs
  <2> QED BY <2>1, <2>2, <2>3, <2>4, ClassValueIs
<1> QED BY <1>1, <1>2, <1>3, <1>4, <1>5, <1>6, <1>7

\* The readings of some cards are those of the classes.
LEMMA ReadingsAre ==
  ASSUME NEW X \in SUBSET EvalDeck, Cardinality(X) <= 7
  PROVE  \A r : r \in Readings(X) <=> \E k \in 1..9 : Reading(X, k, r)
<1> DEFINE quads == {Quad(X)} \ {0}
           trips == {Trip(X)} \ {0}
           pairs == Pairs(X)
           pair == ToSet(Top(pairs, Min({1, Len(pairs)})))
           second == IF Len(pairs) >= 2 THEN {pairs[2]} ELSE {}
           flushes == {BestFlush(X)} \ {<<>>}
           R9 == {HandValue("StraightFlush", <<h>>) : h \in {StraightFlushHigh(X)} \ {0}}
           R8 == {HandValue("FourOfAKind", <<q, q, q, q>> \o Kickers(X, {q}, 1)) : q \in quads}
           R7 == {HandValue("FullHouse", <<t, t, t, p, p>>) : t \in trips, p \in pair}
           R6 == {HandValue("Flush", f) : f \in flushes}
           R5 == {HandValue("Straight", <<h>>) : h \in {StraightHigh(Values(X))} \ {0}}
           R4 == {HandValue("ThreeOfAKind", <<t, t, t>> \o Kickers(X, {t}, 2)) : t \in trips}
           R3 == {HandValue("TwoPair", <<p, p, q, q>> \o Kickers(X, {p, q}, 1)) : p \in pair, q \in second}
           R2 == {HandValue("Pair", <<p, p>> \o Kickers(X, {p}, 3)) : p \in pair}
           R1 == {HandValue("HighCard", Kickers(X, {}, 5))}
<1>1. Readings(X) = R9 \cup R8 \cup R7 \cup R6 \cup R5 \cup R4 \cup R3 \cup R2 \cup R1
  BY DEF Readings
<1>2. Quad(X) \in Int /\ Trip(X) \in Int
  BY SetsAre
<1>3. PICK p : p = Pairs(X)
  OBVIOUS
<1>4. p \in Seq(Int) /\ Len(p) \in Nat
  BY <1>3, PairsAre
<1>5. pair = (IF Len(p) >= 1 THEN {p[1]} ELSE {}) /\ (Len(p) >= 1 => p[1] \in Int)
      /\ (Len(p) >= 2 => p[2] \in Int)
  <2>1. CASE Len(p) >= 1
    <3>1. Min({1, Len(p)}) = 1
      <4>1. PICK Z : Z = {1, Len(p)}
        OBVIOUS
      <4>2. Z \subseteq Int /\ 1 \in Z /\ Len(p) \in Z /\ \A v \in Z : 1 <= v /\ v <= Len(p)
        BY <1>4, <2>1, <4>1
      <4> QED BY <4>1, <4>2, MaxMinAre
    <3>2. PICK t : t = SubSeq(p, 1, 1)
      OBVIOUS
    <3>4. ToSet(t) = {p[1]}
      <4>1. t[1] = p[1] /\ DOMAIN t = 1..1
        BY <1>4, <2>1, <3>2
      <4>2. DOMAIN t = {1}
        BY <4>1
      <4> QED BY <4>1, <4>2 DEF ToSet
    <3>5. \A i \in 1..Len(p) : p[i] \in Int
      BY <1>4, ElementOfSeq
    <3> QED BY <1>3, <1>4, <2>1, <3>1, <3>2, <3>4, <3>5 DEF Top
  <2>2. CASE ~(Len(p) >= 1)
    <3>1. Min({1, Len(p)}) = 0
      <4>1. PICK Z : Z = {1, Len(p)}
        OBVIOUS
      <4>2. Z \subseteq Int /\ 0 \in Z /\ 1 \in Z /\ \A v \in Z : 0 <= v /\ v <= 1
        BY <1>4, <2>2, <4>1
      <4> QED BY <4>1, <4>2, MaxMinAre
    <3>2. PICK t : t = SubSeq(p, 1, 0)
      OBVIOUS
    <3>3. t = <<>>
      BY <1>4, <3>2
    <3>4. ToSet(t) = {}
      BY <3>3 DEF ToSet
    <3> QED BY <1>3, <1>4, <2>2, <3>1, <3>2, <3>4 DEF Top
  <2> QED BY <2>1, <2>2
<1>6. second = IF Len(p) >= 2 THEN {p[2]} ELSE {}
  BY <1>3
<1> HIDE DEF pair, second, pairs
<1>7. \A r : r \in R9 <=> Reading(X, 9, r)
  <2>1. PICK h : h = StraightFlushHigh(X)
    OBVIOUS
  <2>2. h \in Int
    <3>1. CASE FlushSuits(X) = {}
      BY <2>1, <3>1, FlushIs
    <3>2. CASE FlushSuits(X) # {}
      <4>1. PICK s \in FlushSuits(X) : TRUE
        BY <3>2
      <4>2. h = StraightHigh(Values(OfSuit(X, s)))
        BY <2>1, FlushIs
      <4>3. Values(OfSuit(X, s)) \subseteq 2..14
        BY FourSuits DEF OfSuit
      <4> QED BY <4>2, <4>3, StraightIs
    <3> QED BY <3>1, <3>2
  <2>3. h # 0 => HandValue("StraightFlush", <<h>>) = <<9, h, 0, 0, 0, 0>>
    BY <2>2, HandsAre
  <2>4. \A r : r \in R9 <=> h # 0 /\ r = HandValue("StraightFlush", <<h>>)
    BY <2>1
  <2>5. \A r : Reading(X, 9, r) <=> h # 0 /\ r = <<9, h, 0, 0, 0, 0>>
    BY <2>1 DEF Reading
  <2> QED BY <2>3, <2>4, <2>5
<1>8. \A r : r \in R8 <=> Reading(X, 8, r)
  <2>1. PICK q \in Int : q = Quad(X)
    BY <1>2
  <2>2. HandValue("FourOfAKind", <<q, q, q, q>> \o Kickers(X, {q}, 1)) =
          <<8, q, q, q, q, Kicker(X, {q}, 1)>>
    BY HandsAre
  <2>3. \A r : r \in R8 <=> q # 0 /\ r = HandValue("FourOfAKind", <<q, q, q, q>> \o Kickers(X, {q}, 1))
    BY <2>1
  <2>4. \A r : Reading(X, 8, r) <=> q # 0 /\ r = <<8, q, q, q, q, Kicker(X, {q}, 1)>>
    BY <2>1 DEF Reading
  <2> QED BY <2>2, <2>3, <2>4
<1>9. \A r : r \in R7 <=> Reading(X, 7, r)
  <2>1. PICK t \in Int : t = Trip(X)
    BY <1>2
  <2>2. Len(p) >= 1 => HandValue("FullHouse", <<t, t, t, p[1], p[1]>>) = <<7, t, t, t, p[1], p[1]>>
    BY <1>5, HandsAre
  <2>3. \A r : r \in R7 <=> t # 0 /\ Len(p) >= 1 /\ r = HandValue("FullHouse", <<t, t, t, p[1], p[1]>>)
    <3> DEFINE val(v, w) == HandValue("FullHouse", <<v, v, v, w, w>>)
    <3>1. \A r : r \in R7 <=> \E v \in trips : \E w \in pair : r = val(v, w)
      OBVIOUS
    <3>2. \A v : v \in trips <=> t # 0 /\ v = t
      BY <2>1
    <3>3. \A w : w \in pair <=> Len(p) >= 1 /\ w = p[1]
      BY <1>5
    <3>4. HandValue("FullHouse", <<t, t, t, p[1], p[1]>>) = val(t, p[1])
      OBVIOUS
    <3> HIDE DEF trips, R7, val
    <3> QED BY <3>1, <3>2, <3>3, <3>4
  <2>4. \A r : Reading(X, 7, r) <=> t # 0 /\ Len(p) >= 1 /\ r = <<7, t, t, t, p[1], p[1]>>
    BY <1>3, <2>1 DEF Reading
  <2> HIDE DEF R7
  <2> QED BY <2>2, <2>3, <2>4
<1>10. \A r : r \in R6 <=> Reading(X, 6, r)
  <2>1. PICK f : f = BestFlush(X)
    OBVIOUS
  <2>2. ASSUME f # <<>> PROVE HandValue("Flush", f) = <<6, f[1], f[2], f[3], f[4], f[5]>>
    <3>1. PICK s \in FlushSuits(X) : TRUE
      BY <2>1, <2>2, FlushIs
    <3>2. f \in Seq(Int) /\ Len(f) = 5
      BY <2>1, FlushIs
    <3>3. HandValue("Flush", f) = <<ClassValue("Flush"), f[1], f[2], f[3], f[4], f[5]>>
      <4>1. ClassValue("Flush") \in Int
        BY ClassValueIs
      <4> QED BY <3>2, <4>1, HandValueOf
    <3> QED BY <3>3, ClassValueIs
  <2>3. \A r : r \in R6 <=> f # <<>> /\ r = HandValue("Flush", f)
    BY <2>1
  <2>4. \A r : Reading(X, 6, r) <=> f # <<>> /\ r = <<6, f[1], f[2], f[3], f[4], f[5]>>
    BY <2>1 DEF Reading
  <2> QED BY <2>2, <2>3, <2>4
<1>11. \A r : r \in R5 <=> Reading(X, 5, r)
  <2>1. PICK h : h = StraightHigh(Values(X))
    OBVIOUS
  <2>2. h \in Int
    <3>1. Values(X) \subseteq 2..14
      BY FourSuits
    <3> QED BY <2>1, <3>1, StraightIs
  <2>3. HandValue("Straight", <<h>>) = <<5, h, 0, 0, 0, 0>>
    BY <2>2, HandsAre
  <2>4. \A r : r \in R5 <=> h # 0 /\ r = HandValue("Straight", <<h>>)
    BY <2>1
  <2>5. \A r : Reading(X, 5, r) <=> h # 0 /\ r = <<5, h, 0, 0, 0, 0>>
    BY <2>1 DEF Reading
  <2> QED BY <2>3, <2>4, <2>5
<1>12. \A r : r \in R4 <=> Reading(X, 4, r)
  <2>1. PICK t \in Int : t = Trip(X)
    BY <1>2
  <2>2. HandValue("ThreeOfAKind", <<t, t, t>> \o Kickers(X, {t}, 2)) =
          <<4, t, t, t, Kicker(X, {t}, 1), Kicker(X, {t}, 2)>>
    BY HandsAre
  <2>3. \A r : r \in R4 <=> t # 0 /\ r = HandValue("ThreeOfAKind", <<t, t, t>> \o Kickers(X, {t}, 2))
    BY <2>1
  <2>4. \A r : Reading(X, 4, r) <=> t # 0 /\ r = <<4, t, t, t, Kicker(X, {t}, 1), Kicker(X, {t}, 2)>>
    BY <2>1 DEF Reading
  <2> QED BY <2>2, <2>3, <2>4
<1>13. \A r : r \in R3 <=> Reading(X, 3, r)
  <2>1. PICK a, b : a = p[1] /\ b = p[2]
    OBVIOUS
  <2>2. PICK g, h : /\ g = HandValue("TwoPair", <<a, a, b, b>> \o Kickers(X, {a, b}, 1))
                    /\ h = <<3, a, a, b, b, Kicker(X, {a, b}, 1)>>
    OBVIOUS
  <2>3. ASSUME Len(p) >= 2 PROVE g = h
    <3>1. a \in Int /\ b \in Int
      BY <1>4, <1>5, <2>1, <2>3
    <3> QED BY <2>2, <3>1, HandsAre, Zenon
  <2>4. \A r : r \in R3 <=> Len(p) >= 2 /\ r = g
    <3> DEFINE val(v, w) == HandValue("TwoPair", <<v, v, w, w>> \o Kickers(X, {v, w}, 1))
    <3>1. \A r : r \in R3 <=> \E v \in pair : \E w \in second : r = val(v, w)
      OBVIOUS
    <3>2. g = val(a, b)
      BY <2>2
    <3>3. \A w : w \in pair <=> Len(p) >= 1 /\ w = a
      BY <1>5, <2>1
    <3>4. \A w : w \in second <=> Len(p) >= 2 /\ w = b
      BY <1>6, <2>1
    <3>5. Len(p) >= 2 => Len(p) >= 1
      BY <1>4
    <3> HIDE DEF val, R3
    <3> QED BY <3>1, <3>2, <3>3, <3>4, <3>5
  <2>5. \A r : Reading(X, 3, r) <=> Len(p) >= 2 /\ r = h
    BY <1>3, <2>1, <2>2 DEF Reading
  <2> HIDE DEF R3
  <2> QED BY <2>3, <2>4, <2>5
<1>14. \A r : r \in R2 <=> Reading(X, 2, r)
  <2>1. PICK a : a = p[1]
    OBVIOUS
  <2>2. Len(p) >= 1 => HandValue("Pair", <<a, a>> \o Kickers(X, {a}, 3)) =
                         <<2, a, a, Kicker(X, {a}, 1), Kicker(X, {a}, 2), Kicker(X, {a}, 3)>>
    BY <1>5, <2>1, HandsAre
  <2>3. \A r : r \in R2 <=> Len(p) >= 1 /\ r = HandValue("Pair", <<a, a>> \o Kickers(X, {a}, 3))
    BY <1>5, <2>1
  <2>4. \A r : Reading(X, 2, r) <=>
          Len(p) >= 1 /\ r = <<2, a, a, Kicker(X, {a}, 1), Kicker(X, {a}, 2), Kicker(X, {a}, 3)>>
    BY <1>3, <2>1 DEF Reading
  <2> QED BY <2>2, <2>3, <2>4
<1>15. \A r : r \in R1 <=> Reading(X, 1, r)
  <2>1. HandValue("HighCard", Kickers(X, {}, 5)) =
          <<1, Kicker(X, {}, 1), Kicker(X, {}, 2), Kicker(X, {}, 3), Kicker(X, {}, 4), Kicker(X, {}, 5)>>
    <3>1. 0 \in Int
      OBVIOUS
    <3> QED BY <3>1, HandsAre
  <2> QED BY <2>1 DEF Reading
<1> HIDE DEF R9, R8, R7, R6, R5, R4, R3, R2, R1
<1>16. \A k : k \in 1..9 <=> k = 9 \/ k = 8 \/ k = 7 \/ k = 6 \/ k = 5 \/ k = 4 \/ k = 3 \/ k = 2 \/ k = 1
  OBVIOUS
<1> QED BY <1>1, <1>7, <1>8, <1>9, <1>10, <1>11, <1>12, <1>13, <1>14, <1>15, <1>16

\* No class above m fits.
NoneAbove(X, m) ==
  /\ m < 9 => StraightFlushHigh(X) = 0
  /\ m < 8 => Quad(X) = 0
  /\ m < 7 => Trip(X) = 0 \/ ~(Len(Pairs(X)) >= 1)
  /\ m < 6 => BestFlush(X) = <<>>
  /\ m < 5 => StraightHigh(Values(X)) = 0
  /\ m < 4 => Trip(X) = 0
  /\ m < 3 => ~(Len(Pairs(X)) >= 2)
  /\ m < 2 => ~(Len(Pairs(X)) >= 1)

\* A hand is classified by the highest class that fits.
LEMMA ClassifyIs ==
  ASSUME NEW X \in SUBSET EvalDeck, Cardinality(X) \in 5..7
  PROVE  \E m \in 1..9 : Reading(X, m, ClassifyHand(X)) /\ NoneAbove(X, m)
<1>1. \A r : r \in Readings(X) <=> \E k \in 1..9 : Reading(X, k, r)
  BY ReadingsAre
<1>2. PICK K : K = {k \in 1..9 : \E r : Reading(X, k, r)}
  OBVIOUS
<1>3. 1 \in K
  <2>1. \E r : Reading(X, 1, r)
    BY DEF Reading
  <2> QED BY <1>2, <2>1
<1>4. PICK m \in K : \A k \in K : k <= m
  <2>1. K \subseteq Nat /\ K # {} /\ \A k \in K : k <= 9
    BY <1>2, <1>3
  <2> QED BY <2>1, BoundedHasGreatest
<1>5. \A k \in 1..9 : \A r : Reading(X, k, r) => r[1] = k /\ k <= m
  <2>1. ASSUME NEW k \in 1..9, NEW r, Reading(X, k, r) PROVE r[1] = k
    BY <2>1 DEF Reading
  <2> QED BY <1>2, <1>4, <2>1
<1>6. PICK r : Reading(X, m, r)
  BY <1>2, <1>4
<1>7. m \in 1..9 /\ r \in Readings(X) /\ r[1] = m
  BY <1>1, <1>2, <1>4, <1>5, <1>6
<1>8. \A s \in Readings(X) : s[1] \in 1..9 /\ s[1] <= m
  BY <1>1, <1>5
<1>9. \E best \in Readings(X) : \A s \in Readings(X) : s[1] <= best[1]
  BY <1>7, <1>8
<1>10. PICK best : best = ClassifyHand(X)
  OBVIOUS
<1>11. best = Classify(X)
  BY <1>10 DEF ClassifyHand
<1>12. best \in Readings(X) /\ \A s \in Readings(X) : s[1] <= best[1]
  BY <1>9, <1>11 DEF Classify
<1>13. best[1] = m
  BY <1>7, <1>8, <1>12
<1>14. Reading(X, m, best)
  <2>1. PICK k \in 1..9 : Reading(X, k, best)
    BY <1>1, <1>12
  <2> QED BY <1>5, <1>13, <2>1
<1>15. NoneAbove(X, m)
  <2>1. \A k \in 1..9 : k > m => \A s : ~Reading(X, k, s)
    BY <1>5, <1>7
  <2>2. /\ 9 > m => \A s : ~Reading(X, 9, s)
        /\ 8 > m => \A s : ~Reading(X, 8, s)
        /\ 7 > m => \A s : ~Reading(X, 7, s)
        /\ 6 > m => \A s : ~Reading(X, 6, s)
        /\ 5 > m => \A s : ~Reading(X, 5, s)
        /\ 4 > m => \A s : ~Reading(X, 4, s)
        /\ 3 > m => \A s : ~Reading(X, 3, s)
        /\ 2 > m => \A s : ~Reading(X, 2, s)
    BY <2>1
  <2>3. /\ (\A s : ~Reading(X, 9, s)) => StraightFlushHigh(X) = 0
        /\ (\A s : ~Reading(X, 8, s)) => Quad(X) = 0
        /\ (\A s : ~Reading(X, 7, s)) => Trip(X) = 0 \/ ~(Len(Pairs(X)) >= 1)
        /\ (\A s : ~Reading(X, 6, s)) => BestFlush(X) = <<>>
        /\ (\A s : ~Reading(X, 5, s)) => StraightHigh(Values(X)) = 0
        /\ (\A s : ~Reading(X, 4, s)) => Trip(X) = 0
        /\ (\A s : ~Reading(X, 3, s)) => ~(Len(Pairs(X)) >= 2)
        /\ (\A s : ~Reading(X, 2, s)) => ~(Len(Pairs(X)) >= 1)
    BY Zenon DEF Reading
  <2> QED BY <1>7, <2>2, <2>3 DEF NoneAbove
<1> QED BY <1>7, <1>10, <1>14, <1>15

\* Cards beside the ranks of a class, laid out in turn, are no higher than its kickers.
LEMMA KickersHighest ==
  ASSUME NEW X, X \in SUBSET EvalDeck, NEW exclude, NEW n, n \in 1..5, NEW g,
         Descends(g, n, Others(X, exclude))
  PROVE  \A i \in 1..n : Value(g[i]) <= Kicker(X, exclude, i)
<1>1. Others(X, exclude) \in SUBSET EvalDeck /\ n \in Nat
  BY KickerIs
<1>2. n <= Cardinality(Others(X, exclude)) /\ \A i \in 1..n : Value(g[i]) <= Nth(Others(X, exclude), i)
  BY <1>1, NthIsHighest
<1>3. Cardinality(Others(X, exclude)) \in Nat
  BY KickerIs
<1> QED BY <1>2, <1>3 DEF Kicker

\* Enough cards beside the ranks of a class can be laid out as its kickers.
LEMMA KickersDealt ==
  ASSUME NEW X, X \in SUBSET EvalDeck, NEW exclude, NEW n, n \in 1..5,
         n <= Cardinality(Others(X, exclude))
  PROVE  \E g : Descends(g, n, Others(X, exclude)) /\ \A i \in 1..n : Value(g[i]) = Kicker(X, exclude, i)
<1>1. Others(X, exclude) \in SUBSET EvalDeck /\ Cardinality(Others(X, exclude)) \in Nat
  BY KickerIs
<1>2. n \in 0..Cardinality(Others(X, exclude))
  BY <1>1
<1>3. PICK g : /\ Descends(g, n, Others(X, exclude))
               /\ \A i \in 1..n : Nth(Others(X, exclude), i) = Value(g[i])
  BY <1>1, <1>2, NthIsDealt
<1> QED BY <1>1, <1>2, <1>3 DEF Kicker

\* The cards of two values and the others make up all.
LEMMA OthersCounted ==
  ASSUME NEW X, X \in SUBSET EvalDeck, NEW v, NEW w
  PROVE  /\ Cardinality(X) = Cardinality(Others(X, {v})) + Count(X, v)
         /\ v # w => Cardinality(X) = Cardinality(Others(X, {v, w})) + Count(X, v) + Count(X, w)
<1>1. PICK A, B, R, S : /\ A = {c \in X : Value(c) = v} /\ B = {c \in X : Value(c) = w}
                        /\ R = Others(X, {v}) /\ S = Others(X, {v, w})
  OBVIOUS
<1>2. /\ IsFiniteSet(A) /\ IsFiniteSet(B) /\ IsFiniteSet(R) /\ IsFiniteSet(S)
      /\ Cardinality(A) \in Nat /\ Cardinality(B) \in Nat /\ Cardinality(R) \in Nat
      /\ Cardinality(S) \in Nat
  BY <1>1, PartCounted DEF Others
<1>3. X = R \cup A /\ R \cap A = {}
  BY <1>1 DEF Others
<1>4. v # w => R = S \cup B /\ S \cap B = {}
  BY <1>1 DEF Others
<1>5. Cardinality({}) = 0
  BY FS_EmptySet
<1>6. Cardinality(X) = Cardinality(R) + Cardinality(A)
  <2>1. Cardinality(R \cup A) = Cardinality(R) + Cardinality(A) - Cardinality(R \cap A)
    BY <1>2, FS_Union
  <2>2. Cardinality(R \cap A) = 0
    BY <1>3, <1>5
  <2>3. Cardinality(X) = Cardinality(R \cup A)
    BY <1>3
  <2> QED BY <1>2, <2>1, <2>2, <2>3
<1>7. v # w => Cardinality(R) = Cardinality(S) + Cardinality(B)
  <2>1. Cardinality(S \cup B) = Cardinality(S) + Cardinality(B) - Cardinality(S \cap B)
    BY <1>2, FS_Union
  <2>2. v # w => Cardinality(S \cap B) = 0 /\ Cardinality(R) = Cardinality(S \cup B)
    BY <1>4, <1>5
  <2> QED BY <1>2, <2>1, <2>2
<1> QED BY <1>1, <1>2, <1>6, <1>7 DEF Count

-----------------------------------------------------------------------------
(* The evaluator: no five cards are worth more *)

\* One value after the other decides.
LexAtMost(a, b, c, x, y, p, q, r, s, t) ==
  a < p \/ (a = p /\ (b < q \/ (b = q /\ (c < r \/ (c = r /\ (x < s \/ (x = s /\ y <= t)))))))

\* What is at most as much by class, then value after value, does not beat.
LEMMA NotBeaten ==
  ASSUME NEW k \in Int, NEW a \in Int, NEW b \in Int, NEW c \in Int, NEW x \in Int, NEW y \in Int,
         NEW m \in Int, NEW p \in Int, NEW q \in Int, NEW r \in Int, NEW s \in Int, NEW t \in Int,
         NEW u, u = <<k, a, b, c, x, y>>, NEW w, w = <<m, p, q, r, s, t>>,
         k < m \/ (k = m /\ LexAtMost(a, b, c, x, y, p, q, r, s, t))
  PROVE  ~Beats(u, w)
<1> SUFFICES ASSUME NEW i \in 1..6, u[i] > w[i], \A j \in 1..(i - 1) : u[j] = w[j] PROVE FALSE
  BY DEF Beats
<1>1. /\ u[1] = k /\ u[2] = a /\ u[3] = b /\ u[4] = c /\ u[5] = x /\ u[6] = y
      /\ w[1] = m /\ w[2] = p /\ w[3] = q /\ w[4] = r /\ w[5] = s /\ w[6] = t
  OBVIOUS
<1>2. i = 1 \/ i = 2 \/ i = 3 \/ i = 4 \/ i = 5 \/ i = 6
  OBVIOUS
<1>3. /\ i > 1 => u[1] = w[1]
      /\ i > 2 => u[2] = w[2]
      /\ i > 3 => u[3] = w[3]
      /\ i > 4 => u[4] = w[4]
      /\ i > 5 => u[5] = w[5]
  OBVIOUS
<1> QED BY <1>1, <1>2, <1>3 DEF LexAtMost

\* A part counts no more than the whole.
LEMMA FiveCountAtMost ==
  ASSUME NEW X, X \in SUBSET EvalDeck, NEW e, Five(e), Firsts(e, 5) \subseteq X, NEW v
  PROVE  One(Value(e[1]) = v) + One(Value(e[2]) = v) + One(Value(e[3]) = v) + One(Value(e[4]) = v)
         + One(Value(e[5]) = v) <= Count(X, v)
<1>1. PICK S, T : S = {c \in Firsts(e, 5) : Value(c) = v} /\ T = {c \in X : Value(c) = v}
  OBVIOUS
<1>2. S \in SUBSET T /\ T \in SUBSET EvalDeck
  BY <1>1
<1>3. Cardinality(S) <= Cardinality(T)
  BY <1>2, PartCounted
<1>4. Cardinality(S) = Count(Firsts(e, 5), v) /\ Cardinality(T) = Count(X, v)
  BY <1>1 DEF Count
<1>5. Count(Firsts(e, 5), v) = One(Value(e[1]) = v) + One(Value(e[2]) = v) + One(Value(e[3]) = v)
                               + One(Value(e[4]) = v) + One(Value(e[5]) = v)
  BY FiveCount
<1> QED BY <1>3, <1>4, <1>5

\* Some of five cards, as they lie, beside a class's ranks.
LEMMA LaidOut ==
  ASSUME NEW X, X \in SUBSET EvalDeck, NEW e, Five(e), Firsts(e, 5) \subseteq X, NEW exclude,
         NEW from, NEW n, n \in 1..5, from \in 0..(5 - n),
         \A i \in 1..n : Value(e[from + i]) \notin exclude,
         \A i, j \in 1..n : i < j => Value(e[from + i]) >= Value(e[from + j])
  PROVE  \A i \in 1..n : Value(e[from + i]) <= Kicker(X, exclude, i)
<1>1. PICK g : g = [i \in 1..n |-> e[from + i]]
  OBVIOUS
<1>2. \A i \in 1..n : from + i \in 1..5 /\ e[from + i] \in X
  BY DEF Firsts
<1>3. g \in [1..n -> Others(X, exclude)]
  BY <1>1, <1>2 DEF Others
<1>4. \A i, j \in 1..n : g[i] = g[j] => i = j
  <2> SUFFICES ASSUME NEW i \in 1..n, NEW j \in 1..n, g[i] = g[j] PROVE i = j
    OBVIOUS
  <2>1. from + i = from + j
    BY <1>1, <1>2 DEF Five
  <2> QED BY <2>1
<1>5. Descends(g, n, Others(X, exclude))
  BY <1>1, <1>3, <1>4 DEF Descends
<1> QED BY <1>1, <1>5, KickersHighest

\* The values, the count and the suit of five cards among others.
Among(X, e, a, b, c, x, y) ==
  /\ a = Value(e[1]) /\ b = Value(e[2]) /\ c = Value(e[3]) /\ x = Value(e[4]) /\ y = Value(e[5])
  /\ a \in 2..14 /\ b \in 2..14 /\ c \in 2..14 /\ x \in 2..14 /\ y \in 2..14
  /\ {a, b, c, x, y} \subseteq Values(X)
  /\ \A v : /\ Count(X, v) \in 0..4
            /\ One(a = v) + One(b = v) + One(c = v) + One(x = v) + One(y = v) <= Count(X, v)

\* Five of the cards are so.
LEMMA AmongHolds ==
  ASSUME NEW X, X \in SUBSET EvalDeck, NEW e, Five(e), Firsts(e, 5) \subseteq X
  PROVE  Among(X, e, Value(e[1]), Value(e[2]), Value(e[3]), Value(e[4]), Value(e[5]))
<1>1. \A i \in 1..5 : e[i] \in X
  BY DEF Firsts
<1>2. e[1] \in X /\ e[2] \in X /\ e[3] \in X /\ e[4] \in X /\ e[5] \in X
  BY <1>1
<1>3. \A i \in 1..5 : Value(e[i]) \in Values(X) /\ Value(e[i]) \in 2..14
  BY <1>1, ValueIs DEF Values
<1> QED BY <1>3, FourSuits, FiveCountAtMost DEF Among

\* Five cards of one suit follow one another no further than a straight among their suit.
LEMMA RunAmong ==
  ASSUME NEW V, V \subseteq 2..14, NEW a, NEW b, NEW c, NEW x, NEW y,
         {a, b, c, x, y} \subseteq V, Falling(a, b, c, x, y), Follow(a, b, c, x, y)
  PROVE  /\ StraightHigh(V) # 0 /\ StraightHigh(V) \in Int
         /\ (IF a = 14 /\ b = 5 THEN 5 ELSE a) <= StraightHigh(V)
<1>1. a \in V /\ b \in V /\ c \in V /\ x \in V /\ y \in V
  OBVIOUS
<1>2. a \in 2..14 /\ b \in 2..14 /\ c \in 2..14 /\ x \in 2..14 /\ y \in 2..14
  BY <1>1
<1>3. PICK h : h = StraightHigh(V)
  OBVIOUS
<1>4. /\ h = 0 \/ h = 5 \/ h \in 6..14
      /\ \A g \in V : {g - 1, g - 2, g - 3, g - 4} \subseteq V => g <= h
      /\ wheel \subseteq V => h >= 5
  BY <1>3, StraightIs
<1>5. CASE a - y = 4
  <2>1. b = a - 1 /\ c = a - 2 /\ x = a - 3 /\ y = a - 4
    BY <1>2, <1>5 DEF Falling
  <2>2. a <= h
    BY <1>1, <1>4, <2>1
  <2>3. ~(a = 14 /\ b = 5)
    BY <2>1
  <2> QED BY <1>2, <1>3, <1>4, <2>2, <2>3
<1>6. CASE a = 14 /\ b = 5 /\ c = 4 /\ x = 3 /\ y = 2
  <2>1. wheel \subseteq V
    BY <1>1, <1>6 DEF wheel
  <2> QED BY <1>3, <1>4, <1>6, <2>1
<1> QED BY <1>5, <1>6 DEF Follow

\* Four of a kind among some cards.
LEMMA FoursAtMost ==
  ASSUME NEW X, X \in SUBSET EvalDeck, NEW e, Five(e), Firsts(e, 5) \subseteq X,
         NEW a, NEW b, NEW c, NEW x, NEW y, Among(X, e, a, b, c, x, y),
         Shape(8, a, b, c, x, y, OneSuit(e)), NEW ex, ex = {Quad(X)}
  PROVE  Quad(X) # 0 /\ LexAtMost(a, b, c, x, y, Quad(X), Quad(X), Quad(X), Quad(X), Kicker(X, ex, 1))
<1>1. a = b /\ a = c /\ a = x /\ y # a
  BY DEF Shape
<1>2. /\ a \in 2..14 /\ y \in 2..14 /\ y = Value(e[5]) /\ Count(X, a) \in 0..4
      /\ One(a = a) + One(b = a) + One(c = a) + One(x = a) + One(y = a) <= Count(X, a)
  BY DEF Among
<1>3. Count(X, a) = 4
  BY <1>1, <1>2 DEF One
<1>4. a <= Quad(X) /\ Quad(X) # 0 /\ Quad(X) \in 0..14
  BY <1>2, <1>3, SetsAre
<1>5. ASSUME a = Quad(X) PROVE y <= Kicker(X, ex, 1)
  <2>1. PICK from, n : from = 4 /\ n = 1
    OBVIOUS
  <2>2. n \in 1..5 /\ from \in 0..(5 - n) /\ 1..n = {1} /\ from + 1 = 5
    BY <2>1
  <2>3. \A i \in 1..n : Value(e[from + i]) \notin ex
    BY <1>1, <1>2, <1>5, <2>2
  <2>4. \A i, j \in 1..n : i < j => Value(e[from + i]) >= Value(e[from + j])
    BY <2>2
  <2>5. \A i \in 1..n : Value(e[from + i]) <= Kicker(X, ex, i)
    BY <2>2, <2>3, <2>4, LaidOut
  <2> QED BY <1>2, <2>2, <2>5
<1> QED BY <1>1, <1>2, <1>4, <1>5 DEF LexAtMost

\* Three of a kind among some cards without four.
LEMMA ThreesAtMost ==
  ASSUME NEW X, X \in SUBSET EvalDeck, NEW e, Five(e), Firsts(e, 5) \subseteq X,
         NEW a, NEW b, NEW c, NEW x, NEW y, Among(X, e, a, b, c, x, y),
         Shape(4, a, b, c, x, y, OneSuit(e)), Quad(X) = 0, NEW ex, ex = {Trip(X)}
  PROVE  /\ Trip(X) # 0
         /\ LexAtMost(a, b, c, x, y, Trip(X), Trip(X), Trip(X), Kicker(X, ex, 1), Kicker(X, ex, 2))
<1>1. a = b /\ a = c /\ x # a /\ y # a /\ x > y
  BY DEF Shape
<1>2. /\ a \in 2..14 /\ x \in 2..14 /\ y \in 2..14 /\ x = Value(e[4]) /\ y = Value(e[5])
      /\ Count(X, a) \in 0..4
      /\ One(a = a) + One(b = a) + One(c = a) + One(x = a) + One(y = a) <= Count(X, a)
  BY DEF Among
<1>3. Count(X, a) = 3
  <2>1. Count(X, a) # 4
    BY <1>2, SetsAre
  <2> QED BY <1>1, <1>2, <2>1 DEF One
<1>4. a <= Trip(X) /\ Trip(X) # 0 /\ Trip(X) \in 0..14
  BY <1>2, <1>3, SetsAre
<1>5. ASSUME a = Trip(X) PROVE x <= Kicker(X, ex, 1) /\ y <= Kicker(X, ex, 2)
  <2>1. PICK from, n : from = 3 /\ n = 2
    OBVIOUS
  <2>2. n \in 1..5 /\ from \in 0..(5 - n) /\ 1..n = {1, 2} /\ from + 1 = 4 /\ from + 2 = 5
    BY <2>1
  <2>3. \A i \in 1..n : Value(e[from + i]) \notin ex
    BY <1>1, <1>2, <1>5, <2>2
  <2>4. \A i, j \in 1..n : i < j => Value(e[from + i]) >= Value(e[from + j])
    BY <1>1, <1>2, <2>2
  <2>5. \A i \in 1..n : Value(e[from + i]) <= Kicker(X, ex, i)
    BY <2>2, <2>3, <2>4, LaidOut
  <2> QED BY <1>2, <2>2, <2>5
<1>6. Kicker(X, ex, 1) \in Int /\ Kicker(X, ex, 2) \in Int
  BY KickerIs
<1> QED BY <1>1, <1>2, <1>4, <1>5, <1>6 DEF LexAtMost

\* A full house among some cards without four of a kind.
LEMMA HousesAtMost ==
  ASSUME NEW X, X \in SUBSET EvalDeck, NEW e, Five(e), Firsts(e, 5) \subseteq X,
         NEW a, NEW b, NEW c, NEW x, NEW y, Among(X, e, a, b, c, x, y),
         Shape(7, a, b, c, x, y, OneSuit(e)), Quad(X) = 0, NEW p, p = Pairs(X)
  PROVE  Trip(X) # 0 /\ Len(p) >= 1 /\ LexAtMost(a, b, c, x, y, Trip(X), Trip(X), Trip(X), p[1], p[1])
<1>1. a = b /\ a = c /\ x = y /\ x # a
  BY DEF Shape
<1>2. /\ a \in 2..14 /\ x \in 2..14 /\ Count(X, a) \in 0..4 /\ Count(X, x) \in 0..4
      /\ One(a = a) + One(b = a) + One(c = a) + One(x = a) + One(y = a) <= Count(X, a)
      /\ One(a = x) + One(b = x) + One(c = x) + One(x = x) + One(y = x) <= Count(X, x)
  BY DEF Among
<1>3. Count(X, a) # 4 /\ Count(X, x) # 4
  BY <1>2, SetsAre
<1>4. Count(X, a) = 3 /\ Count(X, x) \in 2..3
  BY <1>1, <1>2, <1>3 DEF One
<1>5. a <= Trip(X) /\ Trip(X) # 0 /\ Trip(X) \in 0..14
  BY <1>2, <1>4, SetsAre
<1>6. Len(p) >= 1 /\ (a = Trip(X) => x <= p[1])
  <2>1. x # Trip(X) => Paired(X, x)
    BY <1>4 DEF Paired
  <2>2. x = Trip(X) => Paired(X, a)
    BY <1>1, <1>4 DEF Paired
  <2>3. \A v : Paired(X, v) => Len(p) >= 1 /\ v <= p[1]
    BY PairsAre
  <2> QED BY <1>1, <2>1, <2>2, <2>3
<1>7. p[1] \in Int
  <2>1. Paired(X, p[1])
    BY <1>6, PairsAre
  <2> QED BY <2>1, PairsAre
<1> QED BY <1>1, <1>2, <1>5, <1>6, <1>7 DEF LexAtMost

\* Two pairs among some cards without three or four of a kind.
LEMMA TwoPairsAtMost ==
  ASSUME NEW X, X \in SUBSET EvalDeck, NEW e, Five(e), Firsts(e, 5) \subseteq X,
         NEW a, NEW b, NEW c, NEW x, NEW y, Among(X, e, a, b, c, x, y),
         Shape(3, a, b, c, x, y, OneSuit(e)), Quad(X) = 0, Trip(X) = 0, NEW p, p = Pairs(X),
         NEW ex, ex = {p[1], p[2]}
  PROVE  Len(p) >= 2 /\ LexAtMost(a, b, c, x, y, p[1], p[1], p[2], p[2], Kicker(X, ex, 1))
<1>1. a = b /\ c = x /\ a > c /\ y # a /\ y # c
  BY DEF Shape
<1>2. /\ a \in 2..14 /\ c \in 2..14 /\ y \in 2..14 /\ Count(X, a) \in 0..4 /\ Count(X, c) \in 0..4
      /\ One(a = a) + One(b = a) + One(c = a) + One(x = a) + One(y = a) <= Count(X, a)
      /\ One(a = c) + One(b = c) + One(c = c) + One(x = c) + One(y = c) <= Count(X, c)
      /\ y = Value(e[5])
  BY DEF Among
<1>3. Count(X, a) \notin 3..4 /\ Count(X, c) \notin 3..4
  <2>1. \A v : Count(X, v) = 4 => v \in 2..14 /\ v <= Quad(X)
    BY SetsAre
  <2>2. \A v : Count(X, v) = 3 => v \in 2..14 /\ v <= Trip(X)
    BY SetsAre
  <2> QED BY <1>2, <2>1, <2>2
<1>4. Paired(X, a) /\ Paired(X, c)
  BY <1>1, <1>2, <1>3 DEF One, Paired
<1>5. a # c /\ Len(p) >= 2
  <2>1. a # c
    BY <1>1, <1>2
  <2> QED BY <1>4, <2>1, PairsAre
<1>6. /\ a <= p[1] /\ (c = p[1] \/ c <= p[2]) /\ Paired(X, p[1]) /\ Paired(X, p[2])
      /\ p[1] > p[2]
  BY <1>4, <1>5, PairsAre
<1>7. p[1] \in 2..14 /\ p[2] \in 2..14
  BY <1>6, PairsAre
<1>8. ASSUME a = p[1], c = p[2] PROVE y <= Kicker(X, ex, 1)
  <2>1. PICK from, n : from = 4 /\ n = 1
    OBVIOUS
  <2>2. n \in 1..5 /\ from \in 0..(5 - n) /\ 1..n = {1} /\ from + 1 = 5
    BY <2>1
  <2>3. \A i \in 1..n : Value(e[from + i]) \notin ex
    BY <1>1, <1>2, <1>8, <2>2
  <2>4. \A i, j \in 1..n : i < j => Value(e[from + i]) >= Value(e[from + j])
    BY <2>2
  <2>5. \A i \in 1..n : Value(e[from + i]) <= Kicker(X, ex, i)
    BY <2>2, <2>3, <2>4, LaidOut
  <2> QED BY <1>2, <2>2, <2>5
<1> QED BY <1>1, <1>2, <1>5, <1>6, <1>7, <1>8 DEF LexAtMost

\* One pair among some cards without more.
LEMMA PairAtMost ==
  ASSUME NEW X, X \in SUBSET EvalDeck, NEW e, Five(e), Firsts(e, 5) \subseteq X,
         NEW a, NEW b, NEW c, NEW x, NEW y, Among(X, e, a, b, c, x, y),
         Shape(2, a, b, c, x, y, OneSuit(e)), Quad(X) = 0, Trip(X) = 0, NEW p, p = Pairs(X),
         NEW ex, ex = {p[1]}
  PROVE  /\ Len(p) >= 1
         /\ LexAtMost(a, b, c, x, y, p[1], p[1], Kicker(X, ex, 1), Kicker(X, ex, 2), Kicker(X, ex, 3))
<1>1. a = b /\ c # a /\ x # a /\ y # a /\ c > x /\ x > y
  BY DEF Shape
<1>2. /\ a \in 2..14 /\ c \in 2..14 /\ x \in 2..14 /\ y \in 2..14 /\ Count(X, a) \in 0..4
      /\ One(a = a) + One(b = a) + One(c = a) + One(x = a) + One(y = a) <= Count(X, a)
      /\ c = Value(e[3]) /\ x = Value(e[4]) /\ y = Value(e[5])
  BY DEF Among
<1>3. Count(X, a) \notin 3..4
  <2>1. \A v : Count(X, v) = 4 => v \in 2..14 /\ v <= Quad(X)
    BY SetsAre
  <2>2. \A v : Count(X, v) = 3 => v \in 2..14 /\ v <= Trip(X)
    BY SetsAre
  <2> QED BY <1>2, <2>1, <2>2
<1>4. Paired(X, a)
  BY <1>1, <1>2, <1>3 DEF One, Paired
<1>5. Len(p) >= 1 /\ a <= p[1]
  BY <1>4, PairsAre
<1>6. Paired(X, p[1])
  BY <1>5, PairsAre
<1>7. p[1] \in 2..14
  BY <1>6, PairsAre
<1>8. ASSUME a = p[1]
      PROVE  c <= Kicker(X, ex, 1) /\ x <= Kicker(X, ex, 2) /\ y <= Kicker(X, ex, 3)
  <2>1. PICK from, n : from = 2 /\ n = 3
    OBVIOUS
  <2>2. /\ n \in 1..5 /\ from \in 0..(5 - n) /\ 1..n = {1, 2, 3}
        /\ from + 1 = 3 /\ from + 2 = 4 /\ from + 3 = 5
    BY <2>1
  <2>3. \A i \in 1..n : Value(e[from + i]) \notin ex
    BY <1>1, <1>2, <1>8, <2>2
  <2>4. \A i, j \in 1..n : i < j => Value(e[from + i]) >= Value(e[from + j])
    BY <1>1, <1>2, <2>2
  <2>5. \A i \in 1..n : Value(e[from + i]) <= Kicker(X, ex, i)
    BY <2>2, <2>3, <2>4, LaidOut
  <2> QED BY <1>2, <2>2, <2>5
<1>9. Kicker(X, ex, 1) \in Int /\ Kicker(X, ex, 2) \in Int /\ Kicker(X, ex, 3) \in Int
  <2>1. \A i \in 1..5 : Kicker(X, ex, i) \in Int
    BY KickerIs
  <2> QED BY <2>1
<1>10. PICK f, g, h : f = Kicker(X, ex, 1) /\ g = Kicker(X, ex, 2) /\ h = Kicker(X, ex, 3)
  OBVIOUS
<1>11. a < p[1] \/ (a = p[1] /\ c <= f /\ x <= g /\ y <= h)
  BY <1>2, <1>5, <1>7, <1>8, <1>10
<1>12. LexAtMost(a, b, c, x, y, p[1], p[1], f, g, h)
  BY <1>1, <1>2, <1>7, <1>9, <1>10, <1>11 DEF LexAtMost
<1> QED BY <1>5, <1>10, <1>12

\* Five different ranks among some cards.
LEMMA HighAtMost ==
  ASSUME NEW X, X \in SUBSET EvalDeck, NEW e, Five(e), Firsts(e, 5) \subseteq X,
         NEW a, NEW b, NEW c, NEW x, NEW y, Among(X, e, a, b, c, x, y),
         Falling(a, b, c, x, y), NEW ex, ex = {}
  PROVE  LexAtMost(a, b, c, x, y, Kicker(X, ex, 1), Kicker(X, ex, 2), Kicker(X, ex, 3),
                   Kicker(X, ex, 4), Kicker(X, ex, 5))
<1>1. a > b /\ b > c /\ c > x /\ x > y
  BY DEF Falling
<1>2. /\ a \in 2..14 /\ b \in 2..14 /\ c \in 2..14 /\ x \in 2..14 /\ y \in 2..14
      /\ a = Value(e[1]) /\ b = Value(e[2]) /\ c = Value(e[3]) /\ x = Value(e[4]) /\ y = Value(e[5])
  BY DEF Among
<1>3. PICK from, n : from = 0 /\ n = 5
  OBVIOUS
<1>4. /\ n \in 1..5 /\ from \in 0..(5 - n) /\ 1..n = {1, 2, 3, 4, 5} /\ from + 1 = 1 /\ from + 2 = 2
      /\ from + 3 = 3 /\ from + 4 = 4 /\ from + 5 = 5
  BY <1>3
<1>5. \A i \in 1..n : Value(e[from + i]) \notin ex
  OBVIOUS
<1>6. \A i, j \in 1..n : i < j => Value(e[from + i]) >= Value(e[from + j])
  BY <1>1, <1>2, <1>4
<1>7. \A i \in 1..n : Value(e[from + i]) <= Kicker(X, ex, i)
  BY <1>4, <1>5, <1>6, LaidOut
<1>8. \A i \in 1..5 : Kicker(X, ex, i) \in Int
  BY KickerIs
<1>9. PICK p, q, r, s, t : /\ p = Kicker(X, ex, 1) /\ q = Kicker(X, ex, 2) /\ r = Kicker(X, ex, 3)
                           /\ s = Kicker(X, ex, 4) /\ t = Kicker(X, ex, 5)
  OBVIOUS
<1>10. /\ p \in Int /\ q \in Int /\ r \in Int /\ s \in Int /\ t \in Int
       /\ a <= p /\ b <= q /\ c <= r /\ x <= s /\ y <= t
  BY <1>2, <1>4, <1>7, <1>8, <1>9
<1>11. LexAtMost(a, b, c, x, y, p, q, r, s, t)
  BY <1>2, <1>10 DEF LexAtMost
<1> QED BY <1>9, <1>11

\* Five cards that follow one another among some cards.
LEMMA RunsAtMost ==
  ASSUME NEW X, X \in SUBSET EvalDeck, NEW e, NEW a, NEW b, NEW c, NEW x, NEW y,
         Among(X, e, a, b, c, x, y), Falling(a, b, c, x, y), Follow(a, b, c, x, y)
  PROVE  /\ StraightHigh(Values(X)) # 0 /\ StraightHigh(Values(X)) \in Int
         /\ (IF a = 14 /\ b = 5 THEN 5 ELSE a) <= StraightHigh(Values(X))
<1>1. PICK V : V = Values(X)
  OBVIOUS
<1>2. V \subseteq 2..14 /\ {a, b, c, x, y} \subseteq V
  BY <1>1, FourSuits DEF Among
<1> QED BY <1>1, <1>2, RunAmong

\* Five cards of one suit among some cards.
LEMMA SuitsAtMost ==
  ASSUME NEW X, X \in SUBSET EvalDeck, Cardinality(X) <= 7,
         NEW e, Five(e), Firsts(e, 5) \subseteq X, NEW a, NEW b, NEW c, NEW x, NEW y,
         Among(X, e, a, b, c, x, y), Falling(a, b, c, x, y), OneSuit(e), NEW f, f = BestFlush(X)
  PROVE  /\ f # <<>> /\ LexAtMost(a, b, c, x, y, f[1], f[2], f[3], f[4], f[5])
         /\ Follow(a, b, c, x, y) =>
              /\ StraightFlushHigh(X) # 0 /\ StraightFlushHigh(X) \in Int
              /\ (IF a = 14 /\ b = 5 THEN 5 ELSE a) <= StraightFlushHigh(X)
<1>1. PICK s : s = e[1].suit
  OBVIOUS
<1>2. PICK Y : Y = OfSuit(X, s)
  OBVIOUS
<1>3. Y \in SUBSET EvalDeck /\ Y \in SUBSET X /\ Firsts(e, 5) \in SUBSET Y
  <2>1. \A i \in 1..5 : e[i] \in X /\ e[i].suit = s
    BY <1>1 DEF Firsts, OneSuit
  <2> QED BY <1>2, <2>1 DEF OfSuit, Firsts
<1>4. /\ a > b /\ b > c /\ c > x /\ x > y
      /\ a \in 2..14 /\ b \in 2..14 /\ c \in 2..14 /\ x \in 2..14 /\ y \in 2..14
      /\ a = Value(e[1]) /\ b = Value(e[2]) /\ c = Value(e[3]) /\ x = Value(e[4]) /\ y = Value(e[5])
  BY DEF Falling, Among
<1>5. \A i \in 1..5 : e[i] \in Y
  BY <1>3 DEF Firsts
<1>6. PICK n : n = 5
  OBVIOUS
<1>7. Descends(e, n, Y)
  <2>1. e \in [1..n -> Y] /\ \A i, j \in 1..n : e[i] = e[j] => i = j
    BY <1>5, <1>6 DEF Five
  <2>2. 1..n = {1, 2, 3, 4, 5}
    BY <1>6
  <2>3. \A i, j \in 1..n : i < j => Value(e[i]) >= Value(e[j])
    BY <1>4, <2>2
  <2> QED BY <2>1, <2>3 DEF Descends
<1>8. n \in Nat /\ n <= Cardinality(Y) /\ \A i \in 1..n : Value(e[i]) <= Nth(Y, i)
  BY <1>3, <1>6, <1>7, NthIsHighest
<1>9. s \in FlushSuits(X)
  <2>1. e[1] \in X /\ Cardinality(Y) >= 5
    BY <1>3, <1>5, <1>6, <1>8, PartCounted
  <2>2. Y = {z \in X : z.suit = s}
    BY <1>2 DEF OfSuit
  <2> QED BY <1>1, <2>1, <2>2 DEF FlushSuits
<1>10. /\ f \in Seq(Int) /\ Len(f) = 5 /\ \A i \in 1..5 : f[i] = Nth(Y, i)
       /\ StraightFlushHigh(X) = StraightHigh(Values(Y))
  BY <1>2, <1>9, FlushIs
<1>11. \A i \in 1..5 : f[i] \in Int /\ Value(e[i]) <= f[i]
  BY <1>6, <1>8, <1>10, ElementOfSeq
<1>12. PICK p, q, r, u, t : p = f[1] /\ q = f[2] /\ r = f[3] /\ u = f[4] /\ t = f[5]
  OBVIOUS
<1>13. /\ p \in Int /\ q \in Int /\ r \in Int /\ u \in Int /\ t \in Int
       /\ a <= p /\ b <= q /\ c <= r /\ x <= u /\ y <= t
  BY <1>4, <1>11, <1>12
<1>14. LexAtMost(a, b, c, x, y, p, q, r, u, t)
  BY <1>4, <1>13 DEF LexAtMost
<1>15. PICK V : V = Values(Y)
  OBVIOUS
<1>16. {a, b, c, x, y} \subseteq V /\ V \subseteq 2..14
  <2>1. \A i \in 1..5 : Value(e[i]) \in V
    BY <1>5, <1>15 DEF Values
  <2> QED BY <1>3, <1>4, <1>15, <2>1, FourSuits
<1>17. Follow(a, b, c, x, y) =>
         /\ StraightHigh(V) # 0 /\ StraightHigh(V) \in Int
         /\ (IF a = 14 /\ b = 5 THEN 5 ELSE a) <= StraightHigh(V)
  BY <1>16, RunAmong
<1>18. f # <<>>
  <2>1. Len(<<>>) # 5
    OBVIOUS
  <2> QED BY <1>10, <2>1, Zenon
<1> QED BY <1>10, <1>12, <1>14, <1>15, <1>17, <1>18

\* A lower class is worth less.
LEMMA LowerClass ==
  ASSUME NEW u, NEW w, u[1] \in Int, w[1] \in Int, u[1] < w[1]
  PROVE  ~Beats(u, w)
<1> SUFFICES ASSUME NEW i \in 1..6, u[i] > w[i], \A j \in 1..(i - 1) : u[j] = w[j] PROVE FALSE
  BY DEF Beats
<1>1. CASE i = 1
  BY <1>1
<1>2. CASE i # 1
  <2>1. u[1] = w[1]
    BY <1>2
  <2> QED BY <2>1
<1> QED BY <1>1, <1>2

\* Five of the cards are of no higher class than the highest that fits, and in it no better.
LEMMA NoneWorthMore ==
  ASSUME NEW X, X \in SUBSET EvalDeck, Cardinality(X) <= 7,
         NEW e, Five(e), Firsts(e, 5) \subseteq X, NEW k, k \in 1..9, Shaped5(k, e),
         NEW m, m \in 1..9, NEW r, Reading(X, m, r), NoneAbove(X, m)
  PROVE  k <= m /\ ~Beats(FaceIs(k, e), r)
<1>1. PICK a, b, c, x, y : a = Value(e[1]) /\ b = Value(e[2]) /\ c = Value(e[3]) /\ x = Value(e[4])
                           /\ y = Value(e[5])
  OBVIOUS
<1>2. Among(X, e, a, b, c, x, y)
  BY <1>1, AmongHolds
<1>3. Shape(k, a, b, c, x, y, OneSuit(e))
  BY <1>1 DEF Shaped5
<1>4. /\ a \in Int /\ b \in Int /\ c \in Int /\ x \in Int /\ y \in Int /\ k \in Int /\ m \in Int
  BY <1>2 DEF Among
<1>5. PICK u : u = FaceIs(k, e)
  OBVIOUS
<1>6. /\ k \notin {5, 9} => u = <<k, a, b, c, x, y>>
      /\ k \in {5, 9} => u = <<k, IF a = 14 /\ b = 5 THEN 5 ELSE a, 0, 0, 0, 0>>
  BY <1>1, <1>5 DEF FaceIs
<1>7. ASSUME k < m PROVE ~Beats(u, r)
  <2>1. u[1] = k
    BY <1>6
  <2>2. r[1] = m
    BY DEF Reading
  <2> QED BY <1>4, <1>7, <2>1, <2>2, LowerClass
<1>8. ASSUME ~(k < m) PROVE k = m /\ ~Beats(u, r)
  <2>1. m <= k
    BY <1>4, <1>8
  <2>2. PICK q, t, p, f, h, g : /\ q = Quad(X) /\ t = Trip(X) /\ p = Pairs(X) /\ f = BestFlush(X)
                                /\ h = StraightHigh(Values(X)) /\ g = StraightFlushHigh(X)
    OBVIOUS
  <2>3. q \in Int /\ t \in Int
    BY <2>2, SetsAre
  <2>4. Len(p) >= 1 => p[1] \in Int
    BY <2>2, PairsAre
  <2>5. Len(p) >= 2 => p[2] \in Int
    BY <2>2, PairsAre
  <2>6. \A ex : \A i \in 1..5 : Kicker(X, ex, i) \in Int
    BY KickerIs
  <2>7. k = 1 \/ k = 2 \/ k = 3 \/ k = 4 \/ k = 5 \/ k = 6 \/ k = 7 \/ k = 8 \/ k = 9
    OBVIOUS
  <2>8. CASE k = 8
    <3>1. PICK ex : ex = {q}
      OBVIOUS
    <3>2. q # 0 /\ LexAtMost(a, b, c, x, y, q, q, q, q, Kicker(X, ex, 1))
      BY <1>2, <1>3, <2>2, <2>8, <3>1, FoursAtMost
    <3>3. m = 8
      BY <1>4, <2>1, <2>2, <2>8, <3>2 DEF NoneAbove
    <3>4. r = <<m, q, q, q, q, Kicker(X, ex, 1)>>
      BY <2>2, <3>1, <3>3 DEF Reading
    <3>5. PICK z : z = Kicker(X, ex, 1)
      OBVIOUS
    <3>6. z \in Int
      BY <2>6, <3>5
    <3> QED BY <1>4, <1>6, <2>3, <2>8, <3>2, <3>3, <3>4, <3>5, <3>6, NotBeaten
  <2>9. CASE k = 7
    <3>1. q = 0
      BY <1>4, <2>1, <2>2, <2>9 DEF NoneAbove
    <3>2. t # 0 /\ Len(p) >= 1 /\ LexAtMost(a, b, c, x, y, t, t, t, p[1], p[1])
      BY <1>2, <1>3, <2>2, <2>9, <3>1, HousesAtMost
    <3>3. m = 7
      BY <1>4, <2>1, <2>2, <2>9, <3>2 DEF NoneAbove
    <3>4. r = <<m, t, t, t, p[1], p[1]>>
      BY <2>2, <3>3 DEF Reading
    <3>5. PICK z : z = p[1]
      OBVIOUS
    <3>6. z \in Int
      BY <2>4, <3>2, <3>5
    <3> QED BY <1>4, <1>6, <2>3, <2>9, <3>2, <3>3, <3>4, <3>5, <3>6, NotBeaten
  <2>10. CASE k = 4
    <3>1. q = 0
      BY <1>4, <2>1, <2>2, <2>10 DEF NoneAbove
    <3>2. PICK ex : ex = {t}
      OBVIOUS
    <3>3. t # 0 /\ LexAtMost(a, b, c, x, y, t, t, t, Kicker(X, ex, 1), Kicker(X, ex, 2))
      BY <1>2, <1>3, <2>2, <2>10, <3>1, <3>2, ThreesAtMost
    <3>4. m = 4
      BY <1>4, <2>1, <2>2, <2>10, <3>3 DEF NoneAbove
    <3>5. r = <<m, t, t, t, Kicker(X, ex, 1), Kicker(X, ex, 2)>>
      BY <2>2, <3>2, <3>4 DEF Reading
    <3>6. PICK z, w : z = Kicker(X, ex, 1) /\ w = Kicker(X, ex, 2)
      OBVIOUS
    <3>7. z \in Int /\ w \in Int
      BY <2>6, <3>6
    <3> QED BY <1>4, <1>6, <2>3, <2>10, <3>3, <3>4, <3>5, <3>6, <3>7, NotBeaten
  <2>11. CASE k = 3
    <3>1. q = 0 /\ t = 0
      BY <1>4, <2>1, <2>2, <2>11 DEF NoneAbove
    <3>2. PICK ex : ex = {p[1], p[2]}
      OBVIOUS
    <3>3. Len(p) >= 2 /\ LexAtMost(a, b, c, x, y, p[1], p[1], p[2], p[2], Kicker(X, ex, 1))
      BY <1>2, <1>3, <2>2, <2>11, <3>1, <3>2, TwoPairsAtMost
    <3>4. m = 3
      BY <1>4, <2>1, <2>2, <2>11, <3>3 DEF NoneAbove
    <3>5. r = <<m, p[1], p[1], p[2], p[2], Kicker(X, ex, 1)>>
      BY <2>2, <3>2, <3>4 DEF Reading
    <3>6. PICK z, w, v : z = Kicker(X, ex, 1) /\ w = p[1] /\ v = p[2]
      OBVIOUS
    <3>7. z \in Int /\ w \in Int /\ v \in Int
      <4>1. Len(p) >= 1
        BY <2>2, <3>3, PairsAre
      <4> QED BY <2>4, <2>5, <2>6, <3>3, <3>6, <4>1
    <3> QED BY <1>4, <1>6, <2>11, <3>3, <3>4, <3>5, <3>6, <3>7, NotBeaten
  <2>12. CASE k = 2
    <3>1. q = 0 /\ t = 0
      BY <1>4, <2>1, <2>2, <2>12 DEF NoneAbove
    <3>2. PICK ex : ex = {p[1]}
      OBVIOUS
    <3>3. /\ Len(p) >= 1
          /\ LexAtMost(a, b, c, x, y, p[1], p[1], Kicker(X, ex, 1), Kicker(X, ex, 2), Kicker(X, ex, 3))
      BY <1>2, <1>3, <2>2, <2>12, <3>1, <3>2, PairAtMost
    <3>4. m = 2
      BY <1>4, <2>1, <2>2, <2>12, <3>3 DEF NoneAbove
    <3>5. r = <<m, p[1], p[1], Kicker(X, ex, 1), Kicker(X, ex, 2), Kicker(X, ex, 3)>>
      BY <2>2, <3>2, <3>4 DEF Reading
    <3>6. PICK z, w, v, n : /\ z = Kicker(X, ex, 1) /\ w = Kicker(X, ex, 2) /\ v = Kicker(X, ex, 3)
                            /\ n = p[1]
      OBVIOUS
    <3>7. z \in Int /\ w \in Int /\ v \in Int /\ n \in Int
      BY <2>4, <2>6, <3>3, <3>6
    <3> QED BY <1>4, <1>6, <2>12, <3>3, <3>4, <3>5, <3>6, <3>7, NotBeaten
  <2>13. CASE k = 1
    <3>1. m = 1
      BY <1>4, <2>1, <2>13
    <3>2. PICK ex : ex = {}
      OBVIOUS
    <3>3. Falling(a, b, c, x, y)
      BY <1>3, <2>13 DEF Shape
    <3>4. LexAtMost(a, b, c, x, y, Kicker(X, ex, 1), Kicker(X, ex, 2), Kicker(X, ex, 3),
                    Kicker(X, ex, 4), Kicker(X, ex, 5))
      BY <1>2, <3>2, <3>3, HighAtMost
    <3>5. r = <<m, Kicker(X, ex, 1), Kicker(X, ex, 2), Kicker(X, ex, 3), Kicker(X, ex, 4),
                Kicker(X, ex, 5)>>
      BY <3>1, <3>2 DEF Reading
    <3>6. PICK z, w, v, n, o : /\ z = Kicker(X, ex, 1) /\ w = Kicker(X, ex, 2) /\ v = Kicker(X, ex, 3)
                               /\ n = Kicker(X, ex, 4) /\ o = Kicker(X, ex, 5)
      OBVIOUS
    <3>7. z \in Int /\ w \in Int /\ v \in Int /\ n \in Int /\ o \in Int
      BY <2>6, <3>6
    <3> QED BY <1>4, <1>6, <2>13, <3>1, <3>4, <3>5, <3>6, <3>7, NotBeaten
  <2>14. CASE k = 6
    <3>1. Falling(a, b, c, x, y) /\ OneSuit(e)
      BY <1>3, <2>14 DEF Shape
    <3>2. f # <<>> /\ LexAtMost(a, b, c, x, y, f[1], f[2], f[3], f[4], f[5])
      BY <1>2, <2>2, <3>1, SuitsAtMost
    <3>3. m = 6
      BY <1>4, <2>1, <2>2, <2>14, <3>2 DEF NoneAbove
    <3>4. r = <<m, f[1], f[2], f[3], f[4], f[5]>>
      BY <2>2, <3>3 DEF Reading
    <3>5. \A i \in 1..5 : f[i] \in Int
      <4>1. f \in Seq(Int) /\ Len(f) = 5
        BY <2>2, <3>2, FlushIs
      <4> QED BY <4>1, ElementOfSeq
    <3>6. PICK z, w, v, n, o : z = f[1] /\ w = f[2] /\ v = f[3] /\ n = f[4] /\ o = f[5]
      OBVIOUS
    <3>7. z \in Int /\ w \in Int /\ v \in Int /\ n \in Int /\ o \in Int
      BY <3>5, <3>6
    <3>8. LexAtMost(a, b, c, x, y, z, w, v, n, o) /\ r = <<m, z, w, v, n, o>>
      BY <3>2, <3>4, <3>6
    <3>9. u = <<k, a, b, c, x, y>> /\ k = m
      BY <1>6, <2>14, <3>3
    <3> QED BY <1>4, <3>7, <3>8, <3>9, NotBeaten
  <2>15. PICK top : top = IF a = 14 /\ b = 5 THEN 5 ELSE a
    OBVIOUS
  <2>16. top \in Int /\ 0 \in Int
    BY <1>4, <2>15
  <2>17. CASE k = 5
    <3>1. Falling(a, b, c, x, y) /\ Follow(a, b, c, x, y)
      BY <1>3, <2>17 DEF Shape
    <3>2. h # 0 /\ h \in Int /\ top <= h
      BY <1>2, <2>2, <2>15, <3>1, RunsAtMost
    <3>3. m = 5
      BY <1>4, <2>1, <2>2, <2>17, <3>2 DEF NoneAbove
    <3>4. r = <<m, h, 0, 0, 0, 0>>
      BY <2>2, <3>3 DEF Reading
    <3>5. u = <<k, top, 0, 0, 0, 0>>
      BY <1>6, <2>15, <2>17
    <3>6. LexAtMost(top, 0, 0, 0, 0, h, 0, 0, 0, 0)
      BY <2>16, <3>2 DEF LexAtMost
    <3> QED BY <1>4, <2>16, <2>17, <3>2, <3>3, <3>4, <3>5, <3>6, NotBeaten
  <2>18. CASE k = 9
    <3>1. Falling(a, b, c, x, y) /\ Follow(a, b, c, x, y) /\ OneSuit(e)
      BY <1>3, <2>18 DEF Shape
    <3>2. g # 0 /\ g \in Int /\ top <= g
      BY <1>2, <2>2, <2>15, <3>1, SuitsAtMost
    <3>3. m = 9
      BY <1>4, <2>1, <2>2, <2>18, <3>2 DEF NoneAbove
    <3>4. r = <<m, g, 0, 0, 0, 0>>
      BY <2>2, <3>3 DEF Reading
    <3>5. u = <<k, top, 0, 0, 0, 0>>
      BY <1>6, <2>15, <2>18
    <3>6. LexAtMost(top, 0, 0, 0, 0, g, 0, 0, 0, 0)
      BY <2>16, <3>2 DEF LexAtMost
    <3> QED BY <1>4, <2>16, <2>18, <3>2, <3>3, <3>4, <3>5, <3>6, NotBeaten
  <2>19. k = 1 \/ k = 2 \/ k = 3 \/ k = 4 => k = m /\ ~Beats(u, r)
    BY <2>10, <2>11, <2>12, <2>13
  <2>20. k = 5 \/ k = 6 \/ k = 7 \/ k = 8 \/ k = 9 => k = m /\ ~Beats(u, r)
    BY <2>8, <2>9, <2>14, <2>17, <2>18
  <2> QED BY <2>7, <2>19, <2>20
<1> QED BY <1>4, <1>5, <1>7, <1>8

-----------------------------------------------------------------------------
(* The evaluator: five cards that are worth as much *)

Picks(g, n, Y) == g \in [1..n -> Y] /\ \A i, j \in 1..n : g[i] = g[j] => i = j

\* Some cards and, behind them, others.
Joins(e, g, n, h, l, Y, Z) ==
  /\ Picks(e, n + l, Y \cup Z) /\ \A i \in 1..n : e[i] = g[i]
  /\ \A i \in 1..l : e[n + i] = h[i]

\* Cards from two parts that have none in common can be picked one part after the other.
LEMMA Joined ==
  ASSUME NEW Y, NEW Z, \A c \in Y : c \notin Z, NEW n, n \in Nat, NEW l, l \in Nat,
         NEW g, Picks(g, n, Y), NEW h, Picks(h, l, Z)
  PROVE  \E e : Joins(e, g, n, h, l, Y, Z)
<1>1. PICK e : e = [i \in 1..(n + l) |-> IF i <= n THEN g[i] ELSE h[i - n]]
  OBVIOUS
<1>2. ASSUME NEW i \in 1..(n + l)
      PROVE  \/ i \in 1..n /\ e[i] = g[i] /\ e[i] \in Y
             \/ i \notin 1..n /\ i - n \in 1..l /\ e[i] = h[i - n] /\ e[i] \in Z
  <2>1. CASE i <= n
    <3>1. i \in 1..n /\ e[i] = g[i]
      BY <1>1, <2>1
    <3> QED BY <3>1 DEF Picks
  <2>2. CASE ~(i <= n)
    <3>1. i \notin 1..n /\ i - n \in 1..l /\ e[i] = h[i - n]
      BY <1>1, <2>2
    <3> QED BY <3>1 DEF Picks
  <2> QED BY <2>1, <2>2
<1>3. e \in [1..(n + l) -> Y \cup Z]
  <2>1. \A i \in 1..(n + l) : e[i] \in Y \cup Z
    BY <1>2
  <2> QED BY <1>1, <2>1
<1>4. ASSUME NEW i \in 1..(n + l), NEW j \in 1..(n + l), e[i] = e[j] PROVE i = j
  <2>1. CASE i \in 1..n
    <3>1. e[i] = g[i] /\ e[i] \in Y
      BY <1>2, <2>1
    <3>2. j \in 1..n /\ e[j] = g[j]
      BY <1>2, <1>4, <3>1
    <3> QED BY <1>4, <2>1, <3>1, <3>2 DEF Picks
  <2>2. CASE i \notin 1..n
    <3>1. i - n \in 1..l /\ e[i] = h[i - n] /\ e[i] \in Z
      BY <1>2, <2>2
    <3>2. j - n \in 1..l /\ e[j] = h[j - n]
      BY <1>2, <1>4, <3>1
    <3>3. i - n = j - n
      BY <1>4, <3>1, <3>2 DEF Picks
    <3> QED BY <3>3
  <2> QED BY <2>1, <2>2
<1>5. ASSUME NEW i \in 1..n PROVE e[i] = g[i]
  BY <1>1
<1>6. ASSUME NEW i \in 1..l PROVE e[n + i] = h[i]
  BY <1>1
<1> QED BY <1>3, <1>4, <1>5, <1>6 DEF Picks, Joins

\* Cards of one value.
LEMMA SameDealt ==
  ASSUME NEW X, X \in SUBSET EvalDeck, NEW v, NEW n, n \in 1..4, n <= Count(X, v)
  PROVE  \E g : Picks(g, n, {c \in X : Value(c) = v})
<1>1. PICK Y : Y = {c \in X : Value(c) = v}
  OBVIOUS
<1>2. Y \in SUBSET EvalDeck /\ Cardinality(Y) \in Nat /\ n <= Cardinality(Y)
  <2>1. Y \in SUBSET EvalDeck
    BY <1>1
  <2> QED BY <1>1, <2>1, PartCounted DEF Count
<1>3. n \in 0..Cardinality(Y)
  BY <1>2
<1>4. \E g : Descends(g, n, Y)
  BY <1>2, <1>3, NthIsDealt
<1> QED BY <1>1, <1>4 DEF Descends, Picks

\* Five picks from some cards are five cards among them.
LEMMA PickedFive ==
  ASSUME NEW X, X \in SUBSET EvalDeck, NEW e, Picks(e, 5, X)
  PROVE  Five(e) /\ Firsts(e, 5) \subseteq X
BY DEF Picks, Five, Firsts

\* Two cards of a value are a pair unless there are more.
LEMMA TwoOfValue ==
  ASSUME NEW X, X \in SUBSET EvalDeck, Quad(X) = 0, NEW c, c \in X, NEW z, z \in X, c # z,
         Value(c) = Value(z), Value(c) # Trip(X)
  PROVE  Paired(X, Value(c))
<1>1. PICK S, v : S = {y \in X : Value(y) = v} /\ v = Value(c)
  OBVIOUS
<1>2. v \in 2..14 /\ S \in SUBSET EvalDeck /\ Cardinality(S) = Count(X, v) /\ Count(X, v) \in 0..4
  <2>1. v \in 2..14 /\ S \in SUBSET EvalDeck
    BY <1>1, ValueIs
  <2>2. Cardinality(S) = Count(X, v)
    BY <1>1 DEF Count
  <2>3. Count(X, v) \in 0..4
    BY FourSuits
  <2> QED BY <2>1, <2>2, <2>3
<1>3. Cardinality(S) >= 2
  <2>1. IsFiniteSet(S) /\ c \in S /\ z \in S \ {c}
    BY <1>1, <1>2, PartCounted
  <2>2. IsFiniteSet(S \ {c}) /\ Cardinality(S) = Cardinality(S \ {c}) + 1 /\ Cardinality(S \ {c}) \in Nat
    BY <2>1, CardCounts
  <2>3. Cardinality(S \ {c}) = Cardinality((S \ {c}) \ {z}) + 1 /\ Cardinality((S \ {c}) \ {z}) \in Nat
    BY <2>1, <2>2, CardCounts
  <2> QED BY <2>2, <2>3
<1>4. Count(X, v) # 4
  <2>1. Count(X, v) = 4 => v <= Quad(X)
    BY SetsAre
  <2> QED BY <1>2, <2>1
<1> QED BY <1>1, <1>2, <1>3, <1>4 DEF Paired

\* Cards of five different values among some cards.
LEMMA RunDealt ==
  ASSUME NEW Y, NEW a, NEW b, NEW c, NEW x, NEW y, a \in Values(Y), b \in Values(Y), c \in Values(Y),
         x \in Values(Y), y \in Values(Y), Y \in SUBSET EvalDeck, Falling(a, b, c, x, y)
  PROVE  \E e : /\ Picks(e, 5, Y) /\ Value(e[1]) = a /\ Value(e[2]) = b /\ Value(e[3]) = c
                /\ Value(e[4]) = x /\ Value(e[5]) = y
<1>1. PICK ca \in Y, cb \in Y, cc \in Y, cx \in Y, cy \in Y :
        Value(ca) = a /\ Value(cb) = b /\ Value(cc) = c /\ Value(cx) = x /\ Value(cy) = y
  BY DEF Values
<1>2. PICK e : e = [i \in 1..5 |-> CASE i = 1 -> ca [] i = 2 -> cb [] i = 3 -> cc [] i = 4 -> cx
                                     [] i = 5 -> cy]
  OBVIOUS
<1>3. e[1] = ca /\ e[2] = cb /\ e[3] = cc /\ e[4] = cx /\ e[5] = cy
  BY <1>2
<1>4. \A i \in 1..5 : i = 1 \/ i = 2 \/ i = 3 \/ i = 4 \/ i = 5
  OBVIOUS
<1>5. e \in [1..5 -> Y]
  <2>1. \A i \in 1..5 : e[i] \in Y
    BY <1>3, <1>4
  <2> QED BY <1>2, <2>1
<1>6. a \in Int /\ b \in Int /\ c \in Int /\ x \in Int /\ y \in Int
  <2>1. Values(Y) \subseteq 2..14
    BY FourSuits
  <2> QED BY <2>1
<1>7. \A i, j \in 1..5 : e[i] = e[j] => i = j
  <2>1. a > b /\ b > c /\ c > x /\ x > y
    BY DEF Falling
  <2>2. /\ a # b /\ a # c /\ a # x /\ a # y /\ b # c /\ b # x /\ b # y /\ c # x /\ c # y /\ x # y
    BY <1>6, <2>1
  <2> QED BY <1>1, <1>3, <1>4, <2>2
<1> QED BY <1>1, <1>3, <1>5, <1>7 DEF Picks

\* Five of the cards are of a class and worth so much.
AsGood(X, m, r) ==
  \E e : Five(e) /\ Firsts(e, 5) \subseteq X /\ Shaped5(m, e) /\ FaceIs(m, e) = r

\* Five picks that lie as a class wants have its value.
LEMMA AsGoodBy ==
  ASSUME NEW X, X \in SUBSET EvalDeck, NEW e, Picks(e, 5, X), NEW m,
         NEW a, NEW b, NEW c, NEW x, NEW y, a = Value(e[1]), b = Value(e[2]), c = Value(e[3]),
         x = Value(e[4]), y = Value(e[5]), Shape(m, a, b, c, x, y, OneSuit(e)),
         NEW r, IF m \in {5, 9} THEN r = <<m, IF a = 14 /\ b = 5 THEN 5 ELSE a, 0, 0, 0, 0>>
                ELSE r = <<m, a, b, c, x, y>>
  PROVE  AsGood(X, m, r)
<1>1. Five(e) /\ Firsts(e, 5) \subseteq X
  BY PickedFive
<1>2. Shaped5(m, e)
  BY DEF Shaped5
<1>3. FaceIs(m, e) = r
  BY DEF FaceIs
<1> QED BY <1>1, <1>2, <1>3 DEF AsGood

\* Four of a kind and the highest other card are there.
LEMMA FoursDealt ==
  ASSUME NEW X, X \in SUBSET EvalDeck, Cardinality(X) \in 5..7, NEW r, Reading(X, 8, r)
  PROVE  AsGood(X, 8, r)
<1>1. PICK q, ex : q = Quad(X) /\ ex = {q}
  OBVIOUS
<1>2. q # 0 /\ r = <<8, q, q, q, q, Kicker(X, ex, 1)>>
  BY <1>1 DEF Reading
<1>3. Count(X, q) = 4
  BY <1>1, <1>2, SetsAre
<1>4. PICK n, l : n = 4 /\ l = 1
  OBVIOUS
<1>5. PICK Y, Z : Y = {c \in X : Value(c) = q} /\ Z = Others(X, ex)
  OBVIOUS
<1>6. PICK g : Picks(g, n, Y)
  <2>1. n \in 1..4 /\ n <= Count(X, q)
    BY <1>3, <1>4
  <2> QED BY <1>5, <2>1, SameDealt
<1>7. l <= Cardinality(Z)
  <2>1. Cardinality(X) = Cardinality(Z) + Count(X, q) /\ Cardinality(Z) \in Nat
    BY <1>1, <1>5, OthersCounted, KickerIs
  <2> QED BY <1>3, <1>4, <2>1
<1>8. PICK h : Descends(h, l, Z) /\ \A i \in 1..l : Value(h[i]) = Kicker(X, ex, i)
  <2>1. l \in 1..5
    BY <1>4
  <2> QED BY <1>5, <1>7, <2>1, KickersDealt
<1>9. Y \cup Z \subseteq X /\ \A c \in Y : c \notin Z
  BY <1>1, <1>5 DEF Others
<1>10. PICK e : Joins(e, g, n, h, l, Y, Z)
  <2>1. Picks(h, l, Z) /\ n \in Nat /\ l \in Nat
    BY <1>4, <1>8 DEF Descends, Picks
  <2> QED BY <1>6, <1>9, <2>1, Joined
<1>11. Picks(e, 5, X)
  BY <1>4, <1>9, <1>10 DEF Picks, Joins
<1>12. \A i \in 1..n : Value(e[i]) = q
  BY <1>5, <1>6, <1>10 DEF Picks, Joins
<1>13. /\ Value(e[1]) = q /\ Value(e[2]) = q /\ Value(e[3]) = q /\ Value(e[4]) = q
       /\ Value(e[5]) = Kicker(X, ex, 1) /\ Value(e[5]) # q
  <2>1. 1 \in 1..l /\ n + 1 = 5
    BY <1>4
  <2>2. e[5] = h[1] /\ Value(h[1]) = Kicker(X, ex, 1) /\ h[1] \in Z
    BY <1>8, <1>10, <2>1 DEF Descends, Joins
  <2>3. Value(h[1]) # q
    BY <1>1, <1>5, <2>2 DEF Others
  <2> QED BY <1>4, <1>12, <2>2, <2>3
<1>14. PICK a, b, c, x, y, m : /\ a = Value(e[1]) /\ b = Value(e[2]) /\ c = Value(e[3])
                               /\ x = Value(e[4]) /\ y = Value(e[5]) /\ m = 8
  OBVIOUS
<1>15. Shape(m, a, b, c, x, y, OneSuit(e))
  BY <1>13, <1>14 DEF Shape
<1>16. r = <<m, a, b, c, x, y>> /\ m \notin {5, 9}
  BY <1>2, <1>13, <1>14
<1> QED BY <1>11, <1>14, <1>15, <1>16, AsGoodBy

\* Three of a kind and a second pair, or two of a second three, are there.
LEMMA HousesDealt ==
  ASSUME NEW X, X \in SUBSET EvalDeck, NEW r, Reading(X, 7, r)
  PROVE  AsGood(X, 7, r)
<1>1. PICK t, p : t = Trip(X) /\ p = Pairs(X)[1]
  OBVIOUS
<1>2. t # 0 /\ Len(Pairs(X)) >= 1 /\ r = <<7, t, t, t, p, p>>
  BY <1>1 DEF Reading
<1>3. Count(X, t) = 3
  BY <1>1, <1>2, SetsAre
<1>4. Paired(X, p)
  BY <1>1, <1>2, PairsAre
<1>5. p # t /\ Count(X, p) \in 2..3
  BY <1>1, <1>3, <1>4 DEF Paired
<1>6. PICK n, l : n = 3 /\ l = 2
  OBVIOUS
<1>7. PICK Y, Z : Y = {c \in X : Value(c) = t} /\ Z = {c \in X : Value(c) = p}
  OBVIOUS
<1>8. PICK g : Picks(g, n, Y)
  <2>1. n \in 1..4 /\ n <= Count(X, t)
    BY <1>3, <1>6
  <2> QED BY <1>7, <2>1, SameDealt
<1>9. PICK h : Picks(h, l, Z)
  <2>1. l \in 1..4 /\ l <= Count(X, p)
    BY <1>5, <1>6
  <2> QED BY <1>7, <2>1, SameDealt
<1>10. Y \cup Z \subseteq X /\ n \in Nat /\ l \in Nat /\ \A c \in Y : c \notin Z
  BY <1>5, <1>6, <1>7
<1>11. PICK e : Joins(e, g, n, h, l, Y, Z)
  BY <1>8, <1>9, <1>10, Joined
<1>12. Picks(e, 5, X)
  BY <1>6, <1>10, <1>11 DEF Picks, Joins
<1>13. /\ \A i \in 1..n : Value(e[i]) = t
       /\ \A i \in 1..l : Value(e[n + i]) = p
  BY <1>7, <1>8, <1>9, <1>11 DEF Picks, Joins
<1>14. /\ Value(e[1]) = t /\ Value(e[2]) = t /\ Value(e[3]) = t /\ Value(e[4]) = p
       /\ Value(e[5]) = p
  <2>1. 1 \in 1..l /\ 2 \in 1..l /\ n + 1 = 4 /\ n + 2 = 5 /\ 1 \in 1..n /\ 2 \in 1..n /\ 3 \in 1..n
    BY <1>6
  <2> QED BY <1>13, <2>1
<1>15. PICK a, b, c, x, y, m : /\ a = Value(e[1]) /\ b = Value(e[2]) /\ c = Value(e[3])
                               /\ x = Value(e[4]) /\ y = Value(e[5]) /\ m = 7
  OBVIOUS
<1>16. Shape(m, a, b, c, x, y, OneSuit(e))
  BY <1>5, <1>14, <1>15 DEF Shape
<1>17. r = <<m, a, b, c, x, y>> /\ m \notin {5, 9}
  BY <1>2, <1>14, <1>15
<1> QED BY <1>12, <1>15, <1>16, <1>17, AsGoodBy

\* The kickers beside a class's ranks are of different values, where no pair is left among them.
LEMMA KickersFall ==
  ASSUME NEW X, X \in SUBSET EvalDeck, Quad(X) = 0, NEW ex, NEW n, n \in 1..5,
         n <= Cardinality(Others(X, ex)), \A v \in 2..14 : Paired(X, v) \/ v = Trip(X) => v \in ex
  PROVE  \E h : /\ Picks(h, n, Others(X, ex)) /\ \A i \in 1..n : Value(h[i]) = Kicker(X, ex, i)
                /\ \A i, j \in 1..n : i < j => Value(h[i]) > Value(h[j])
<1>1. PICK h : Descends(h, n, Others(X, ex)) /\ \A i \in 1..n : Value(h[i]) = Kicker(X, ex, i)
  BY KickersDealt
<1>2. \A i \in 1..n : h[i] \in X /\ Value(h[i]) \notin ex /\ Value(h[i]) \in 2..14
  <2>1. \A i \in 1..n : h[i] \in X /\ Value(h[i]) \notin ex
    BY <1>1 DEF Descends, Others
  <2> QED BY <2>1, ValueIs
<1>3. ASSUME NEW i \in 1..n, NEW j \in 1..n, i < j, ~(Value(h[i]) > Value(h[j])) PROVE FALSE
  <2>1. Value(h[i]) = Value(h[j]) /\ h[i] # h[j]
    <3>1. Value(h[i]) \in Int /\ Value(h[j]) \in Int /\ i # j
      BY <1>2, <1>3
    <3> QED BY <1>1, <1>3, <3>1 DEF Descends
  <2> QED BY <1>2, <2>1, TwoOfValue
<1> QED BY <1>1, <1>3 DEF Descends, Picks

\* Three of a kind and the two highest others, which are no pair, are there.
LEMMA ThreesDealt ==
  ASSUME NEW X, X \in SUBSET EvalDeck, Cardinality(X) \in 5..7, NEW r, Reading(X, 4, r),
         NoneAbove(X, 4)
  PROVE  AsGood(X, 4, r)
<1>1. PICK t, ex : t = Trip(X) /\ ex = {t}
  OBVIOUS
<1>2. t # 0 /\ r = <<4, t, t, t, Kicker(X, ex, 1), Kicker(X, ex, 2)>>
  BY <1>1 DEF Reading
<1>3. Count(X, t) = 3
  BY <1>1, <1>2, SetsAre
<1>4. PICK n, l : n = 3 /\ l = 2
  OBVIOUS
<1>5. PICK Y, Z : Y = {c \in X : Value(c) = t} /\ Z = Others(X, ex)
  OBVIOUS
<1>6. PICK g : Picks(g, n, Y)
  <2>1. n \in 1..4 /\ n <= Count(X, t)
    BY <1>3, <1>4
  <2> QED BY <1>5, <2>1, SameDealt
<1>7. l <= Cardinality(Z)
  <2>1. Cardinality(X) = Cardinality(Z) + Count(X, t) /\ Cardinality(Z) \in Nat
    BY <1>1, <1>5, OthersCounted, KickerIs
  <2> QED BY <1>3, <1>4, <2>1
<1>8. PICK h : /\ Picks(h, l, Z) /\ \A i \in 1..l : Value(h[i]) = Kicker(X, ex, i)
               /\ \A i, j \in 1..l : i < j => Value(h[i]) > Value(h[j])
  <2>1. Quad(X) = 0 /\ ~(Len(Pairs(X)) >= 1)
    BY <1>1, <1>2 DEF NoneAbove
  <2>2. \A v : ~Paired(X, v)
    BY <2>1, PairsAre
  <2>3. l \in 1..5 /\ \A v \in 2..14 : Paired(X, v) \/ v = Trip(X) => v \in ex
    BY <1>1, <1>4, <2>2
  <2> QED BY <1>5, <1>7, <2>1, <2>3, KickersFall
<1>9. Y \cup Z \subseteq X /\ \A c \in Y : c \notin Z
  BY <1>1, <1>5 DEF Others
<1>10. PICK e : Joins(e, g, n, h, l, Y, Z)
  <2>1. n \in Nat /\ l \in Nat
    BY <1>4
  <2> QED BY <1>6, <1>8, <1>9, <2>1, Joined
<1>11. Picks(e, 5, X)
  BY <1>4, <1>9, <1>10 DEF Picks, Joins
<1>12. \A i \in 1..n : Value(e[i]) = t
  BY <1>5, <1>6, <1>10 DEF Picks, Joins
<1>13. /\ Value(e[1]) = t /\ Value(e[2]) = t /\ Value(e[3]) = t
       /\ Value(e[4]) = Kicker(X, ex, 1) /\ Value(e[5]) = Kicker(X, ex, 2)
       /\ Value(e[4]) # t /\ Value(e[5]) # t /\ Value(e[4]) > Value(e[5])
  <2>1. 1 \in 1..l /\ 2 \in 1..l /\ n + 1 = 4 /\ n + 2 = 5 /\ 1 < 2
    BY <1>4
  <2>2. e[4] = h[1] /\ e[5] = h[2]
    BY <1>10, <2>1 DEF Joins
  <2>3. /\ Value(h[1]) = Kicker(X, ex, 1) /\ Value(h[2]) = Kicker(X, ex, 2)
        /\ Value(h[1]) > Value(h[2]) /\ h[1] \in Z /\ h[2] \in Z
    BY <1>8, <2>1 DEF Picks
  <2>4. Value(h[1]) # t /\ Value(h[2]) # t
    BY <1>1, <1>5, <2>3 DEF Others
  <2> QED BY <1>4, <1>12, <2>2, <2>3, <2>4
<1>14. PICK a, b, c, x, y, m : /\ a = Value(e[1]) /\ b = Value(e[2]) /\ c = Value(e[3])
                               /\ x = Value(e[4]) /\ y = Value(e[5]) /\ m = 4
  OBVIOUS
<1>15. Shape(m, a, b, c, x, y, OneSuit(e))
  BY <1>13, <1>14 DEF Shape
<1>16. r = <<m, a, b, c, x, y>> /\ m \notin {5, 9}
  BY <1>2, <1>13, <1>14
<1> QED BY <1>11, <1>14, <1>15, <1>16, AsGoodBy

\* A pair and the three highest others, which are of three values, are there.
LEMMA PairDealt ==
  ASSUME NEW X, X \in SUBSET EvalDeck, Cardinality(X) \in 5..7, NEW r, Reading(X, 2, r),
         NoneAbove(X, 2)
  PROVE  AsGood(X, 2, r)
<1>1. PICK p, ex : p = Pairs(X)[1] /\ ex = {p}
  OBVIOUS
<1>2. /\ Len(Pairs(X)) >= 1
      /\ r = <<2, p, p, Kicker(X, ex, 1), Kicker(X, ex, 2), Kicker(X, ex, 3)>>
  BY <1>1 DEF Reading
<1>3. Quad(X) = 0 /\ Trip(X) = 0 /\ ~(Len(Pairs(X)) >= 2)
  BY DEF NoneAbove
<1>4. Paired(X, p)
  BY <1>1, <1>2, PairsAre
<1>5. \A v : Count(X, v) # 3
  BY <1>3, SetsAre
<1>6. Count(X, p) = 2
  BY <1>4, <1>5 DEF Paired
<1>7. PICK n, l : n = 2 /\ l = 3
  OBVIOUS
<1>8. PICK Y, Z : Y = {c \in X : Value(c) = p} /\ Z = Others(X, ex)
  OBVIOUS
<1>9. PICK g : Picks(g, n, Y)
  <2>1. n \in 1..4 /\ n <= Count(X, p)
    BY <1>6, <1>7
  <2> QED BY <1>8, <2>1, SameDealt
<1>10. l <= Cardinality(Z)
  <2>1. Cardinality(X) = Cardinality(Z) + Count(X, p) /\ Cardinality(Z) \in Nat
    BY <1>1, <1>8, OthersCounted, KickerIs
  <2> QED BY <1>6, <1>7, <2>1
<1>11. PICK h : /\ Picks(h, l, Z) /\ \A i \in 1..l : Value(h[i]) = Kicker(X, ex, i)
                /\ \A i, j \in 1..l : i < j => Value(h[i]) > Value(h[j])
  <2>1. \A v : Paired(X, v) => v = p
    BY <1>3, <1>4, PairsAre
  <2>2. l \in 1..5 /\ \A v \in 2..14 : Paired(X, v) \/ v = Trip(X) => v \in ex
    BY <1>1, <1>3, <1>7, <2>1
  <2> QED BY <1>3, <1>8, <1>10, <2>2, KickersFall
<1>12. Y \cup Z \subseteq X /\ \A c \in Y : c \notin Z
  BY <1>1, <1>8 DEF Others
<1>13. PICK e : Joins(e, g, n, h, l, Y, Z)
  <2>1. n \in Nat /\ l \in Nat
    BY <1>7
  <2> QED BY <1>9, <1>11, <1>12, <2>1, Joined
<1>14. Picks(e, 5, X)
  BY <1>7, <1>12, <1>13 DEF Picks, Joins
<1>15. \A i \in 1..n : Value(e[i]) = p
  BY <1>8, <1>9, <1>13 DEF Picks, Joins
<1>16. /\ Value(e[1]) = p /\ Value(e[2]) = p
       /\ Value(e[3]) = Kicker(X, ex, 1) /\ Value(e[4]) = Kicker(X, ex, 2)
       /\ Value(e[5]) = Kicker(X, ex, 3)
       /\ Value(e[3]) # p /\ Value(e[4]) # p /\ Value(e[5]) # p
       /\ Value(e[3]) > Value(e[4]) /\ Value(e[4]) > Value(e[5])
  <2>1. /\ 1 \in 1..l /\ 2 \in 1..l /\ 3 \in 1..l /\ n + 1 = 3 /\ n + 2 = 4 /\ n + 3 = 5
        /\ 1 < 2 /\ 2 < 3
    BY <1>7
  <2>2. e[3] = h[1] /\ e[4] = h[2] /\ e[5] = h[3]
    BY <1>13, <2>1 DEF Joins
  <2>3. /\ Value(h[1]) = Kicker(X, ex, 1) /\ Value(h[2]) = Kicker(X, ex, 2)
        /\ Value(h[3]) = Kicker(X, ex, 3) /\ h[1] \in Z /\ h[2] \in Z /\ h[3] \in Z
        /\ Value(h[1]) > Value(h[2]) /\ Value(h[2]) > Value(h[3])
    BY <1>11, <2>1 DEF Picks
  <2>4. Value(h[1]) # p /\ Value(h[2]) # p /\ Value(h[3]) # p
    BY <1>1, <1>8, <2>3 DEF Others
  <2> QED BY <1>7, <1>15, <2>2, <2>3, <2>4
<1>17. PICK a, b, c, x, y, m : /\ a = Value(e[1]) /\ b = Value(e[2]) /\ c = Value(e[3])
                               /\ x = Value(e[4]) /\ y = Value(e[5]) /\ m = 2
  OBVIOUS
<1>18. Shape(m, a, b, c, x, y, OneSuit(e))
  BY <1>16, <1>17 DEF Shape
<1>19. r = <<m, a, b, c, x, y>> /\ m \notin {5, 9}
  BY <1>2, <1>16, <1>17
<1> QED BY <1>14, <1>17, <1>18, <1>19, AsGoodBy

\* The two highest pairs and the highest card beside them are there.
LEMMA TwoPairsDealt ==
  ASSUME NEW X, X \in SUBSET EvalDeck, Cardinality(X) \in 5..7, NEW r, Reading(X, 3, r),
         NoneAbove(X, 3)
  PROVE  AsGood(X, 3, r)
<1>1. PICK p, q, ex : p = Pairs(X)[1] /\ q = Pairs(X)[2] /\ ex = {p, q}
  OBVIOUS
<1>2. Len(Pairs(X)) >= 2 /\ r = <<3, p, p, q, q, Kicker(X, ex, 1)>>
  BY <1>1 DEF Reading
<1>3. Quad(X) = 0 /\ Trip(X) = 0
  BY DEF NoneAbove
<1>4. Paired(X, p) /\ Paired(X, q) /\ p > q
  <2>1. Len(Pairs(X)) >= 1
    BY <1>2, PairsAre
  <2> QED BY <1>1, <1>2, <2>1, PairsAre
<1>5. p \in 2..14 /\ q \in 2..14 /\ p # q
  <2>1. p \in 2..14 /\ q \in 2..14
    BY <1>4, PairsAre
  <2> QED BY <1>4, <2>1
<1>6. Count(X, p) = 2 /\ Count(X, q) = 2
  <2>1. \A v : Count(X, v) # 3
    BY <1>3, SetsAre
  <2> QED BY <1>4, <2>1 DEF Paired
<1>7. PICK n, l, k : n = 2 /\ l = 1 /\ k = 3
  OBVIOUS
<1>8. PICK Y, Z, W : /\ Y = {c \in X : Value(c) = p} /\ Z = {c \in X : Value(c) = q}
                     /\ W = Others(X, ex)
  OBVIOUS
<1>9. /\ \E g : Picks(g, n, Y)
      /\ \E h : Picks(h, n, Z)
  <2>1. n \in 1..4 /\ n <= Count(X, p) /\ n <= Count(X, q)
    BY <1>6, <1>7
  <2> QED BY <1>8, <2>1, SameDealt
<1>10. PICK g, h : Picks(g, n, Y) /\ Picks(h, n, Z)
  BY <1>9
<1>11. l <= Cardinality(W)
  <2>1. Cardinality(X) = Cardinality(W) + Count(X, p) + Count(X, q) /\ Cardinality(W) \in Nat
    BY <1>1, <1>5, <1>8, OthersCounted, KickerIs
  <2> QED BY <1>6, <1>7, <2>1
<1>12. PICK o : Descends(o, l, W) /\ \A i \in 1..l : Value(o[i]) = Kicker(X, ex, i)
  <2>1. l \in 1..5
    BY <1>7
  <2> QED BY <1>8, <1>11, <2>1, KickersDealt
<1>13. /\ Y \cup (Z \cup W) \subseteq X /\ n \in Nat /\ l \in Nat /\ k \in Nat
       /\ \A c \in Z : c \notin W
       /\ \A c \in Y : c \notin Z \cup W
  BY <1>1, <1>5, <1>7, <1>8 DEF Others
<1>14. PICK f : Joins(f, h, n, o, l, Z, W)
  <2>1. Picks(o, l, W)
    BY <1>12 DEF Descends, Picks
  <2> QED BY <1>10, <1>13, <2>1, Joined
<1>15. PICK V : V = Z \cup W
  OBVIOUS
<1>16. PICK e : Joins(e, g, n, f, k, Y, V)
  <2>1. Picks(f, k, V)
    BY <1>7, <1>14, <1>15 DEF Joins
  <2>2. \A c \in Y : c \notin V
    BY <1>13, <1>15
  <2> QED BY <1>10, <1>13, <2>1, <2>2, Joined
<1>17. Picks(e, 5, X)
  BY <1>7, <1>13, <1>15, <1>16 DEF Picks, Joins
<1>18. /\ \A i \in 1..n : Value(e[i]) = p
       /\ \A i \in 1..n : Value(f[i]) = q
  BY <1>8, <1>10, <1>14, <1>16 DEF Picks, Joins
<1>19. /\ Value(e[1]) = p /\ Value(e[2]) = p /\ Value(e[3]) = q /\ Value(e[4]) = q
       /\ Value(e[5]) = Kicker(X, ex, 1) /\ Value(e[5]) # p /\ Value(e[5]) # q
  <2>1. /\ 1 \in 1..n /\ 2 \in 1..n /\ 1 \in 1..l /\ 1 \in 1..k /\ 2 \in 1..k /\ 3 \in 1..k
        /\ n + 1 = 3 /\ n + 2 = 4 /\ n + 3 = 5
    BY <1>7
  <2>2. e[3] = f[1] /\ e[4] = f[2] /\ e[5] = f[3]
    BY <1>16, <2>1 DEF Joins
  <2>3. f[3] = o[1]
    BY <1>14, <2>1 DEF Joins
  <2>4. Value(o[1]) = Kicker(X, ex, 1) /\ o[1] \in W
    BY <1>12, <2>1 DEF Descends
  <2>5. Value(o[1]) # p /\ Value(o[1]) # q
    BY <1>1, <1>8, <2>4 DEF Others
  <2> QED BY <1>18, <2>1, <2>2, <2>3, <2>4, <2>5
<1>20. PICK a, b, c, x, y, m : /\ a = Value(e[1]) /\ b = Value(e[2]) /\ c = Value(e[3])
                               /\ x = Value(e[4]) /\ y = Value(e[5]) /\ m = 3
  OBVIOUS
<1>21. Shape(m, a, b, c, x, y, OneSuit(e))
  BY <1>4, <1>19, <1>20 DEF Shape
<1>22. r = <<m, a, b, c, x, y>> /\ m \notin {5, 9}
  BY <1>2, <1>19, <1>20
<1> QED BY <1>17, <1>20, <1>21, <1>22, AsGoodBy

\* Five cards of five values that neither follow one another nor are of one suit are there.
LEMMA HighDealt ==
  ASSUME NEW X, X \in SUBSET EvalDeck, Cardinality(X) \in 5..7, NEW r, Reading(X, 1, r),
         NoneAbove(X, 1)
  PROVE  AsGood(X, 1, r)
<1>1. PICK ex, n, Z : ex = {} /\ n = 5 /\ Z = Others(X, ex)
  OBVIOUS
<1>2. r = <<1, Kicker(X, ex, 1), Kicker(X, ex, 2), Kicker(X, ex, 3), Kicker(X, ex, 4),
            Kicker(X, ex, 5)>>
  BY <1>1 DEF Reading
<1>3. /\ Quad(X) = 0 /\ Trip(X) = 0 /\ ~(Len(Pairs(X)) >= 1) /\ BestFlush(X) = <<>>
      /\ StraightHigh(Values(X)) = 0
  BY DEF NoneAbove
<1>4. Z = X
  BY <1>1 DEF Others
<1>5. PICK e : /\ Picks(e, n, Z) /\ \A i \in 1..n : Value(e[i]) = Kicker(X, ex, i)
               /\ \A i, j \in 1..n : i < j => Value(e[i]) > Value(e[j])
  <2>1. \A v : ~Paired(X, v)
    BY <1>3, PairsAre
  <2>2. n \in 1..5 /\ n <= Cardinality(Z) /\ \A v \in 2..14 : Paired(X, v) \/ v = Trip(X) => v \in ex
    BY <1>1, <1>3, <1>4, <2>1
  <2> QED BY <1>1, <1>3, <2>2, KickersFall
<1>6. Picks(e, 5, X) /\ Five(e) /\ Firsts(e, 5) \subseteq X
  BY <1>1, <1>4, <1>5, PickedFive
<1>7. PICK a, b, c, x, y, m : /\ a = Value(e[1]) /\ b = Value(e[2]) /\ c = Value(e[3])
                              /\ x = Value(e[4]) /\ y = Value(e[5]) /\ m = 1
  OBVIOUS
<1>8. 1..n = {1, 2, 3, 4, 5} /\ 1 < 2 /\ 2 < 3 /\ 3 < 4 /\ 4 < 5
  BY <1>1
<1>9. /\ a = Kicker(X, ex, 1) /\ b = Kicker(X, ex, 2) /\ c = Kicker(X, ex, 3)
      /\ x = Kicker(X, ex, 4) /\ y = Kicker(X, ex, 5)
  BY <1>5, <1>7, <1>8
<1>10. Falling(a, b, c, x, y)
  BY <1>5, <1>7, <1>8 DEF Falling
<1>11. Among(X, e, a, b, c, x, y)
  BY <1>6, <1>7, AmongHolds
<1>12. ~Follow(a, b, c, x, y)
  BY <1>3, <1>10, <1>11, RunsAtMost
<1>13. ~OneSuit(e)
  BY <1>3, <1>6, <1>10, <1>11, SuitsAtMost
<1>14. Shape(m, a, b, c, x, y, OneSuit(e))
  BY <1>7, <1>10, <1>12, <1>13 DEF Shape
<1>15. r = <<m, a, b, c, x, y>> /\ m \notin {5, 9}
  BY <1>2, <1>7, <1>9
<1> QED BY <1>6, <1>7, <1>14, <1>15, AsGoodBy

\* The five highest of the suit are there, and do not follow one another.
LEMMA FlushDealt ==
  ASSUME NEW X, X \in SUBSET EvalDeck, Cardinality(X) \in 5..7, NEW r, Reading(X, 6, r),
         NoneAbove(X, 6)
  PROVE  AsGood(X, 6, r)
<1>1. PICK f : f = BestFlush(X)
  OBVIOUS
<1>2. f # <<>> /\ r = <<6, f[1], f[2], f[3], f[4], f[5]>>
  BY <1>1 DEF Reading
<1>3. StraightFlushHigh(X) = 0 /\ Cardinality(X) <= 7
  BY DEF NoneAbove
<1>4. PICK s : s \in FlushSuits(X)
  BY <1>1, <1>2, <1>3, FlushIs
<1>5. PICK Y, n : Y = OfSuit(X, s) /\ n = 5
  OBVIOUS
<1>6. Cardinality(Y) >= 5 /\ \A i \in 1..5 : f[i] = Nth(Y, i)
  BY <1>1, <1>3, <1>4, <1>5, FlushIs
<1>7. Y \in SUBSET EvalDeck /\ Y \subseteq X /\ \A c \in Y : c.suit = s
  BY <1>5 DEF OfSuit
<1>8. PICK e : Descends(e, n, Y) /\ \A i \in 1..n : Nth(Y, i) = Value(e[i])
  <2>1. n \in 0..Cardinality(Y)
    BY <1>5, <1>6, <1>7, PartCounted
  <2> QED BY <1>7, <2>1, NthIsDealt
<1>9. \A i \in 1..5 : e[i] \in Y /\ Value(e[i]) \in Int /\ Value(e[i]) = f[i]
  <2>1. \A i \in 1..5 : e[i] \in Y
    BY <1>5, <1>8 DEF Descends
  <2>2. \A i \in 1..5 : Value(e[i]) \in 2..14
    BY <1>7, <2>1, ValueIs
  <2> QED BY <1>5, <1>6, <1>8, <2>1, <2>2
<1>10. ASSUME NEW i \in 1..5, NEW j \in 1..5, i < j PROVE Value(e[i]) > Value(e[j])
  <2>1. e[i] # e[j] /\ Value(e[i]) >= Value(e[j])
    BY <1>5, <1>8, <1>10 DEF Descends
  <2>2. Value(e[i]) # Value(e[j])
    BY <1>7, <1>9, <2>1, ValueIs
  <2> QED BY <1>9, <2>1, <2>2
<1>11. Picks(e, 5, X) /\ Five(e) /\ Firsts(e, 5) \subseteq X
  <2>1. Picks(e, 5, X)
    BY <1>5, <1>7, <1>8 DEF Descends, Picks
  <2> QED BY <2>1, PickedFive
<1>12. PICK a, b, c, x, y, m : /\ a = Value(e[1]) /\ b = Value(e[2]) /\ c = Value(e[3])
                               /\ x = Value(e[4]) /\ y = Value(e[5]) /\ m = 6
  OBVIOUS
<1>13. Falling(a, b, c, x, y)
  BY <1>10, <1>12 DEF Falling
<1>14. OneSuit(e)
  BY <1>7, <1>9 DEF OneSuit
<1>15. Among(X, e, a, b, c, x, y)
  BY <1>11, <1>12, AmongHolds
<1>16. ~Follow(a, b, c, x, y)
  BY <1>3, <1>11, <1>13, <1>14, <1>15, SuitsAtMost
<1>17. Shape(m, a, b, c, x, y, OneSuit(e))
  BY <1>12, <1>13, <1>14, <1>16 DEF Shape
<1>18. r = <<m, a, b, c, x, y>> /\ m \notin {5, 9}
  BY <1>2, <1>9, <1>12
<1> QED BY <1>11, <1>12, <1>17, <1>18, AsGoodBy

\* The cards of a straight, the ace low in a wheel.
LEMMA StraightDealt ==
  ASSUME NEW Y, Y \in SUBSET EvalDeck, StraightHigh(Values(Y)) # 0
  PROVE  \E e : /\ Picks(e, 5, Y)
                /\ Falling(Value(e[1]), Value(e[2]), Value(e[3]), Value(e[4]), Value(e[5]))
                /\ Follow(Value(e[1]), Value(e[2]), Value(e[3]), Value(e[4]), Value(e[5]))
                /\ StraightHigh(Values(Y)) =
                     IF Value(e[1]) = 14 /\ Value(e[2]) = 5 THEN 5 ELSE Value(e[1])
<1>1. PICK V, h : V = Values(Y) /\ h = StraightHigh(V)
  OBVIOUS
<1>2. V \subseteq 2..14
  BY <1>1, FourSuits
<1>3. \/ h = 5 /\ wheel \subseteq V
      \/ h \in 6..14 /\ {h, h - 1, h - 2, h - 3, h - 4} \subseteq V
  BY <1>1, <1>2, StraightIs
<1>4. PICK a, b, c, x, y : /\ a \in V /\ b \in V /\ c \in V /\ x \in V /\ y \in V
                           /\ Falling(a, b, c, x, y) /\ Follow(a, b, c, x, y)
                           /\ h = IF a = 14 /\ b = 5 THEN 5 ELSE a
  <2>1. CASE h = 5 /\ wheel \subseteq V
    <3>1. 14 \in V /\ 5 \in V /\ 4 \in V /\ 3 \in V /\ 2 \in V
      BY <2>1 DEF wheel
    <3>2. Falling(14, 5, 4, 3, 2) /\ Follow(14, 5, 4, 3, 2)
      BY DEF Falling, Follow
    <3> QED BY <2>1, <3>1, <3>2
  <2>2. CASE h \in 6..14 /\ {h, h - 1, h - 2, h - 3, h - 4} \subseteq V
    <3>1. PICK b, c, x, y : b = h - 1 /\ c = h - 2 /\ x = h - 3 /\ y = h - 4
      OBVIOUS
    <3>2. h \in V /\ b \in V /\ c \in V /\ x \in V /\ y \in V
      BY <2>2, <3>1
    <3>3. Falling(h, b, c, x, y) /\ Follow(h, b, c, x, y)
      BY <2>2, <3>1 DEF Falling, Follow
    <3>4. ~(h = 14 /\ b = 5)
      BY <3>1
    <3> QED BY <3>2, <3>3, <3>4
  <2> QED BY <1>3, <2>1, <2>2
<1>5. PICK e : /\ Picks(e, 5, Y) /\ Value(e[1]) = a /\ Value(e[2]) = b /\ Value(e[3]) = c
               /\ Value(e[4]) = x /\ Value(e[5]) = y
  BY <1>1, <1>4, RunDealt
<1> QED BY <1>1, <1>4, <1>5

\* Cards that follow one another are there, and are not of one suit.
LEMMA StraightsDealt ==
  ASSUME NEW X, X \in SUBSET EvalDeck, Cardinality(X) <= 7, NEW r, Reading(X, 5, r),
         NoneAbove(X, 5)
  PROVE  AsGood(X, 5, r)
<1>1. PICK h : h = StraightHigh(Values(X))
  OBVIOUS
<1>2. h # 0 /\ r = <<5, h, 0, 0, 0, 0>>
  BY <1>1 DEF Reading
<1>3. BestFlush(X) = <<>>
  BY DEF NoneAbove
<1>4. PICK e : /\ Picks(e, 5, X)
               /\ Falling(Value(e[1]), Value(e[2]), Value(e[3]), Value(e[4]), Value(e[5]))
               /\ Follow(Value(e[1]), Value(e[2]), Value(e[3]), Value(e[4]), Value(e[5]))
               /\ h = IF Value(e[1]) = 14 /\ Value(e[2]) = 5 THEN 5 ELSE Value(e[1])
  BY <1>1, <1>2, StraightDealt
<1>5. Five(e) /\ Firsts(e, 5) \subseteq X
  BY <1>4, PickedFive
<1>6. PICK a, b, c, x, y, m : /\ a = Value(e[1]) /\ b = Value(e[2]) /\ c = Value(e[3])
                              /\ x = Value(e[4]) /\ y = Value(e[5]) /\ m = 5
  OBVIOUS
<1>7. /\ Falling(a, b, c, x, y) /\ Follow(a, b, c, x, y)
      /\ h = IF a = 14 /\ b = 5 THEN 5 ELSE a
  BY <1>4, <1>6
<1>8. Among(X, e, a, b, c, x, y)
  BY <1>5, <1>6, AmongHolds
<1>9. ~OneSuit(e)
  BY <1>3, <1>5, <1>7, <1>8, SuitsAtMost
<1>10. Shape(m, a, b, c, x, y, OneSuit(e))
  BY <1>6, <1>7, <1>9 DEF Shape
<1>11. m \in {5, 9} /\ r = <<m, IF a = 14 /\ b = 5 THEN 5 ELSE a, 0, 0, 0, 0>>
  BY <1>2, <1>6, <1>7
<1> QED BY <1>4, <1>6, <1>10, <1>11, AsGoodBy

\* Cards of one suit that follow one another are there.
LEMMA StraightFlushDealt ==
  ASSUME NEW X, X \in SUBSET EvalDeck, Cardinality(X) <= 7, NEW r, Reading(X, 9, r)
  PROVE  AsGood(X, 9, r)
<1>1. PICK h : h = StraightFlushHigh(X)
  OBVIOUS
<1>2. h # 0 /\ r = <<9, h, 0, 0, 0, 0>>
  BY <1>1 DEF Reading
<1>3. PICK s : s \in FlushSuits(X)
  BY <1>1, <1>2, FlushIs
<1>4. PICK Y : Y = OfSuit(X, s)
  OBVIOUS
<1>5. h = StraightHigh(Values(Y)) /\ Y \in SUBSET EvalDeck /\ Y \subseteq X
  <2>1. h = StraightHigh(Values(Y))
    BY <1>1, <1>3, <1>4, FlushIs
  <2> QED BY <1>4, <2>1 DEF OfSuit
<1>6. PICK e : /\ Picks(e, 5, Y)
               /\ Falling(Value(e[1]), Value(e[2]), Value(e[3]), Value(e[4]), Value(e[5]))
               /\ Follow(Value(e[1]), Value(e[2]), Value(e[3]), Value(e[4]), Value(e[5]))
               /\ h = IF Value(e[1]) = 14 /\ Value(e[2]) = 5 THEN 5 ELSE Value(e[1])
  BY <1>2, <1>5, StraightDealt
<1>7. Picks(e, 5, X)
  BY <1>5, <1>6 DEF Picks
<1>8. PICK a, b, c, x, y, m : /\ a = Value(e[1]) /\ b = Value(e[2]) /\ c = Value(e[3])
                              /\ x = Value(e[4]) /\ y = Value(e[5]) /\ m = 9
  OBVIOUS
<1>9. /\ Falling(a, b, c, x, y) /\ Follow(a, b, c, x, y)
      /\ h = IF a = 14 /\ b = 5 THEN 5 ELSE a
  BY <1>6, <1>8
<1>10. OneSuit(e)
  BY <1>4, <1>6 DEF OneSuit, Picks, OfSuit
<1>11. Shape(m, a, b, c, x, y, OneSuit(e))
  BY <1>8, <1>9, <1>10 DEF Shape
<1>12. m \in {5, 9} /\ r = <<m, IF a = 14 /\ b = 5 THEN 5 ELSE a, 0, 0, 0, 0>>
  BY <1>2, <1>8, <1>9
<1> QED BY <1>7, <1>8, <1>11, <1>12, AsGoodBy

-----------------------------------------------------------------------------
(* The evaluator: the best five *)

\* Five of the cards are worth what the hand is.
LEMMA SomeWorthAsMuch ==
  ASSUME NEW X, X \in SUBSET EvalDeck, Cardinality(X) \in 5..7, NEW m, m \in 1..9, NEW r,
         Reading(X, m, r), NoneAbove(X, m)
  PROVE  AsGood(X, m, r)
<1>1. Cardinality(X) <= 7
  OBVIOUS
<1>2. m = 1 \/ m = 2 \/ m = 3 \/ m = 4 \/ m = 5 \/ m = 6 \/ m = 7 \/ m = 8 \/ m = 9
  OBVIOUS
<1>3. CASE m = 1
  BY <1>3, HighDealt
<1>4. CASE m = 2
  BY <1>4, PairDealt
<1>5. CASE m = 3
  BY <1>5, TwoPairsDealt
<1>6. CASE m = 4
  BY <1>6, ThreesDealt
<1>7. CASE m = 5
  BY <1>1, <1>7, StraightsDealt
<1>8. CASE m = 6
  BY <1>8, FlushDealt
<1>9. CASE m = 7
  BY <1>9, HousesDealt
<1>10. CASE m = 8
  BY <1>10, FoursDealt
<1>11. CASE m = 9
  BY <1>1, <1>11, StraightFlushDealt
<1> QED BY <1>2, <1>3, <1>4, <1>5, <1>6, <1>7, <1>8, <1>9, <1>10, <1>11, Zenon

\* Five cards picked from some.
LEMMA FivesAre ==
  ASSUME NEW X, X \in SUBSET EvalDeck, NEW F, F \in kSubset(5, X)
  PROVE  F \in kSubset(5, EvalDeck) /\ \E d : Five(d) /\ Firsts(d, 5) = F
<1>1. F \in SUBSET X /\ Cardinality(F) = 5
  BY DEF kSubset
<1>2. F \in SUBSET EvalDeck /\ IsFiniteSet(F)
  <2>1. F \in SUBSET EvalDeck
    BY <1>1
  <2> QED BY <2>1, PartCounted
<1>3. F \in kSubset(5, EvalDeck)
  BY <1>1, <1>2 DEF kSubset
<1>4. PICK n : n = 5
  OBVIOUS
<1>5. PICK d : Descends(d, n, F)
  <2>1. n \in 0..Cardinality(F)
    BY <1>1, <1>4
  <2> QED BY <1>2, <2>1, NthIsDealt
<1>6. Five(d) /\ Firsts(d, 5) \subseteq F
  BY <1>2, <1>4, <1>5 DEF Descends, Five, Firsts
<1>7. IsFiniteSet(Firsts(d, n)) /\ Cardinality(Firsts(d, n)) = n
  <2>1. n \in Nat /\ n \in 0..n /\ \A i, j \in 1..n : d[i] = d[j] => i = j
    BY <1>4, <1>5 DEF Descends
  <2> QED BY <2>1, FirstsCounted
<1>8. Firsts(d, 5) = F
  BY <1>1, <1>2, <1>4, <1>6, <1>7, FS_Subset
<1> QED BY <1>3, <1>6, <1>8

\* Any five of the cards are worth no more than the hand, and some are worth as much.
LEMMA BestOfFives ==
  ASSUME NEW X, X \in SUBSET EvalDeck, Cardinality(X) \in 5..7
  PROVE  /\ ClassifyHand(X) \in {FaceValue[five] : five \in kSubset(5, X)}
         /\ \A five \in kSubset(5, X) : ~Beats(FaceValue[five], ClassifyHand(X))
<1>1. PICK r : r = ClassifyHand(X)
  OBVIOUS
<1>2. PICK m \in 1..9 : Reading(X, m, r) /\ NoneAbove(X, m)
  BY <1>1, ClassifyIs
<1>3. Cardinality(X) <= 7 /\ IsFiniteSet(X)
  BY PartCounted
<1>4. \A F \in kSubset(5, EvalDeck) : FaceValue[F] = FiveCardValue(F)
  BY DEF FaceValue
<1>5. \E F \in kSubset(5, X) : FaceValue[F] = r
  <2>1. AsGood(X, m, r)
    BY <1>2, SomeWorthAsMuch
  <2>2. PICK e : Five(e) /\ Firsts(e, 5) \subseteq X /\ Shaped5(m, e) /\ FaceIs(m, e) = r
    BY <2>1 DEF AsGood
  <2>3. PICK F : F = Firsts(e, 5)
    OBVIOUS
  <2>4. F \in kSubset(5, EvalDeck)
    BY <2>2, <2>3, FiveCounted
  <2>5. F \in kSubset(5, X)
    BY <1>3, <2>2, <2>3, <2>4 DEF kSubset
  <2>6. FiveCardValue(F) = FaceIs(m, e)
    BY <2>2, <2>3, FaceOf
  <2> QED BY <1>4, <2>2, <2>4, <2>5, <2>6
<1>6. ASSUME NEW F \in kSubset(5, X) PROVE ~Beats(FaceValue[F], r)
  <2>1. F \in kSubset(5, EvalDeck)
    BY FivesAre
  <2>2. PICK d : Five(d) /\ Firsts(d, 5) = F
    BY FivesAre
  <2>3. \E e : \E k \in 1..9 : Five(e) /\ Firsts(e, 5) = Firsts(d, 5) /\ Shaped5(k, e)
    BY <2>2, FaceFound
  <2>4. PICK e : \E k \in 1..9 : Five(e) /\ Firsts(e, 5) = F /\ Shaped5(k, e)
    BY <2>2, <2>3
  <2>5. PICK k \in 1..9 : Five(e) /\ Firsts(e, 5) = F /\ Shaped5(k, e)
    BY <2>4
  <2>6. Firsts(e, 5) \subseteq X
    BY <2>5 DEF kSubset
  <2>7. FiveCardValue(Firsts(e, 5)) = FaceIs(k, e)
    BY <2>5, FaceOf
  <2>8. ~Beats(FaceIs(k, e), r)
    BY <1>2, <1>3, <2>5, <2>6, NoneWorthMore
  <2> QED BY <1>4, <2>1, <2>5, <2>7, <2>8
<1> QED BY <1>1, <1>5, <1>6

\* What is dealt are seven cards of the deck at most.
DealtInv == dealt \in SUBSET EvalDeck /\ Cardinality(dealt) <= 7

\* However the cards fall, counting ranks and suits (classifyHand) gives the value of the best
\* five of them, neither more nor less, kickers included.
THEOREM CountingFindsTheBest == EvaluatorSpec => []EvaluatorIsBest
<1>1. EvaluatorInit => DealtInv
  <2>1. Cardinality({}) = 0
    BY FS_EmptySet
  <2> QED BY <2>1 DEF EvaluatorInit, DealtInv
<1>2. DealtInv /\ [EvaluatorNext]_dealt => DealtInv'
  <2> SUFFICES ASSUME DealtInv, [EvaluatorNext]_dealt PROVE DealtInv'
    OBVIOUS
  <2>1. CASE UNCHANGED dealt
    BY <2>1 DEF DealtInv
  <2>2. ASSUME NEW c \in EvalDeck, Deal(c) PROVE DealtInv'
    <3>1. IsFiniteSet(dealt) /\ Cardinality(dealt) \in Nat
      BY PartCounted DEF DealtInv
    <3>2. Cardinality(dealt \cup {c}) = Cardinality(dealt) + 1
      BY <2>2, <3>1, FS_AddElement DEF Deal
    <3>3. Cardinality(dealt) < 7 /\ dealt' = dealt \cup {c}
      BY <2>2 DEF Deal
    <3> QED BY <3>1, <3>2, <3>3 DEF DealtInv
  <2> QED BY <2>1, <2>2 DEF EvaluatorNext
<1>3. DealtInv => EvaluatorIsBest
  <2> SUFFICES ASSUME DealtInv, Cardinality(dealt) >= 5 PROVE EvaluatorIsBest
    BY DEF EvaluatorIsBest
  <2>1. PICK X : X = dealt
    OBVIOUS
  <2>2. X \in SUBSET EvalDeck /\ Cardinality(X) \in 5..7
    <3>1. X \in SUBSET EvalDeck
      BY <2>1 DEF DealtInv
    <3>2. Cardinality(X) \in Nat
      BY <3>1, PartCounted
    <3> QED BY <2>1, <3>1, <3>2 DEF DealtInv
  <2>3. /\ ClassifyHand(X) \in {FaceValue[five] : five \in kSubset(5, X)}
        /\ \A five \in kSubset(5, X) : ~Beats(FaceValue[five], ClassifyHand(X))
    BY <2>2, BestOfFives
  <2> QED BY <2>1, <2>3 DEF EvaluatorIsBest
<1> QED BY <1>1, <1>2, <1>3, PTL DEF EvaluatorSpec

=============================================================================
