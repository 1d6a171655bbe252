----------------------------- MODULE DataLemmas -----------------------------
(***************************************************************************)
(* Facts about seats and cursors, and about sums over finite sets, that    *)
(* several proofs rest on.                                                 *)
(***************************************************************************)
EXTENDS Integers, Sequences, SequencesExt, FiniteSets, Functions,
        FiniteSetTheorems, WellFoundedInduction, TLAPS

-----------------------------------------------------------------------------
(* Seats and cursors *)

\* A cursor taken modulo the number of seats names one of them.
LEMMA ModInRange ==
  ASSUME NEW c \in Int, NEW n \in Nat \ {0}
  PROVE  c % n \in 0..(n - 1)
OBVIOUS

\* Deleting a seat leaves a sequence of players one shorter (slices.Delete).
LEMMA RemoveAtType ==
  ASSUME NEW S, NEW s \in Seq(S), NEW i \in 1..Len(s)
  PROVE  /\ RemoveAt(s, i) \in Seq(S)
         /\ Len(RemoveAt(s, i)) = Len(s) - 1
<1> DEFINE a == SubSeq(s, 1, i - 1)
          b == SubSeq(s, i + 1, Len(s))
<1>1. a \in Seq(S) /\ Len(a) = i - 1
  OBVIOUS
<1>2. b \in Seq(S) /\ Len(b) = Len(s) - i
  OBVIOUS
<1>3. RemoveAt(s, i) = a \o b
  BY DEF RemoveAt
<1> HIDE DEF a, b
<1>4. a \o b \in Seq(S) /\ Len(a \o b) = Len(a) + Len(b)
  BY <1>1, <1>2
<1> QED BY <1>1, <1>2, <1>3, <1>4

\* The seats before the one that is given up stay put, the others move up.
LEMMA RemoveAtSeats ==
  ASSUME NEW S, NEW s \in Seq(S), NEW i \in 1..Len(s), NEW j \in 1..(Len(s) - 1)
  PROVE  RemoveAt(s, i)[j] = IF j < i THEN s[j] ELSE s[j + 1]
<1> DEFINE a == SubSeq(s, 1, i - 1)
          b == SubSeq(s, i + 1, Len(s))
<1>1. a \in Seq(S) /\ Len(a) = i - 1 /\ \A k \in 1..(i - 1) : a[k] = s[k]
  OBVIOUS
<1>2. b \in Seq(S) /\ Len(b) = Len(s) - i /\ \A k \in 1..(Len(s) - i) : b[k] = s[i + k]
  OBVIOUS
<1>3. RemoveAt(s, i) = a \o b
  BY DEF RemoveAt
<1> HIDE DEF a, b
<1>4. CASE j < i
  <2>1. j \in 1..Len(a)
    BY <1>1, <1>4
  <2>2. (a \o b)[j] = a[j]
    BY <1>1, <1>2, <2>1
  <2> QED BY <1>1, <1>3, <1>4, <2>1, <2>2
<1>5. CASE ~(j < i)
  <2>1. /\ j - Len(a) \in 1..Len(b) /\ i + (j - Len(a)) = j + 1
        /\ j \in (Len(a) + 1)..(Len(a) + Len(b))
    BY <1>1, <1>2, <1>5
  <2>2. (a \o b)[j] = b[j - Len(a)]
    BY <1>1, <1>2, <2>1
  <2>3. b[j - Len(a)] = s[j + 1]
    BY <1>2, <2>1
  <2> QED BY <1>3, <1>5, <2>2, <2>3
<1> QED BY <1>4, <1>5

\* What a cursor modulo the seats leaves of one that is among them, or just past them.
LEMMA ModSmall ==
  ASSUME NEW n \in Nat \ {0}, NEW c \in 0..n
  PROVE  c % n = IF c = n THEN 0 ELSE c
OBVIOUS

\* A seat is given up that was not the only one: a cursor that moves back past it still points
\* at the seat it pointed at, and one that pointed at it points at the next seat.
CursorFollows(s, i, c) ==
  LET n == Len(s) - 1
      m == (IF c > i - 1 THEN c - 1 ELSE c) % n
  IN  /\ m \in 0..(n - 1) /\ m % n = m
      /\ RemoveAt(s, i)[m + 1] = IF c = i - 1 THEN s[(i % Len(s)) + 1] ELSE s[c + 1]

LEMMA CursorKept ==
  ASSUME NEW S, NEW s \in Seq(S), Len(s) >= 2, NEW i \in 1..Len(s), NEW c \in 0..(Len(s) - 1)
  PROVE  CursorFollows(s, i, c)
<1>0. PICK n, m : n = Len(s) - 1 /\ m = (IF c > i - 1 THEN c - 1 ELSE c)
  OBVIOUS
<1>1. Len(s) \in Nat /\ n \in Nat \ {0} /\ m \in 0..n
  BY <1>0
<1>2. m % n = IF m = n THEN 0 ELSE m
  BY <1>1, ModSmall
<1>3. i % Len(s) = IF i = Len(s) THEN 0 ELSE i
  <2>1. PICK l \in Nat \ {0} : l = Len(s)
    BY <1>1
  <2>2. i \in 0..l
    BY <2>1
  <2> QED BY <2>1, <2>2, ModSmall
<1>4. PICK k : k = m % n
  OBVIOUS
<1>13. k = IF m = n THEN 0 ELSE m
  BY <1>2, <1>4
<1>5. k \in 0..(n - 1) /\ k \in 0..n /\ k # n
  BY <1>1, <1>13
<1>6. k % n = k
  BY <1>1, <1>5, ModSmall
<1>7. RemoveAt(s, i)[k + 1] = IF k + 1 < i THEN s[k + 1] ELSE s[k + 2]
  <2>1. PICK j \in 1..(Len(s) - 1) : j = k + 1
    BY <1>0, <1>1, <1>5
  <2>2. RemoveAt(s, i)[j] = IF j < i THEN s[j] ELSE s[j + 1]
    BY RemoveAtSeats
  <2>3. j + 1 = k + 2
    BY <1>5, <2>1
  <2> QED BY <2>1, <2>2, <2>3
<1>8. ASSUME c > i - 1 PROVE RemoveAt(s, i)[k + 1] = s[c + 1]
  <2>1. k = c - 1 /\ ~(k + 1 < i) /\ k + 2 = c + 1
    BY <1>0, <1>1, <1>13, <1>8
  <2> QED BY <1>7, <2>1
<1>9. ASSUME c = i - 1 PROVE RemoveAt(s, i)[k + 1] = s[(i % Len(s)) + 1]
  <2>1. CASE i = Len(s)
    <3>1. k = 0 /\ k + 1 < i /\ i % Len(s) = 0
      BY <1>0, <1>1, <1>3, <1>13, <1>9, <2>1
    <3> QED BY <1>7, <3>1
  <2>2. CASE i # Len(s)
    <3>1. k = i - 1 /\ ~(k + 1 < i) /\ i % Len(s) = i /\ k + 2 = i + 1
      BY <1>0, <1>1, <1>3, <1>13, <1>9, <2>2
    <3> QED BY <1>7, <3>1
  <2> QED BY <2>1, <2>2
<1>10. ASSUME c < i - 1 PROVE RemoveAt(s, i)[k + 1] = s[c + 1]
  <2>1. k = c /\ k + 1 < i
    BY <1>0, <1>1, <1>13, <1>10
  <2> QED BY <1>7, <2>1
<1>11. c > i - 1 \/ c = i - 1 \/ c < i - 1
  OBVIOUS
<1>12. RemoveAt(s, i)[k + 1] = IF c = i - 1 THEN s[(i % Len(s)) + 1] ELSE s[c + 1]
  BY <1>8, <1>9, <1>10, <1>11
<1> QED BY <1>0, <1>4, <1>5, <1>6, <1>12 DEF CursorFollows

\* Whoever gives up a seat is gone, and nobody else is.
LEMMA RemoveAtSet ==
  ASSUME NEW S, NEW s \in Seq(S), IsInjective(s), NEW i \in 1..Len(s)
  PROVE  /\ IsInjective(RemoveAt(s, i))
         /\ ToSet(RemoveAt(s, i)) = ToSet(s) \ {s[i]}
<1> DEFINE r == RemoveAt(s, i)
           old(j) == IF j < i THEN j ELSE j + 1
<1>1. /\ r \in Seq(S) /\ Len(r) = Len(s) - 1 /\ DOMAIN r = 1..(Len(s) - 1)
      /\ DOMAIN s = 1..Len(s) /\ Len(s) \in Nat
  BY RemoveAtType
<1>2. \A j \in 1..(Len(s) - 1) : /\ old(j) \in 1..Len(s) /\ old(j) # i
                                 /\ r[j] = s[old(j)]
  BY SMTT(30), <1>1, RemoveAtSeats
<1>3. \A j, k \in 1..(Len(s) - 1) : old(j) = old(k) => j = k
  BY <1>1
<1>4. \A k \in 1..Len(s) : k # i => \E j \in 1..(Len(s) - 1) : old(j) = k
  <2> SUFFICES ASSUME NEW k \in 1..Len(s), k # i
               PROVE  \E j \in 1..(Len(s) - 1) : old(j) = k
    OBVIOUS
  <2>1. CASE k < i
    <3>1. k \in 1..(Len(s) - 1) /\ old(k) = k
      BY <1>1, <2>1
    <3> QED BY <3>1
  <2>2. CASE ~(k < i)
    <3>1. k - 1 \in 1..(Len(s) - 1) /\ old(k - 1) = k
      BY <1>1, <2>2
    <3> QED BY <3>1
  <2> QED BY <2>1, <2>2
<1> HIDE DEF r, old
<1>5. \A j, k \in 1..Len(s) : s[j] = s[k] => j = k
  BY <1>1 DEF IsInjective
<1>6. \A j, k \in 1..(Len(s) - 1) : r[j] = r[k] => j = k
  <2> SUFFICES ASSUME NEW j \in 1..(Len(s) - 1), NEW k \in 1..(Len(s) - 1), r[j] = r[k]
               PROVE  j = k
    OBVIOUS
  <2>1. old(j) = old(k)
    BY <1>2, <1>5
  <2> QED BY <2>1, <1>3
<1>7. ToSet(r) = ToSet(s) \ {s[i]}
  <2>1. ASSUME NEW x \in ToSet(r) PROVE x \in ToSet(s) \ {s[i]}
    <3>1. PICK j \in 1..(Len(s) - 1) : x = r[j]
      BY <1>1 DEF ToSet
    <3>2. x = s[old(j)] /\ old(j) \in 1..Len(s) /\ old(j) # i
      BY <3>1, <1>2
    <3>3. x # s[i]
      BY <3>2, <1>5
    <3> QED BY <3>2, <3>3, <1>1 DEF ToSet
  <2>2. ASSUME NEW x \in ToSet(s) \ {s[i]} PROVE x \in ToSet(r)
    <3>1. PICK k \in 1..Len(s) : x = s[k]
      BY <1>1 DEF ToSet
    <3>2. k # i
      BY <3>1
    <3>3. PICK j \in 1..(Len(s) - 1) : old(j) = k
      BY <3>2, <1>4
    <3>4. x = r[j]
      BY <3>1, <3>3, <1>2
    <3> QED BY <3>4, <1>1 DEF ToSet
  <2> QED BY <2>1, <2>2
<1>8. IsInjective(r)
  BY <1>1, <1>6 DEF IsInjective
<1> QED BY <1>7, <1>8 DEF r

\* The list of those who left grows by the leaver.
LEMMA AppendSet ==
  ASSUME NEW S, NEW s \in Seq(S), NEW x \in S, IsInjective(s), x \notin ToSet(s)
  PROVE  /\ IsInjective(Append(s, x))
         /\ ToSet(Append(s, x)) = ToSet(s) \cup {x}
<1> DEFINE r == Append(s, x)
<1>1. /\ DOMAIN s = 1..Len(s) /\ DOMAIN r = 1..(Len(s) + 1) /\ Len(s) \in Nat
      /\ r[Len(s) + 1] = x /\ \A k \in 1..Len(s) : r[k] = s[k]
  OBVIOUS
<1> HIDE DEF r
<1>2. \A k \in 1..(Len(s) + 1) : k = Len(s) + 1 \/ k \in 1..Len(s)
  BY <1>1
<1>3. \A k \in 1..Len(s) : s[k] \in ToSet(s) /\ s[k] # x
  BY <1>1 DEF ToSet
<1>4. IsInjective(r)
  BY <1>1, <1>2, <1>3 DEF IsInjective
<1>5. ToSet(r) = ToSet(s) \cup {x}
  <2>1. \A y : y \in ToSet(r) <=> \E k \in 1..(Len(s) + 1) : y = r[k]
    BY <1>1 DEF ToSet
  <2>2. \A y : y \in ToSet(s) <=> \E k \in 1..Len(s) : y = s[k]
    BY <1>1 DEF ToSet
  <2>3. Len(s) + 1 \in 1..(Len(s) + 1) /\ \A k \in 1..Len(s) : k \in 1..(Len(s) + 1)
    BY <1>1
  <2> QED BY <1>1, <1>2, <2>1, <2>2, <2>3
<1> QED BY <1>4, <1>5 DEF r

-----------------------------------------------------------------------------
(* Induction over numbers *)

\* A set of naturals that is not empty has a least element.
LEMMA NatHasLeast ==
  ASSUME NEW S, S \subseteq Nat, S # {}
  PROVE  \E n \in S : \A m \in S : n <= m
<1> DEFINE Less == {mn \in Nat \X Nat : mn[1] < mn[2]}
<1>1. IsWellFoundedOn(Less, Nat)
  BY NatLessThanWellFounded DEF OpToRel
<1>2. \A m, n \in Nat : m < n => <<m, n>> \in Less
  OBVIOUS
<1> HIDE DEF Less
<1>3. \E n \in S : \A m \in S : ~(<<m, n>> \in Less)
  BY <1>1, WFMin
<1>4. PICK n \in S : \A m \in S : ~(<<m, n>> \in Less)
  BY <1>3
<1>5. \A m \in S : ~(m < n) /\ m \in Nat /\ n \in Nat
  BY <1>2, <1>4
<1>6. \A m \in S : n <= m
  BY <1>5
<1> QED BY <1>6

\* A set of naturals that holds 0, and with each number the next, holds them all.
LEMMA CountsOn ==
  ASSUME NEW S, 0 \in S, \A k \in Nat : k \in S => k + 1 \in S
  PROVE  \A k \in Nat : k \in S
<1> SUFFICES ASSUME Nat \ S # {} PROVE FALSE
  OBVIOUS
<1>1. PICK n \in Nat \ S : \A m \in Nat \ S : n <= m
  BY NatHasLeast
<1>2. n # 0 /\ n - 1 \in Nat /\ ~(n <= n - 1) /\ (n - 1) + 1 = n
  BY <1>1
<1>3. n - 1 \in S
  BY <1>1, <1>2
<1> QED BY <1>1, <1>2, <1>3

-----------------------------------------------------------------------------
(* Induction over finite sets *)

\* A family of subsets that holds the empty one, and with each its extension by any
\* member, holds them all.
LEMMA FillsUp ==
  ASSUME NEW D, IsFiniteSet(D), NEW K, {} \in K,
         \A S \in SUBSET D : \A x \in D \ S : S \in K => S \cup {x} \in K
  PROVE  \A S \in SUBSET D : S \in K
<1> SUFFICES ASSUME NEW R \in SUBSET D, R \notin K PROVE FALSE
  OBVIOUS
<1> DEFINE Bad == {S \in SUBSET D : S \notin K}
           Counts == {Cardinality(S) : S \in Bad}
<1>1. \A S \in SUBSET D : IsFiniteSet(S) /\ Cardinality(S) \in Nat
  BY FS_Subset, FS_CardinalityType
<1>2. Counts \subseteq Nat /\ Counts # {}
  BY <1>1
<1>3. PICK n \in Counts : \A m \in Counts : n <= m
  <2> HIDE DEF Counts
  <2> QED BY <1>2, NatHasLeast
<1>4. PICK S \in Bad : n = Cardinality(S)
  BY <1>3
<1>5. PICK x \in S : TRUE
  BY <1>4
<1>6. S \ {x} \in SUBSET D /\ x \in D \ (S \ {x}) /\ (S \ {x}) \cup {x} = S
  BY <1>5
<1>7. Cardinality(S \ {x}) = Cardinality(S) - 1
  BY <1>1, <1>5, FS_RemoveElement
<1>8. S \ {x} \in K
  <2> SUFFICES ASSUME S \ {x} \in Bad PROVE FALSE
    BY <1>6
  <2>1. Cardinality(S \ {x}) \in Counts
    OBVIOUS
  <2>2. n <= Cardinality(S \ {x})
    <3> HIDE DEF Counts
    <3> QED BY <1>3, <2>1
  <2> QED BY <1>1, <1>4, <1>7, <2>2
<1> QED BY <1>6, <1>8

-----------------------------------------------------------------------------
(* Sums *)

\* The member the fold of the library takes out first.
First(S) == CHOOSE x \in S : TRUE

\* s is the sum of f over every subset of D, as the fold of the library takes it.
AddsUp(s, f, D) ==
  \A S \in SUBSET D : s[S] = IF S = {} THEN 0 ELSE f[First(S)] + s[S \ {First(S)}]

AddsIn(s, f, D) == s \in [SUBSET D -> Int] /\ AddsUp(s, f, D)

IntsOn(f, D) == \A x \in D : f[x] \in Int

\* Taking that member out leaves one less.
LEMMA SubsetsCounted ==
  ASSUME NEW D, IsFiniteSet(D), NEW S \in SUBSET D, S # {}
  PROVE  /\ First(S) \in S /\ First(S) \in D /\ S \ {First(S)} \in SUBSET D
         /\ IsFiniteSet(S) /\ Cardinality(S) \in Nat /\ Cardinality(S) # 0
         /\ Cardinality(S \ {First(S)}) = Cardinality(S) - 1
<1>1. First(S) \in S
  BY DEF First
<1>2. IsFiniteSet(S)
  BY FS_Subset
<1> QED BY <1>1, <1>2, FS_CardinalityType, FS_EmptySet, FS_RemoveElement

\* Such a function exists.
LEMMA AddsInExists ==
  ASSUME NEW D, IsFiniteSet(D), NEW f, IntsOn(f, D)
  PROVE  \E s : AddsIn(s, f, D)
<1> DEFINE Small(k) == {S \in SUBSET D : Cardinality(S) < k}
           Good(s, k) == \A S \in Small(k) :
                           s[S] = IF S = {} THEN 0 ELSE f[First(S)] + s[S \ {First(S)}]
           K == {k \in Nat : \E s \in [Small(k) -> Int] : Good(s, k)}
<1>1. \A S \in SUBSET D : Cardinality(S) \in Nat
  BY FS_Subset, FS_CardinalityType
<1>2. \A k \in Nat : \A S \in Small(k + 1) : S # {} =>
        S \ {First(S)} \in Small(k) /\ S \ {First(S)} \in Small(k + 1) /\ f[First(S)] \in Int
  BY SubsetsCounted DEF IntsOn
<1>3. 0 \in K
  <2>1. \A S \in Small(0) : FALSE
    BY <1>1
  <2>2. PICK s : s = [S \in Small(0) |-> 0]
    OBVIOUS
  <2> HIDE DEF Small
  <2> QED BY <2>1, <2>2
<1>4. \A k \in Nat : k \in K => k + 1 \in K
  <2> SUFFICES ASSUME NEW k \in Nat, k \in K PROVE k + 1 \in K
    OBVIOUS
  <2>1. PICK s \in [Small(k) -> Int] : Good(s, k)
    OBVIOUS
  <2>2. PICK h : h = [S \in Small(k + 1) |-> IF S = {} THEN 0 ELSE f[First(S)] + s[S \ {First(S)}]]
    OBVIOUS
  <2>3. \A S \in Small(k) : S \in Small(k + 1)
    BY <1>1
  <2> HIDE DEF Small
  <2>4. h \in [Small(k + 1) -> Int]
    BY <1>2, <2>2
  <2>5. \A S \in Small(k) : h[S] = s[S]
    BY <2>1, <2>2, <2>3
  <2>6. Good(h, k + 1)
    BY <1>2, <2>2, <2>5
  <2> HIDE DEF Good
  <2> QED BY <2>4, <2>6
<1>5. PICK n \in Nat : n = Cardinality(D) + 1
  BY <1>1
<1>6. n \in K
  <2> HIDE DEF K
  <2> QED BY <1>3, <1>4, CountsOn
<1>7. PICK s \in [Small(n) -> Int] : Good(s, n)
  BY <1>6
<1>8. Small(n) = SUBSET D
  BY <1>1, <1>5, FS_Subset
<1> QED BY <1>7, <1>8 DEF AddsIn, AddsUp

\* Only one does, over any part of the set.
LEMMA AddsInAgree ==
  ASSUME NEW D, IsFiniteSet(D), NEW f, NEW s, NEW E \in SUBSET D, NEW r,
         AddsIn(s, f, D), AddsUp(r, f, E)
  PROVE  \A S \in SUBSET E : r[S] = s[S]
<1> DEFINE K == {k \in Nat : \A S \in SUBSET E : Cardinality(S) < k => r[S] = s[S]}
<1>1. \A S \in SUBSET E : Cardinality(S) \in Nat /\ S \in SUBSET D
  BY FS_Subset, FS_CardinalityType
<1>2. 0 \in K
  BY <1>1
<1>3. \A k \in Nat : k \in K => k + 1 \in K
  <2> SUFFICES ASSUME NEW k \in Nat, k \in K, NEW S \in SUBSET E, Cardinality(S) < k + 1
               PROVE  r[S] = s[S]
    OBVIOUS
  <2>1. CASE S = {}
    BY <1>1, <2>1 DEF AddsIn, AddsUp
  <2>2. CASE S # {}
    <3>1. S \ {First(S)} \in SUBSET E /\ Cardinality(S \ {First(S)}) < k
      BY <1>1, <2>2, SubsetsCounted
    <3>2. r[S \ {First(S)}] = s[S \ {First(S)}]
      BY <3>1
    <3> QED BY <1>1, <2>2, <3>2 DEF AddsIn, AddsUp
  <2> QED BY <2>1, <2>2
<1> SUFFICES ASSUME NEW S \in SUBSET E PROVE r[S] = s[S]
  OBVIOUS
<1>4. PICK k \in Nat : k = Cardinality(S) + 1
  BY <1>1
<1>5. k \in K
  <2> HIDE DEF K
  <2> QED BY <1>2, <1>3, CountsOn
<1> QED BY <1>1, <1>4, <1>5

\* What the fold of the library yields is that sum.
LEMMA FoldIs ==
  ASSUME NEW D, IsFiniteSet(D), NEW f, IntsOn(f, D)
  PROVE  \E s : AddsIn(s, f, D) /\ SumFunctionOnSet(f, D) = s[D]
<1>1. PICK r : AddsIn(r, f, D)
  BY AddsInExists
<1> DEFINE Body(s) == [S \in SUBSET D |->
                         IF S = {} THEN 0 ELSE f[CHOOSE x \in S : TRUE] + s[S \ {CHOOSE x \in S : TRUE}]]
           sum == CHOOSE s : s = Body(s)
<1>2. r = Body(r)
  BY <1>1 DEF AddsIn, AddsUp, First
<1>3. sum = Body(sum)
  BY <1>2, Zenon
<1>4. SumFunctionOnSet(f, D) = sum[D]
  BY Zenon DEF SumFunctionOnSet, FoldFunctionOnSet, MapThenFoldSet
<1>5. PICK s : s = sum
  OBVIOUS
<1>6. s = Body(s)
  BY <1>3, <1>5
<1> HIDE DEF sum
<1>7. AddsUp(s, f, D)
  BY <1>6 DEF First, AddsUp
<1>8. \A S \in SUBSET D : s[S] = r[S]
  <2>1. D \in SUBSET D
    OBVIOUS
  <2> QED BY <1>1, <1>7, <2>1, AddsInAgree
<1>9. AddsIn(s, f, D)
  <2>1. s = r
    BY <1>1, <1>6, <1>8 DEF AddsIn, AddsUp
  <2> QED BY <1>1, <2>1
<1> QED BY <1>4, <1>5, <1>9

\* Over a part of the set it is the same function's value.
LEMMA FoldOfPart ==
  ASSUME NEW D, IsFiniteSet(D), NEW f, NEW s, AddsIn(s, f, D), IntsOn(f, D), NEW S \in SUBSET D
  PROVE  SumFunctionOnSet(f, S) = s[S]
<1>1. IsFiniteSet(S) /\ IntsOn(f, S)
  BY FS_Subset DEF IntsOn
<1>2. PICK r : AddsIn(r, f, S) /\ SumFunctionOnSet(f, S) = r[S]
  BY <1>1, FoldIs
<1>3. \A T \in SUBSET S : r[T] = s[T]
  <2>1. AddsUp(r, f, S)
    BY <1>2 DEF AddsIn
  <2> QED BY <2>1, AddsInAgree
<1> QED BY <1>2, <1>3

\* Any member may be taken out first.
LEMMA AnyFirst ==
  ASSUME NEW D, IsFiniteSet(D), NEW f, NEW s, AddsIn(s, f, D), IntsOn(f, D)
  PROVE  \A S \in SUBSET D : \A x \in S : s[S] = f[x] + s[S \ {x}]
<1> DEFINE K == {k \in Nat : \A S \in SUBSET D : Cardinality(S) < k =>
                               \A x \in S : s[S] = f[x] + s[S \ {x}]}
<1>1. \A S \in SUBSET D : Cardinality(S) \in Nat
  BY FS_Subset, FS_CardinalityType
<1>2. 0 \in K
  BY <1>1
<1>3. \A k \in Nat : k \in K => k + 1 \in K
  <2> SUFFICES ASSUME NEW k \in Nat, k \in K, NEW S \in SUBSET D, Cardinality(S) < k + 1, NEW x \in S
               PROVE  s[S] = f[x] + s[S \ {x}]
    OBVIOUS
  <2>1. PICK m : m = First(S)
    OBVIOUS
  <2>2. m \in S /\ m \in D /\ S \ {m} \in SUBSET D /\ Cardinality(S \ {m}) < k
        /\ IsFiniteSet(S) /\ Cardinality(S) \in Nat
    BY <1>1, <2>1, SubsetsCounted
  <2>3. s[S] = f[m] + s[S \ {m}]
    BY <2>1 DEF AddsIn, AddsUp
  <2>4. CASE x = m
    BY <2>3, <2>4
  <2>5. CASE x # m
    <3>1. S \ {x} \in SUBSET D /\ m \in S \ {x} /\ x \in S \ {m} /\ (S \ {x}) \ {m} = (S \ {m}) \ {x}
      BY <2>2, <2>5
    <3>2. Cardinality(S \ {x}) < k
      BY <2>2, FS_RemoveElement
    <3>3. s[S \ {m}] = f[x] + s[(S \ {m}) \ {x}]
      BY <2>2, <3>1
    <3>4. s[S \ {x}] = f[m] + s[(S \ {m}) \ {x}]
      BY <3>1, <3>2
    <3>5. f[m] \in Int /\ f[x] \in Int /\ s[(S \ {m}) \ {x}] \in Int
      BY <2>2 DEF AddsIn, AddsUp, IntsOn
    <3> QED BY <2>3, <3>3, <3>4, <3>5
  <2> QED BY <2>4, <2>5
<1> SUFFICES ASSUME NEW S \in SUBSET D, NEW x \in S PROVE s[S] = f[x] + s[S \ {x}]
  OBVIOUS
<1>4. PICK k \in Nat : k = Cardinality(S) + 1
  BY <1>1
<1>5. k \in K
  <2> HIDE DEF K
  <2> QED BY <1>2, <1>3, CountsOn
<1> QED BY <1>1, <1>4, <1>5

LEMMA SumOfNone ==
  ASSUME NEW f
  PROVE  SumFunctionOnSet(f, {}) = 0
<1>1. IsFiniteSet({}) /\ IntsOn(f, {})
  BY FS_EmptySet DEF IntsOn
<1>2. PICK s : AddsIn(s, f, {}) /\ SumFunctionOnSet(f, {}) = s[{}]
  BY <1>1, FoldIs
<1> QED BY <1>2 DEF AddsIn, AddsUp

LEMMA SumType ==
  ASSUME NEW D, IsFiniteSet(D), NEW f, IntsOn(f, D)
  PROVE  SumFunctionOnSet(f, D) \in Int
<1>1. PICK s : AddsIn(s, f, D) /\ SumFunctionOnSet(f, D) = s[D]
  BY FoldIs
<1> QED BY <1>1 DEF AddsIn, AddsUp

\* A sum is a term and the sum of the others.
LEMMA SumByOne ==
  ASSUME NEW D, IsFiniteSet(D), NEW f, IntsOn(f, D), NEW x \in D
  PROVE  SumFunctionOnSet(f, D) = f[x] + SumFunctionOnSet(f, D \ {x})
<1>1. PICK s : AddsIn(s, f, D) /\ SumFunctionOnSet(f, D) = s[D]
  BY FoldIs
<1>2. SumFunctionOnSet(f, D \ {x}) = s[D \ {x}]
  BY <1>1, FoldOfPart
<1>3. s[D] = f[x] + s[D \ {x}]
  BY <1>1, AnyFirst
<1> QED BY <1>1, <1>2, <1>3

LEMMA SumWith ==
  ASSUME NEW D, IsFiniteSet(D), NEW f, IntsOn(f, D), NEW S \in SUBSET D, NEW x \in D \ S
  PROVE  SumFunctionOnSet(f, S \cup {x}) = f[x] + SumFunctionOnSet(f, S)
<1>1. PICK T : T = S \cup {x}
  OBVIOUS
<1>2. T \in SUBSET D /\ x \in T /\ T \ {x} = S
  BY <1>1
<1>3. IsFiniteSet(T) /\ IntsOn(f, T)
  BY <1>2, FS_Subset DEF IntsOn
<1> QED BY <1>1, <1>2, <1>3, SumByOne

\* Sums of equal functions are equal.
LEMMA SumSame ==
  ASSUME NEW D, IsFiniteSet(D), NEW f, IntsOn(f, D), NEW g, \A x \in D : g[x] = f[x]
  PROVE  SumFunctionOnSet(g, D) = SumFunctionOnSet(f, D)
<1> DEFINE K == {S \in SUBSET D : SumFunctionOnSet(g, S) = SumFunctionOnSet(f, S)}
<1>1. IntsOn(g, D)
  BY DEF IntsOn
<1>2. {} \in K
  BY SumOfNone
<1>3. \A S \in SUBSET D : \A x \in D \ S : S \in K => S \cup {x} \in K
  BY <1>1, SumWith
<1>4. D \in K
  <2> HIDE DEF K
  <2> QED BY <1>2, <1>3, FillsUp
<1> QED BY <1>4

\* A sum changes by what one of its terms does.
SameBut(g, f, D, x) == g[x] \in Int /\ \A y \in D \ {x} : g[y] = f[y]

LEMMA SumChange ==
  ASSUME NEW D, IsFiniteSet(D), NEW f, IntsOn(f, D), NEW g, NEW x \in D, SameBut(g, f, D, x)
  PROVE  SumFunctionOnSet(g, D) = SumFunctionOnSet(f, D) + (g[x] - f[x])
<1>1. IntsOn(g, D)
  BY DEF IntsOn, SameBut
<1>2. IsFiniteSet(D \ {x}) /\ IntsOn(f, D \ {x})
  BY FS_RemoveElement DEF IntsOn
<1>3. SumFunctionOnSet(g, D \ {x}) = SumFunctionOnSet(f, D \ {x})
  BY <1>2, SumSame DEF SameBut
<1>4. SumFunctionOnSet(f, D) = f[x] + SumFunctionOnSet(f, D \ {x})
  BY SumByOne
<1>5. SumFunctionOnSet(g, D) = g[x] + SumFunctionOnSet(g, D \ {x})
  BY <1>1, SumByOne
<1>6. SumFunctionOnSet(f, D \ {x}) \in Int /\ f[x] \in Int
  BY <1>2, SumType DEF IntsOn
<1> QED BY <1>3, <1>4, <1>5, <1>6 DEF SameBut

LEMMA SumPlus ==
  ASSUME NEW D, IsFiniteSet(D), NEW f, IntsOn(f, D), NEW g, IntsOn(g, D), NEW h,
         \A x \in D : h[x] = f[x] + g[x]
  PROVE  SumFunctionOnSet(h, D) = SumFunctionOnSet(f, D) + SumFunctionOnSet(g, D)
<1> DEFINE K == {S \in SUBSET D : SumFunctionOnSet(h, S) = SumFunctionOnSet(f, S) + SumFunctionOnSet(g, S)}
<1>1. IntsOn(h, D)
  BY DEF IntsOn
<1>2. {} \in K
  BY SumOfNone
<1>3. ASSUME NEW S \in SUBSET D, NEW x \in D \ S, S \in K
      PROVE  S \cup {x} \in K
  <2>1. /\ SumFunctionOnSet(f, S \cup {x}) = f[x] + SumFunctionOnSet(f, S)
        /\ SumFunctionOnSet(g, S \cup {x}) = g[x] + SumFunctionOnSet(g, S)
        /\ SumFunctionOnSet(h, S \cup {x}) = h[x] + SumFunctionOnSet(h, S)
    BY <1>1, SumWith
  <2>2. IsFiniteSet(S) /\ IntsOn(f, S) /\ IntsOn(g, S)
    BY FS_Subset DEF IntsOn
  <2>3. SumFunctionOnSet(f, S) \in Int /\ SumFunctionOnSet(g, S) \in Int
    BY <2>2, SumType
  <2>4. SumFunctionOnSet(h, S) = SumFunctionOnSet(f, S) + SumFunctionOnSet(g, S)
    BY <1>3
  <2>5. f[x] \in Int /\ g[x] \in Int /\ h[x] = f[x] + g[x]
    BY DEF IntsOn
  <2>6. SumFunctionOnSet(h, S \cup {x}) = SumFunctionOnSet(f, S \cup {x}) + SumFunctionOnSet(g, S \cup {x})
    BY <2>1, <2>3, <2>4, <2>5
  <2> QED BY <2>6
<1>4. D \in K
  <2> HIDE DEF K
  <2> QED BY <1>2, <1>3, FillsUp
<1> QED BY <1>4

\* Larger terms, larger sum.
LEMMA SumLarger ==
  ASSUME NEW D, IsFiniteSet(D), NEW f, IntsOn(f, D), NEW g, IntsOn(g, D),
         \A x \in D : f[x] <= g[x]
  PROVE  SumFunctionOnSet(f, D) <= SumFunctionOnSet(g, D)
<1> DEFINE K == {S \in SUBSET D : SumFunctionOnSet(f, S) <= SumFunctionOnSet(g, S)}
<1>2. {} \in K
  BY SumOfNone
<1>3. ASSUME NEW S \in SUBSET D, NEW x \in D \ S, S \in K
      PROVE  S \cup {x} \in K
  <2>1. /\ SumFunctionOnSet(f, S \cup {x}) = f[x] + SumFunctionOnSet(f, S)
        /\ SumFunctionOnSet(g, S \cup {x}) = g[x] + SumFunctionOnSet(g, S)
    BY SumWith
  <2>2. IsFiniteSet(S) /\ IntsOn(f, S) /\ IntsOn(g, S)
    BY FS_Subset DEF IntsOn
  <2>3. SumFunctionOnSet(f, S) \in Int /\ SumFunctionOnSet(g, S) \in Int
    BY <2>2, SumType
  <2>4. SumFunctionOnSet(f, S) <= SumFunctionOnSet(g, S)
    BY <1>3
  <2>5. f[x] \in Int /\ g[x] \in Int /\ f[x] <= g[x]
    BY DEF IntsOn
  <2>6. SumFunctionOnSet(f, S \cup {x}) <= SumFunctionOnSet(g, S \cup {x})
    BY <2>1, <2>3, <2>4, <2>5
  <2> QED BY <2>6
<1>4. D \in K
  <2> HIDE DEF K
  <2> QED BY <1>2, <1>3, FillsUp
<1> QED BY <1>4

\* The members of E count c each, the others nothing.
LEMMA SumOfEqual ==
  ASSUME NEW D, IsFiniteSet(D), NEW E \in SUBSET D, NEW c \in Int, NEW f,
         \A x \in D : f[x] = IF x \in E THEN c ELSE 0
  PROVE  SumFunctionOnSet(f, D) = c * Cardinality(E)
<1> DEFINE K == {S \in SUBSET D : SumFunctionOnSet(f, S) = c * Cardinality(E \cap S)}
<1>1. IntsOn(f, D)
  BY DEF IntsOn
<1>2. {} \in K
  <2>1. E \cap {} = {}
    OBVIOUS
  <2>2. Cardinality(E \cap {}) = 0
    BY <2>1, FS_EmptySet
  <2> QED BY <2>2, SumOfNone
<1>3. ASSUME NEW S \in SUBSET D, NEW x \in D \ S, S \in K
      PROVE  S \cup {x} \in K
  <2>1. SumFunctionOnSet(f, S \cup {x}) = f[x] + SumFunctionOnSet(f, S)
    BY <1>1, SumWith
  <2>2. PICK k : k = Cardinality(E \cap S)
    OBVIOUS
  <2>3. IsFiniteSet(E \cap S) /\ k \in Nat
    <3>1. E \cap S \in SUBSET D
      OBVIOUS
    <3> QED BY <2>2, <3>1, FS_Subset, FS_CardinalityType
  <2>4. SumFunctionOnSet(f, S) = c * k
    BY <1>3, <2>2
  <2>5. CASE x \in E
    <3>1. E \cap (S \cup {x}) = (E \cap S) \cup {x} /\ x \notin E \cap S
      BY <2>5
    <3>2. Cardinality(E \cap (S \cup {x})) = k + 1
      BY <2>2, <2>3, <3>1, FS_AddElement
    <3>3. f[x] = c
      BY <2>5
    <3>4. SumFunctionOnSet(f, S \cup {x}) = c + c * k
      BY <2>1, <2>4, <3>3
    <3>5. c + c * k = c * (k + 1)
      BY <2>3
    <3> QED BY <3>2, <3>4, <3>5
  <2>6. CASE x \notin E
    <3>1. E \cap (S \cup {x}) = E \cap S
      BY <2>6
    <3>2. f[x] = 0
      BY <2>6
    <3>3. c * k \in Int
      BY <2>3
    <3>4. SumFunctionOnSet(f, S \cup {x}) = c * k
      BY <2>1, <2>4, <3>2, <3>3
    <3> QED BY <2>2, <3>1, <3>4
  <2> QED BY <2>5, <2>6
<1>4. D \in K
  <2> HIDE DEF K
  <2> QED BY <1>2, <1>3, FillsUp
<1>5. E \cap D = E
  OBVIOUS
<1> QED BY <1>4, <1>5

LEMMA SumOfNothing ==
  ASSUME NEW D, IsFiniteSet(D), NEW f, f = [x \in D |-> 0]
  PROVE  SumFunctionOnSet(f, D) = 0
<1>1. {} \in SUBSET D /\ 0 \in Int /\ \A x \in D : f[x] = IF x \in {} THEN 0 ELSE 0
  OBVIOUS
<1>2. SumFunctionOnSet(f, D) = 0 * Cardinality({})
  BY <1>1, SumOfEqual
<1> QED BY <1>2, FS_EmptySet

\* Members that count nothing may be left out.
LEMMA SumOfSome ==
  ASSUME NEW D, IsFiniteSet(D), NEW f, IntsOn(f, D), NEW E \in SUBSET D,
         \A x \in D \ E : f[x] = 0
  PROVE  SumFunctionOnSet(f, D) = SumFunctionOnSet(f, E)
<1>1. PICK U : U = D \ E
  OBVIOUS
<1> DEFINE K == {S \in SUBSET U : SumFunctionOnSet(f, E \cup S) = SumFunctionOnSet(f, E)}
<1>2. IsFiniteSet(U) /\ IsFiniteSet(E) /\ IntsOn(f, E) /\ U \in SUBSET D
  BY <1>1, FS_Subset DEF IntsOn
<1>3. {} \in K
  <2>1. E \cup {} = E
    OBVIOUS
  <2> QED BY <2>1
<1>4. ASSUME NEW S \in SUBSET U, NEW x \in U \ S, S \in K
      PROVE  S \cup {x} \in K
  <2>1. PICK T, R : T = E \cup S /\ R = E \cup (S \cup {x})
    OBVIOUS
  <2>2. T \in SUBSET D /\ x \in D \ T /\ T \cup {x} = R
    BY <1>1, <2>1
  <2>3. SumFunctionOnSet(f, R) = f[x] + SumFunctionOnSet(f, T)
    BY <2>2, SumWith
  <2>4. f[x] = 0 /\ SumFunctionOnSet(f, T) = SumFunctionOnSet(f, E)
    BY <1>1, <1>4, <2>1
  <2>5. SumFunctionOnSet(f, E) \in Int
    BY <1>2, SumType
  <2>6. SumFunctionOnSet(f, R) = SumFunctionOnSet(f, E)
    BY <2>3, <2>4, <2>5
  <2>7. S \cup {x} \in SUBSET U
    OBVIOUS
  <2> QED BY <2>1, <2>6, <2>7
<1>5. U \in K
  <2> HIDE DEF K
  <2> QED BY <1>2, <1>3, <1>4, FillsUp
<1>6. E \cup U = D
  BY <1>1
<1> QED BY <1>5, <1>6

\* Two parts.
LEMMA SumOfParts ==
  ASSUME NEW D, IsFiniteSet(D), NEW f, IntsOn(f, D), NEW E \in SUBSET D
  PROVE  SumFunctionOnSet(f, D) = SumFunctionOnSet(f, E) + SumFunctionOnSet(f, D \ E)
<1>1. PICK g : g = [x \in D |-> IF x \in E THEN f[x] ELSE 0]
  OBVIOUS
<1>2. PICK h : h = [x \in D |-> IF x \in E THEN 0 ELSE f[x]]
  OBVIOUS
<1>3. PICK U : U = D \ E
  OBVIOUS
<1>4. IntsOn(g, D) /\ IntsOn(h, D) /\ \A x \in D : f[x] = g[x] + h[x]
  BY <1>1, <1>2 DEF IntsOn
<1>5. SumFunctionOnSet(f, D) = SumFunctionOnSet(g, D) + SumFunctionOnSet(h, D)
  BY <1>4, SumPlus
<1>6. IsFiniteSet(E) /\ IntsOn(f, E) /\ IsFiniteSet(U) /\ IntsOn(f, U) /\ U \in SUBSET D
  BY <1>3, FS_Subset DEF IntsOn
<1>7. SumFunctionOnSet(g, D) = SumFunctionOnSet(f, E)
  <2>1. \A x \in D \ E : g[x] = 0
    BY <1>1
  <2>2. \A x \in E : g[x] = f[x]
    BY <1>1
  <2>3. SumFunctionOnSet(g, D) = SumFunctionOnSet(g, E)
    BY <1>4, <2>1, SumOfSome
  <2> QED BY <1>6, <2>2, <2>3, SumSame
<1>8. SumFunctionOnSet(h, D) = SumFunctionOnSet(f, U)
  <2>1. \A x \in D \ U : h[x] = 0
    BY <1>2, <1>3
  <2>2. \A x \in U : h[x] = f[x]
    BY <1>2, <1>3
  <2>3. SumFunctionOnSet(h, D) = SumFunctionOnSet(h, U)
    BY <1>4, <1>6, <2>1, SumOfSome
  <2> QED BY <1>6, <2>2, <2>3, SumSame
<1> QED BY <1>3, <1>5, <1>7, <1>8

\* r holds the sums of the rows of m, or of its columns over the rows in S.
IntTable(m, A, B) == \A a \in A, b \in B : m[<<a, b>>] \in Int
RowSums(r, m, A, B) == \A a \in A : r[a] = SumFunctionOnSet([b \in B |-> m[<<a, b>>]], B)
ColSums(c, m, A, B) == \A b \in B : c[b] = SumFunctionOnSet([a \in A |-> m[<<a, b>>]], A)

\* Rows first or columns first makes no difference.
LEMMA SumEitherWay ==
  ASSUME NEW A, IsFiniteSet(A), NEW B, IsFiniteSet(B), NEW m, IntTable(m, A, B),
         NEW r, RowSums(r, m, A, B), NEW c, ColSums(c, m, A, B)
  PROVE  SumFunctionOnSet(r, A) = SumFunctionOnSet(c, B)
<1>1. PICK row : row = [a \in A |-> [b \in B |-> m[<<a, b>>]]]
  OBVIOUS
<1>2. PICK col : col = [b \in B |-> [a \in A |-> m[<<a, b>>]]]
  OBVIOUS
<1>3. \A a \in A : IntsOn(row[a], B) /\ r[a] = SumFunctionOnSet(row[a], B)
  BY <1>1 DEF IntsOn, RowSums, IntTable
<1>4. \A b \in B : IntsOn(col[b], A) /\ c[b] = SumFunctionOnSet(col[b], A)
  BY <1>2 DEF IntsOn, ColSums, IntTable
<1>5. \A a \in A, b \in B : row[a][b] = col[b][a]
  BY <1>1, <1>2
<1>6. PICK part : part = [S \in SUBSET A |-> [b \in B |-> SumFunctionOnSet(col[b], S)]]
  OBVIOUS
<1>7. IntsOn(r, A)
  BY <1>3, SumType DEF IntsOn
<1>8. ASSUME NEW S \in SUBSET A PROVE IntsOn(part[S], B)
  <2>1. ASSUME NEW b \in B PROVE part[S][b] \in Int
    <3>1. IsFiniteSet(S) /\ IntsOn(col[b], S)
      BY <1>4, FS_Subset DEF IntsOn
    <3> QED BY <1>6, <3>1, SumType
  <2> QED BY <2>1 DEF IntsOn
<1> DEFINE K == {S \in SUBSET A : SumFunctionOnSet(r, S) = SumFunctionOnSet(part[S], B)}
<1>9. {} \in K
  <2>1. \A b \in B : part[{}][b] = IF b \in {} THEN 0 ELSE 0
    BY <1>6, SumOfNone
  <2>2. SumFunctionOnSet(part[{}], B) = 0 * Cardinality({})
    <3>1. {} \in SUBSET B /\ 0 \in Int
      OBVIOUS
    <3> QED BY <2>1, <3>1, SumOfEqual
  <2>3. Cardinality({}) = 0
    BY FS_EmptySet
  <2> QED BY <2>2, <2>3, SumOfNone
<1>10. ASSUME NEW S \in SUBSET A, NEW a \in A \ S, S \in K
       PROVE  S \cup {a} \in K
  <2>1. PICK T : T = S \cup {a}
    OBVIOUS
  <2>2. T \in SUBSET A
    BY <2>1
  <2>3. SumFunctionOnSet(r, T) = r[a] + SumFunctionOnSet(r, S)
    BY <1>7, <2>1, SumWith
  <2>4. \A b \in B : part[T][b] = row[a][b] + part[S][b]
    <3>1. ASSUME NEW b \in B PROVE part[T][b] = row[a][b] + part[S][b]
      <4>1. SumFunctionOnSet(col[b], T) = col[b][a] + SumFunctionOnSet(col[b], S)
        BY <1>4, <2>1, SumWith
      <4>2. part[T][b] = SumFunctionOnSet(col[b], T) /\ part[S][b] = SumFunctionOnSet(col[b], S)
        BY <1>6, <2>2
      <4> QED BY <1>5, <4>1, <4>2
    <3> QED BY <3>1
  <2>5. SumFunctionOnSet(part[T], B) = SumFunctionOnSet(row[a], B) + SumFunctionOnSet(part[S], B)
    BY <1>3, <1>8, <2>4, SumPlus
  <2>6. SumFunctionOnSet(r, T) = SumFunctionOnSet(part[T], B)
    BY <1>3, <1>10, <2>3, <2>5
  <2> QED BY <2>1, <2>2, <2>6
<1>11. A \in K
  <2> HIDE DEF K
  <2> QED BY <1>9, <1>10, FillsUp
<1>12. SumFunctionOnSet(part[A], B) = SumFunctionOnSet(c, B)
  <2>1. \A b \in B : c[b] = part[A][b]
    BY <1>4, <1>6
  <2> QED BY <1>8, <2>1, SumSame
<1> QED BY <1>11, <1>12

-----------------------------------------------------------------------------
(* Least and greatest *)

\* Numbers that do not go beyond a bound have a greatest.
LEMMA BoundedHasGreatest ==
  ASSUME NEW S, S \subseteq Nat, S # {}, NEW n \in Nat, \A x \in S : x <= n
  PROVE  \E g \in S : \A x \in S : x <= g
<1>1. PICK U : U = {u \in Nat : \A x \in S : x <= u}
  OBVIOUS
<1>2. U \subseteq Nat /\ U # {}
  BY <1>1
<1>3. PICK u \in U : \A v \in U : u <= v
  BY <1>2, NatHasLeast
<1>4. u \in Nat /\ \A x \in S : x <= u /\ x \in Nat
  BY <1>1, <1>3
<1>5. u \in S
  <2> SUFFICES ASSUME u \notin S PROVE FALSE
    OBVIOUS
  <2>1. PICK x \in S : TRUE
    OBVIOUS
  <2>2. u - 1 \in Nat /\ ~(u <= u - 1)
    BY <1>4, <2>1
  <2>3. \A y \in S : y <= u - 1
    BY <1>4
  <2> QED BY <1>1, <1>3, <2>2, <2>3
<1> QED BY <1>4, <1>5

\* Somebody of a finite set is ahead of nobody.
LEMMA SomeoneGreatest ==
  ASSUME NEW D, IsFiniteSet(D), D # {}, NEW f, IntsOn(f, D)
  PROVE  \E x \in D : \A y \in D : f[y] <= f[x]
<1> DEFINE K == {S \in SUBSET D : S # {} => \E x \in S : \A y \in S : f[y] <= f[x]}
<1>1. {} \in K
  OBVIOUS
<1>2. ASSUME NEW S \in SUBSET D, NEW z \in D \ S, S \in K
      PROVE  S \cup {z} \in K
  <2>1. \A y \in S \cup {z} : f[y] \in Int
    BY DEF IntsOn
  <2>2. CASE S = {}
    BY <2>1, <2>2
  <2>3. CASE S # {}
    <3>1. PICK x \in S : \A y \in S : f[y] <= f[x]
      BY <1>2, <2>3
    <3>2. CASE f[z] <= f[x]
      <4>1. \A y \in S \cup {z} : f[y] <= f[x]
        BY <3>1, <3>2
      <4> QED BY <4>1
    <3>3. CASE ~(f[z] <= f[x])
      <4>1. \A y \in S \cup {z} : f[y] <= f[z]
        BY <2>1, <3>1, <3>3
      <4> QED BY <4>1
    <3> QED BY <3>2, <3>3
  <2> QED BY <2>2, <2>3
<1>3. D \in K
  <2> HIDE DEF K
  <2> QED BY <1>1, <1>2, FillsUp
<1> QED BY <1>3

-----------------------------------------------------------------------------
(* Sets in order *)

\* A strict order, as a set of pairs, in which any two members of S can be compared.
Orders(B, S) ==
  /\ \A x \in S : <<x, x>> \notin B
  /\ \A x, y, z \in S : <<x, y>> \in B /\ <<y, z>> \in B => <<x, z>> \in B
  /\ \A x, y \in S : x # y => <<x, y>> \in B \/ <<y, x>> \in B

\* The members of S that come before x.
Preceding(B, S, x) == {y \in S : <<y, x>> \in B}

\* The members of S, each once, as they come in the order.
Lists(o, S, B) ==
  /\ o \in Seq(S) /\ Len(o) = Cardinality(S) /\ IsInjective(o) /\ ToSet(o) = S
  /\ \A i, j \in 1..Len(o) : i < j => <<o[i], o[j]>> \in B

LEMMA CountBefore ==
  ASSUME NEW S, IsFiniteSet(S), NEW B, Orders(B, S), NEW x \in S
  PROVE  /\ IsFiniteSet(Preceding(B, S, x)) /\ Cardinality(S) \in Nat
         /\ Cardinality(Preceding(B, S, x)) \in 0..(Cardinality(S) - 1)
<1>1. Preceding(B, S, x) \in SUBSET (S \ {x})
  BY DEF Preceding, Orders
<1>2. /\ IsFiniteSet(S \ {x}) /\ Cardinality(S \ {x}) = Cardinality(S) - 1
      /\ Cardinality(S) \in Nat
  BY FS_RemoveElement, FS_CardinalityType
<1>3. IsFiniteSet(Preceding(B, S, x)) /\ Cardinality(Preceding(B, S, x)) <= Cardinality(S) - 1
  BY <1>1, <1>2, FS_Subset
<1>4. Cardinality(Preceding(B, S, x)) \in Nat
  BY <1>3, FS_CardinalityType
<1> QED BY <1>2, <1>3, <1>4

\* Whoever comes later has more members before it.
LEMMA CountGrows ==
  ASSUME NEW S, IsFiniteSet(S), NEW B, Orders(B, S), NEW x \in S, NEW y \in S, <<x, y>> \in B
  PROVE  Cardinality(Preceding(B, S, x)) < Cardinality(Preceding(B, S, y))
<1>1. /\ Preceding(B, S, x) \in SUBSET Preceding(B, S, y)
      /\ x \in Preceding(B, S, y) /\ x \notin Preceding(B, S, x)
  BY DEF Preceding, Orders
<1>2. /\ IsFiniteSet(Preceding(B, S, x)) /\ IsFiniteSet(Preceding(B, S, y)) /\ Cardinality(S) \in Nat
      /\ Cardinality(Preceding(B, S, x)) \in 0..(Cardinality(S) - 1)
      /\ Cardinality(Preceding(B, S, y)) \in 0..(Cardinality(S) - 1)
  BY CountBefore
<1>3. /\ Cardinality(Preceding(B, S, x)) <= Cardinality(Preceding(B, S, y))
      /\ Cardinality(Preceding(B, S, x)) # Cardinality(Preceding(B, S, y))
  BY <1>1, <1>2, FS_Subset
<1> QED BY <1>2, <1>3

\* For each place of a finite order there is a member with as many before it.
LEMMA PlacesFilled ==
  ASSUME NEW S, IsFiniteSet(S), NEW B, Orders(B, S)
  PROVE  \A i \in 1..Cardinality(S) : \E x \in S : Cardinality(Preceding(B, S, x)) = i - 1
<1>1. PICK k \in Nat : k = Cardinality(S)
  BY FS_CardinalityType
<1>2. PICK rank : rank = [x \in S |-> Cardinality(Preceding(B, S, x))]
  OBVIOUS
<1>3. rank \in [S -> 0..(k - 1)]
  BY <1>1, <1>2, CountBefore
<1>4. ASSUME NEW x \in S, NEW y \in S, rank[x] = rank[y] PROVE x = y
  <2>1. rank[x] \in Int /\ rank[y] \in Int
    BY <1>3
  <2>2. \A a, b \in S : <<a, b>> \in B => rank[a] < rank[b]
    BY <1>2, CountGrows
  <2>3. <<x, y>> \notin B /\ <<y, x>> \notin B
    BY <1>4, <2>1, <2>2
  <2> QED BY <2>3 DEF Orders
<1>5. rank \in Injection(S, 0..(k - 1))
  BY <1>3, <1>4 DEF Injection, IsInjective
<1>6. IsFiniteSet(0..(k - 1)) /\ Cardinality(0..(k - 1)) = k
  <2>1. k - 1 \in Int /\ (0 > k - 1 => k = 0) /\ (k - 1) - 0 + 1 = k
    OBVIOUS
  <2> QED BY <2>1, FS_Interval
<1>7. rank \in Surjection(S, 0..(k - 1))
  BY <1>1, <1>5, <1>6, FS_Injection
<1> SUFFICES ASSUME NEW i \in 1..k PROVE \E x \in S : Cardinality(Preceding(B, S, x)) = i - 1
  BY <1>1
<1>8. i - 1 \in 0..(k - 1)
  OBVIOUS
<1>9. PICK x \in S : rank[x] = i - 1
  BY <1>7, <1>8 DEF Surjection
<1> QED BY <1>2, <1>9

\* A sequence that has at each place a member with as many before it lists them all in order.
PutInPlace(o, S, B) ==
  /\ o = [i \in 1..Cardinality(S) |-> o[i]]
  /\ \A i \in 1..Cardinality(S) : o[i] \in S /\ Cardinality(Preceding(B, S, o[i])) = i - 1

LEMMA OrderLists ==
  ASSUME NEW S, IsFiniteSet(S), NEW B, Orders(B, S), NEW o, PutInPlace(o, S, B)
  PROVE  Lists(o, S, B)
<1>1. PICK k \in Nat : k = Cardinality(S)
  BY FS_CardinalityType
<1>2. o = [i \in 1..k |-> o[i]] /\ \A i \in 1..k : o[i] \in S
  BY <1>1 DEF PutInPlace
<1>3. o \in Seq(S) /\ Len(o) = k /\ DOMAIN o = 1..k
  BY <1>2
<1>4. \A i \in 1..k : Cardinality(Preceding(B, S, o[i])) = i - 1
  BY <1>1 DEF PutInPlace
<1>5. \A i, j \in 1..k : o[i] = o[j] => i = j
  <2> SUFFICES ASSUME NEW i \in 1..k, NEW j \in 1..k, o[i] = o[j] PROVE i = j
    OBVIOUS
  <2>1. i - 1 = j - 1
    BY <1>4
  <2> QED BY <2>1
<1>6. IsInjective(o)
  BY <1>3, <1>5 DEF IsInjective
<1>7. \A x \in S : \E i \in 1..k : o[i] = x
  <2> SUFFICES ASSUME NEW x \in S PROVE \E i \in 1..k : o[i] = x
    OBVIOUS
  <2>1. Cardinality(Preceding(B, S, x)) \in 0..(k - 1)
    BY <1>1, CountBefore
  <2>2. PICK i \in 1..k : i - 1 = Cardinality(Preceding(B, S, x))
    BY <2>1
  <2>3. Cardinality(Preceding(B, S, o[i])) = Cardinality(Preceding(B, S, x)) /\ o[i] \in S
    BY <1>2, <1>4, <2>2
  <2>4. <<x, o[i]>> \notin B /\ <<o[i], x>> \notin B
    <3>1. Cardinality(Preceding(B, S, x)) \in Int
      BY <2>1
    <3>2. ~(Cardinality(Preceding(B, S, x)) < Cardinality(Preceding(B, S, x)))
      BY <3>1
    <3> QED BY <2>3, <3>2, CountGrows
  <2> QED BY <2>3, <2>4 DEF Orders
<1>8. ToSet(o) = S
  BY <1>2, <1>3, <1>7 DEF ToSet
<1>9. ASSUME NEW i \in 1..k, NEW j \in 1..k, i < j PROVE <<o[i], o[j]>> \in B
  <2>1. o[i] # o[j] /\ o[i] \in S /\ o[j] \in S
    BY <1>2, <1>5, <1>9
  <2>2. <<o[j], o[i]>> \notin B
    <3>1. ~(j - 1 < i - 1)
      BY <1>9
    <3> QED BY <1>4, <2>1, <3>1, CountGrows
  <2> QED BY <2>1, <2>2 DEF Orders
<1> QED BY <1>1, <1>3, <1>6, <1>8, <1>9 DEF Lists

LEMMA IntervalCount ==
  ASSUME NEW n \in Nat
  PROVE  IsFiniteSet(1..n) /\ Cardinality(1..n) = n
BY FS_Interval
=============================================================================
