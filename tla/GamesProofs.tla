---------------------------- MODULE GamesProofs -----------------------------
(***************************************************************************)
(* Proofs about the games: what a departure does to the seats, what the    *)
(* standings and the places of a match are, how the end of a match looks   *)
(* to the lobby, and with these the games with cards: Uno and Crazy Eights *)
(* for any number of players and any finite deck, gin rummy and hearts for *)
(* any deals that share out a deck, and that a knock in gin rummy is       *)
(* settled as over every split and every layoff of the two hands.          *)
(***************************************************************************)
EXTENDS Games, DataLemmas, FiniteSetTheorems

-----------------------------------------------------------------------------
(* Standings *)

\* The seats of a table by a score of whole numbers: who comes before whom.
ScoreOrder(seats, score) ==
  {e \in (1..Len(seats)) \X (1..Len(seats)) :
     \/ score[seats[e[1]]] < score[seats[e[2]]]
     \/ score[seats[e[1]]] = score[seats[e[2]]] /\ e[1] < e[2]}

IntsFor(score, seats) == \A i \in 1..Len(seats) : score[seats[i]] \in Int

\* Everybody seated, once, the lower score first.
ByScoreIs(o, seats, score) ==
  /\ o \in Seq(Player) /\ Len(o) = Len(seats) /\ IsInjective(o) /\ ToSet(o) = ToSet(seats)
  /\ \A i, j \in 1..Len(o) : i < j => score[o[i]] <= score[o[j]]

\* The standings list every seat once, in the order of the scores.
LEMMA ByScoreLists ==
  ASSUME NEW seats \in Seq(Player), IsInjective(seats), NEW score, IntsFor(score, seats)
  PROVE  ByScoreIs(ByScore(seats, score), seats, score)
<1> DEFINE S == 1..Len(seats)
           B == ScoreOrder(seats, score)
           before(i, j) == \/ score[seats[i]] < score[seats[j]]
                           \/ score[seats[i]] = score[seats[j]] /\ i < j
           order == InOrder(S, before)
<1>1. /\ Len(seats) \in Nat /\ IsFiniteSet(S) /\ Cardinality(S) = Len(seats)
      /\ \A i \in S : seats[i] \in Player /\ score[seats[i]] \in Int
  BY IntervalCount DEF IntsFor
<1>2. \A i, j \in S : <<i, j>> \in B <=> before(i, j)
  BY DEF ScoreOrder
<1>3. Orders(B, S)
  <2>1. \A x \in S : ~before(x, x)
    BY <1>1
  <2>2. \A x, y, z \in S : before(x, y) /\ before(y, z) => before(x, z)
    BY <1>1
  <2>3. \A x, y \in S : x # y => before(x, y) \/ before(y, x)
    BY <1>1
  <2> HIDE DEF before, S, B
  <2> QED BY <1>2, <2>1, <2>2, <2>3 DEF Orders
<1>4. \A x \in S : {y \in S : before(y, x)} = Preceding(B, S, x)
  <2> HIDE DEF before, S, B
  <2> QED BY <1>2 DEF Preceding
<1>5. PutInPlace(order, S, B)
  <2> DEFINE pick(i) == CHOOSE x \in S : Cardinality({y \in S : before(y, x)}) = i - 1
  <2>1. order = [i \in 1..Cardinality(S) |-> pick(i)]
    BY Zenon DEF InOrder
  <2> HIDE DEF order, before, S, B
  <2>2. ASSUME NEW i \in 1..Cardinality(S)
        PROVE  order[i] \in S /\ Cardinality(Preceding(B, S, order[i])) = i - 1
    <3>1. \E x \in S : Cardinality(Preceding(B, S, x)) = i - 1
      BY <1>1, <1>3, PlacesFilled
    <3>2. \E x \in S : Cardinality({y \in S : before(y, x)}) = i - 1
      BY <3>1, <1>4
    <3>3. order[i] = pick(i)
      <4> HIDE DEF pick
      <4> QED BY <2>1
    <3>4. order[i] \in S /\ Cardinality({y \in S : before(y, order[i])}) = i - 1
      BY <3>2, <3>3, Zenon
    <3> QED BY <3>4, <1>4
  <2>3. order = [i \in 1..Cardinality(S) |-> order[i]]
    <3> HIDE DEF pick
    <3> QED BY <2>1
  <2> QED BY <2>2, <2>3 DEF PutInPlace
<1> DEFINE o == ByScore(seats, score)
<1>6. o = [k \in 1..Len(seats) |-> seats[order[k]]]
  BY Zenon DEF ByScore
<1> HIDE DEF order, o
<1>7. Lists(order, S, B)
  <2> HIDE DEF S, B
  <2> QED BY <1>1, <1>3, <1>5, OrderLists
<1>8. \A k \in S : order[k] \in S
  BY <1>1, <1>7 DEF Lists
<1>9. o \in Seq(Player) /\ Len(o) = Len(seats) /\ DOMAIN o = S /\ \A k \in S : o[k] = seats[order[k]]
  BY <1>1, <1>6, <1>8
<1>10. IsInjective(o)
  <2>1. DOMAIN order = S /\ DOMAIN seats = S
    BY <1>1, <1>7 DEF Lists
  <2>2. /\ \A a, b \in S : order[a] = order[b] => a = b
        /\ \A a, b \in S : seats[a] = seats[b] => a = b
    <3> HIDE DEF S
    <3> QED BY <1>7, <2>1 DEF Lists, IsInjective
  <2> HIDE DEF S
  <2> QED BY <1>8, <1>9, <2>2 DEF IsInjective
<1>11. ToSet(o) = ToSet(seats)
  <2>1. DOMAIN order = S /\ DOMAIN seats = S /\ ToSet(order) = S
    BY <1>1, <1>7 DEF Lists
  <2> HIDE DEF S
  <2>2. \A s \in S : \E k \in S : order[k] = s
    BY <2>1 DEF ToSet
  <2>3. ToSet(o) = {o[k] : k \in S} /\ ToSet(seats) = {seats[k] : k \in S}
    BY <1>9, <2>1, Zenon DEF ToSet
  <2>4. \A k \in S : o[k] = seats[order[k]] /\ order[k] \in S
    BY <1>8, <1>9
  <2> QED BY <2>2, <2>3, <2>4
<1>12. ASSUME NEW i \in 1..Len(o), NEW j \in 1..Len(o), i < j PROVE score[o[i]] <= score[o[j]]
  <2>1. i \in S /\ j \in S /\ order[i] \in S /\ order[j] \in S /\ <<order[i], order[j]>> \in B
    BY <1>1, <1>7, <1>8, <1>9, <1>12 DEF Lists
  <2>2. before(order[i], order[j])
    <3> HIDE DEF S, B, before
    <3> QED BY <1>2, <2>1
  <2>3. score[seats[order[i]]] \in Int /\ score[seats[order[j]]] \in Int
    BY <1>1, <2>1
  <2> QED BY <1>9, <2>1, <2>2, <2>3
<1> HIDE DEF S, B, before
<1> QED BY <1>9, <1>10, <1>11, <1>12 DEF ByScoreIs, o

\* A sequence without repetitions has as many members as places.
LEMMA LengthIsCount ==
  ASSUME NEW S, NEW s \in Seq(S), IsInjective(s)
  PROVE  IsFiniteSet(ToSet(s)) /\ Cardinality(ToSet(s)) = Len(s)
<1>1. DOMAIN s = 1..Len(s) /\ Len(s) \in Nat
  OBVIOUS
<1>2. IsFiniteSet(1..Len(s)) /\ Cardinality(1..Len(s)) = Len(s)
  BY <1>1, IntervalCount
<1>3. s \in Bijection(1..Len(s), ToSet(s))
  <2>1. s \in [1..Len(s) -> ToSet(s)]
    BY <1>1 DEF ToSet
  <2>2. \A x \in ToSet(s) : \E i \in 1..Len(s) : s[i] = x
    BY <1>1 DEF ToSet
  <2>3. \A i, j \in 1..Len(s) : s[i] = s[j] => i = j
    BY <1>1 DEF IsInjective
  <2> QED BY <2>1, <2>2, <2>3 DEF Bijection, Injection, Surjection, IsInjective
<1>4. s \in Surjection(1..Len(s), ToSet(s))
  BY <1>3 DEF Bijection
<1>5. IsFiniteSet(ToSet(s))
  BY <1>2, <1>4, FS_Surjection
<1> QED BY <1>2, <1>3, <1>5, FS_Bijection DEF ExistsBijection

\* Whoever the rules did not place follows those they did.
Followed(w, order) ==
  /\ w \in Seq(Player) /\ IsInjective(w) /\ Len(order) <= Len(w)
  /\ ToSet(w) = ToSet(order) \cup ToSet(leftPlayers)
  /\ \A k \in 1..Len(order) : w[k] = order[k]
  /\ \A k \in (Len(order) + 1)..Len(w) : w[k] \in ToSet(leftPlayers) \ ToSet(order)

\* Behind the ranked seats come the leavers, the last to leave first.
LEMMA LeaversFollow ==
  ASSUME leftPlayers \in Seq(Player), IsInjective(leftPlayers),
         NEW order \in Seq(Player), IsInjective(order)
  PROVE  Followed(WithLeavers(order), order)
<1> DEFINE S == {i \in 1..Len(leftPlayers) : leftPlayers[i] \notin ToSet(order)}
           B == {e \in S \X S : e[1] > e[2]}
           later(i, j) == i > j
           last == InOrder(S, later)
           tail == [k \in 1..Cardinality(S) |-> leftPlayers[last[k]]]
<1>1. /\ Len(leftPlayers) \in Nat /\ IsFiniteSet(S) /\ S \subseteq Int
      /\ \A i \in S : leftPlayers[i] \in Player /\ i \in 1..Len(leftPlayers)
  <2>1. Len(leftPlayers) \in Nat /\ IsFiniteSet(1..Len(leftPlayers))
    BY IntervalCount
  <2>2. S \in SUBSET (1..Len(leftPlayers))
    OBVIOUS
  <2>3. \A i \in S : leftPlayers[i] \in Player /\ i \in 1..Len(leftPlayers)
    OBVIOUS
  <2> HIDE DEF S
  <2>4. IsFiniteSet(S)
    BY ONLY <2>1, <2>2, FS_Subset
  <2>5. S \subseteq Int
    BY <2>1, <2>3
  <2> QED BY <2>1, <2>3, <2>4, <2>5
<1>2. Orders(B, S)
  <2> HIDE DEF S
  <2> QED BY <1>1 DEF Orders
<1>3. \A x \in S : {y \in S : later(y, x)} = Preceding(B, S, x)
  <2> HIDE DEF S
  <2> QED BY <1>1 DEF Preceding
<1>4. PutInPlace(last, S, B)
  <2> DEFINE pick(i) == CHOOSE x \in S : Cardinality({y \in S : later(y, x)}) = i - 1
  <2>1. last = [i \in 1..Cardinality(S) |-> pick(i)]
    BY Zenon DEF InOrder
  <2> HIDE DEF last, later, S, B
  <2>2. ASSUME NEW i \in 1..Cardinality(S)
        PROVE  last[i] \in S /\ Cardinality(Preceding(B, S, last[i])) = i - 1
    <3>1. \E x \in S : Cardinality(Preceding(B, S, x)) = i - 1
      BY <1>1, <1>2, PlacesFilled
    <3>2. \E x \in S : Cardinality({y \in S : later(y, x)}) = i - 1
      BY <3>1, <1>3
    <3>3. last[i] = pick(i)
      <4> HIDE DEF pick
      <4> QED BY <2>1
    <3>4. last[i] \in S /\ Cardinality({y \in S : later(y, last[i])}) = i - 1
      BY <3>2, <3>3, Zenon
    <3> QED BY <3>4, <1>3
  <2>3. last = [i \in 1..Cardinality(S) |-> last[i]]
    <3> HIDE DEF pick
    <3> QED BY <2>1
  <2> QED BY <2>2, <2>3 DEF PutInPlace
<1>5. WithLeavers(order) = order \o tail
  BY Zenon DEF WithLeavers
<1> HIDE DEF last, later, B
<1>6. Lists(last, S, B)
  <2> HIDE DEF S
  <2> QED BY <1>1, <1>2, <1>4, OrderLists
<1>7. PICK m \in Nat : m = Cardinality(S)
  BY <1>1, FS_CardinalityType
<1>8. /\ \A k \in 1..m : last[k] \in S /\ leftPlayers[last[k]] \in Player
                         /\ leftPlayers[last[k]] \in ToSet(leftPlayers) \ ToSet(order)
      /\ \A i \in S : \E k \in 1..m : last[k] = i
      /\ \A k, l \in 1..m : last[k] = last[l] => k = l
  <2>1. /\ DOMAIN last = 1..m /\ ToSet(last) = S /\ IsInjective(last)
        /\ \A k \in 1..m : last[k] \in S
    <3> HIDE DEF S
    <3> QED BY <1>6, <1>7 DEF Lists
  <2>2. \A i \in S : \E k \in 1..m : last[k] = i
    <3> HIDE DEF S
    <3> QED BY <2>1 DEF ToSet
  <2>3. \A i \in S : leftPlayers[i] \in ToSet(leftPlayers) \ ToSet(order)
    BY DEF ToSet
  <2>4. \A k, l \in 1..m : last[k] = last[l] => k = l
    <3> HIDE DEF S
    <3> QED BY <2>1 DEF IsInjective
  <2> HIDE DEF S
  <2> QED BY <1>1, <2>1, <2>2, <2>3, <2>4
<1>9. /\ tail \in Seq(Player) /\ Len(tail) = m /\ \A k \in 1..m : tail[k] = leftPlayers[last[k]]
  <2> HIDE DEF S
  <2> QED BY <1>7, <1>8
<1> DEFINE n == Len(order)
           w == order \o tail
<1> HIDE DEF tail
<1>10. /\ w \in Seq(Player) /\ n \in Nat /\ Len(w) = n + m /\ DOMAIN w = 1..(n + m)
       /\ \A k \in 1..n : w[k] = order[k]
       /\ \A k \in (n + 1)..(n + m) : w[k] = tail[k - n] /\ k - n \in 1..m
  BY <1>9
<1> HIDE DEF w
<1>11. \A k \in (n + 1)..(n + m) : w[k] \in ToSet(leftPlayers) \ ToSet(order)
  <2> SUFFICES ASSUME NEW k \in (n + 1)..(n + m)
               PROVE  w[k] \in ToSet(leftPlayers) \ ToSet(order)
    OBVIOUS
  <2> HIDE DEF n, S
  <2>1. w[k] = tail[k - n] /\ k - n \in 1..m
    BY <1>10
  <2>2. tail[k - n] = leftPlayers[last[k - n]]
    BY <1>9, <2>1
  <2> QED BY <1>8, <2>1, <2>2
<1>12. DOMAIN order = 1..n /\ \A k \in 1..n : order[k] \in ToSet(order)
  BY DEF ToSet
<1>13. \A i, j \in 1..(n + m) : w[i] = w[j] => i = j
  <2> SUFFICES ASSUME NEW i \in 1..(n + m), NEW j \in 1..(n + m), w[i] = w[j] PROVE i = j
    OBVIOUS
  <2> HIDE DEF n, S
  <2>1. CASE i <= n /\ j <= n
    <3>1. i \in 1..n /\ j \in 1..n
      BY <1>10, <2>1
    <3> QED BY <1>10, <1>12, <3>1 DEF IsInjective
  <2>2. CASE i > n /\ j > n
    <3>1. /\ i - n \in 1..m /\ j - n \in 1..m
          /\ leftPlayers[last[i - n]] = leftPlayers[last[j - n]]
      BY <1>9, <1>10, <2>2
    <3>2. last[i - n] \in 1..Len(leftPlayers) /\ last[j - n] \in 1..Len(leftPlayers)
      BY <1>1, <1>8, <3>1
    <3>3. last[i - n] = last[j - n]
      BY <3>1, <3>2 DEF IsInjective
    <3>4. i - n = j - n
      BY <1>8, <3>1, <3>3
    <3> QED BY <1>10, <3>4
  <2>3. CASE i <= n /\ j > n
    <3>1. i \in 1..n /\ j \in (n + 1)..(n + m)
      BY <1>10, <2>3
    <3> QED BY <1>10, <1>11, <1>12, <3>1
  <2>4. CASE i > n /\ j <= n
    <3>1. j \in 1..n /\ i \in (n + 1)..(n + m)
      BY <1>10, <2>4
    <3> QED BY <1>10, <1>11, <1>12, <3>1
  <2> QED BY <1>10, <2>1, <2>2, <2>3, <2>4
<1>14. ToSet(w) = ToSet(order) \cup ToSet(leftPlayers)
  <2>1. ASSUME NEW x \in ToSet(order) PROVE x \in ToSet(w)
    <3>1. PICK k \in 1..n : x = order[k]
      BY <2>1, <1>12 DEF ToSet
    <3> QED BY <3>1, <1>10 DEF ToSet
  <2>2. ASSUME NEW x \in ToSet(leftPlayers), x \notin ToSet(order) PROVE x \in ToSet(w)
    <3>1. PICK i \in 1..Len(leftPlayers) : x = leftPlayers[i]
      BY <2>2 DEF ToSet
    <3>2. i \in S
      BY <2>2, <3>1
    <3> HIDE DEF S
    <3>3. PICK k \in 1..m : last[k] = i
      BY <1>8, <3>2
    <3>4. k + n \in (n + 1)..(n + m) /\ (k + n) - n = k /\ k + n \in 1..(n + m)
      BY <1>10, <3>3
    <3>5. w[k + n] = x
      BY <1>9, <1>10, <3>1, <3>3, <3>4
    <3> QED BY <1>10, <3>4, <3>5 DEF ToSet
  <2>3. ASSUME NEW x \in ToSet(w) PROVE x \in ToSet(order) \cup ToSet(leftPlayers)
    <3>1. PICK k \in 1..(n + m) : x = w[k]
      BY <2>3, <1>10 DEF ToSet
    <3>2. CASE k <= n
      <4>1. k \in 1..n
        BY <1>10, <3>2
      <4> QED BY <1>10, <1>12, <3>1, <4>1
    <3>3. CASE k > n
      <4>1. k \in (n + 1)..(n + m)
        BY <1>10, <3>3
      <4> QED BY <1>11, <3>1, <4>1
    <3> QED BY <1>10, <3>2, <3>3
  <2> QED BY <2>1, <2>2, <2>3
<1>15. IsInjective(w)
  BY <1>10, <1>13 DEF IsInjective
<1>16. WithLeavers(order) = w
  BY <1>5 DEF w
<1>17. n <= n + m
  BY <1>10
<1> HIDE DEF S
<1> QED BY <1>10, <1>11, <1>14, <1>15, <1>16, <1>17 DEF Followed

-----------------------------------------------------------------------------
(* Places *)

\* Whoever shares a place sits together in the standings.
Grouped(o, score) ==
  \A i, k, j \in 1..Len(o) : i < k /\ k < j /\ SamePlace(o[i], o[j], score) => SamePlace(o[i], o[k], score)

\* Two of a grouped row share a place exactly if they are equals (placesLocked).
LEMMA EqualsShare ==
  ASSUME NEW o \in Seq(Player), NEW score, Grouped(o, score),
         NEW i \in 1..Len(o), NEW j \in 1..Len(o), i < j
  PROVE  Places(o, score)[i] = Places(o, score)[j] <=> SamePlace(o[i], o[j], score)
<1> DEFINE n == Len(o)
           Fresh(k) == k = 1 \/ ~SamePlace(o[k], o[k - 1], score)
           Upto(k) == {l \in 1..k : Fresh(l)}
<1>1. n \in Nat /\ \A k \in 1..n : Places(o, score)[k] = Max(Upto(k))
  BY DEF Places
<1>2. /\ \A p, q : SamePlace(p, q, score) => SamePlace(q, p, score)
      /\ \A p, q, r : SamePlace(p, q, score) /\ SamePlace(q, r, score) => SamePlace(p, r, score)
      /\ \A p : SamePlace(p, p, score)
  BY DEF SamePlace
<1>3. ASSUME NEW k \in 1..n
      PROVE  /\ Max(Upto(k)) \in Upto(k)
             /\ \A l \in Upto(k) : l <= Max(Upto(k))
  <2>1. Upto(k) \subseteq Nat /\ k \in Nat /\ 1 \in Upto(k) /\ \A l \in Upto(k) : l <= k
    OBVIOUS
  <2> HIDE DEF Upto
  <2>2. PICK g \in Upto(k) : \A x \in Upto(k) : x <= g
    BY <2>1, BoundedHasGreatest
  <2>3. \E x \in Upto(k) : \A y \in Upto(k) : x >= y
    BY <2>1, <2>2
  <2>4. Max(Upto(k)) \in Upto(k) /\ \A y \in Upto(k) : Max(Upto(k)) >= y
    BY <2>3, Zenon DEF Max
  <2> QED BY <2>1, <2>4
<1>4. ASSUME SamePlace(o[i], o[j], score)
      PROVE  Max(Upto(i)) = Max(Upto(j))
  <2>1. \A k \in (i + 1)..j : SamePlace(o[i], o[k], score)
    BY <1>1, <1>4 DEF Grouped
  <2>2. \A k \in (i + 1)..j : ~Fresh(k)
    <3> SUFFICES ASSUME NEW k \in (i + 1)..j PROVE SamePlace(o[k], o[k - 1], score) /\ k # 1
      OBVIOUS
    <3>1. SamePlace(o[i], o[k], score) /\ k # 1
      BY <2>1
    <3>2. SamePlace(o[i], o[k - 1], score)
      <4>1. CASE k = i + 1
        <5>1. k - 1 = i
          BY <4>1
        <5> QED BY <5>1, <1>2
      <4>2. CASE k # i + 1
        <5>1. k - 1 \in (i + 1)..j
          BY <4>2
        <5> QED BY <5>1, <2>1
      <4> QED BY <4>1, <4>2
    <3> QED BY <3>1, <3>2, <1>2
  <2>3. Upto(i) = Upto(j)
    <3>1. \A l \in Upto(j) : l \in 1..i
      BY <2>2
    <3>2. \A l \in 1..i : l \in 1..j
      OBVIOUS
    <3> QED BY <3>1, <3>2
  <2> QED BY <2>3
<1>5. ASSUME Max(Upto(i)) = Max(Upto(j))
      PROVE  SamePlace(o[i], o[j], score)
  <2>1. \A l \in Upto(j) : l <= i
    <3>1. Max(Upto(j)) \in 1..i /\ \A l \in Upto(j) : l <= Max(Upto(j))
      <4>1. Max(Upto(i)) \in Upto(i)
        BY <1>3
      <4>2. \A l \in Upto(j) : l <= Max(Upto(j))
        BY <1>3
      <4>3. \A l \in Upto(i) : l \in 1..i
        OBVIOUS
      <4> HIDE DEF Upto
      <4> QED BY <1>5, <4>1, <4>2, <4>3
    <3>2. \A l \in Upto(j) : l \in Int
      OBVIOUS
    <3> HIDE DEF Upto
    <3> QED BY <3>1, <3>2
  <2>2. \A k \in (i + 1)..j : SamePlace(o[k], o[k - 1], score)
    <3> SUFFICES ASSUME NEW k \in (i + 1)..j, ~SamePlace(o[k], o[k - 1], score) PROVE FALSE
      OBVIOUS
    <3>1. k \in Upto(j) /\ ~(k <= i)
      OBVIOUS
    <3> QED BY <2>1, <3>1
  <2> DEFINE Reach == {k \in Nat : i + k <= j => SamePlace(o[i], o[i + k], score)}
  <2>3. 0 \in Reach
    <3>1. i + 0 = i
      OBVIOUS
    <3> QED BY <3>1, <1>2
  <2>4. ASSUME NEW k \in Nat, k \in Reach PROVE k + 1 \in Reach
    <3> SUFFICES ASSUME i + (k + 1) <= j PROVE SamePlace(o[i], o[i + (k + 1)], score)
      OBVIOUS
    <3>1. i + k <= j /\ i + (k + 1) \in (i + 1)..j /\ (i + (k + 1)) - 1 = i + k
      OBVIOUS
    <3>2. SamePlace(o[i], o[i + k], score)
      BY <2>4, <3>1
    <3>3. SamePlace(o[i + (k + 1)], o[i + k], score)
      BY <2>2, <3>1
    <3> QED BY <3>2, <3>3, <1>2
  <2>5. \A k \in Nat : k \in Reach
    <3> HIDE DEF Reach
    <3> QED BY <2>3, <2>4, CountsOn
  <2>6. j - i \in Nat /\ i + (j - i) = j
    OBVIOUS
  <2>7. j - i \in Reach
    BY <2>5, <2>6
  <2>8. i + (j - i) <= j => SamePlace(o[i], o[i + (j - i)], score)
    BY <2>7
  <2> QED BY <2>6, <2>8
<1> HIDE DEF Upto
<1> QED BY <1>1, <1>4, <1>5

-----------------------------------------------------------------------------
(* Seats *)

\* Everybody is seated or has left, once.
SeatsOk ==
  /\ players \in Seq(Player) /\ leftPlayers \in Seq(Player)
  /\ IsInjective(players) /\ IsInjective(leftPlayers)
  /\ ToSet(players) \cap ToSet(leftPlayers) = {}

\* A seat that is given up goes from one row to the other.
LEMMA SeatsAfterLeave ==
  ASSUME SeatsOk, NEW p \in Player, Seated(p),
         players' = SeatsWithout(p), leftPlayers' = Append(leftPlayers, p)
  PROVE  /\ SeatsOk' /\ ToSet(players') = ToSet(players) \ {p} /\ p \in ToSet(players)
         /\ ToSet(leftPlayers') = ToSet(leftPlayers) \cup {p}
         /\ Len(players') = Len(players) - 1
         /\ SeatOf(p) \in 0..(Len(players) - 1) /\ SeatAt(SeatOf(p)) = p
<1>1. SeatOf(p) + 1 \in 1..Len(players) /\ players[SeatOf(p) + 1] = p /\ players \in Seq(Player)
  BY DEF SeatsOk, Seated, SeatOf
<1>2. p \in ToSet(players)
  BY <1>1 DEF ToSet
<1>3. /\ players' \in Seq(Player) /\ Len(players') = Len(players) - 1
      /\ IsInjective(players') /\ ToSet(players') = ToSet(players) \ {p}
  BY <1>1, RemoveAtType, RemoveAtSet DEF SeatsWithout, SeatsOk
<1>4. /\ leftPlayers' \in Seq(Player) /\ IsInjective(leftPlayers')
      /\ ToSet(leftPlayers') = ToSet(leftPlayers) \cup {p}
  <2>1. p \notin ToSet(leftPlayers)
    BY <1>2 DEF SeatsOk
  <2> QED BY <2>1, AppendSet DEF SeatsOk
<1>5. SeatOf(p) \in 0..(Len(players) - 1)
  <2>1. SeatOf(p) \in Int
    BY DEF Seated, SeatOf, SeatsOk
  <2> QED BY <1>1, <2>1
<1> QED BY <1>1, <1>2, <1>3, <1>4, <1>5 DEF SeatsOk, SeatAt

\* The abstract match takes a move for its end or for nothing.
LEMMA MoveMatches ==
  ASSUME phase = "Playing", NEW won, NEW order, NEW over, AfterMove(won, order, over),
         won => order[1] \in ToSet(players)
  PROVE  [TheMatch!MatchNext]_(TheMatch!mvars)
<1>1. players' = players
  BY DEF AfterMove
<1>2. CASE won /\ Finish("Win", order[1])
  <2> DEFINE m == [TheMatch!Now EXCEPT !.phase = "Finished", !.reason = "Win", !.winner = order[1]]
  <2>1. ToSet(players) # {}
    BY <1>2
  <2>2. m \in TheMatch!Announced(TheMatch!Now, "Win")
    BY <1>2, <2>1 DEF TheMatch!Announced, TheMatch!Now
  <2>3. m \in TheMatch!Played(TheMatch!Now)
    BY <2>1, <2>2 DEF TheMatch!Played, TheMatch!Now
  <2>4. TheMatch!Becomes(m)
    BY <1>1, <1>2 DEF TheMatch!Becomes, TheMatch!Now, Finish
  <2> QED BY <2>3, <2>4 DEF TheMatch!MatchNext, TheMatch!Ends
<1>3. CASE UNCHANGED <<phase, reason, winner>>
  BY <1>1, <1>3 DEF TheMatch!mvars
<1> QED BY <1>2, <1>3 DEF AfterMove, PlayOn

\* It takes a departure for one that ends the match or for one that does not.
LEMMA LeaveMatches ==
  ASSUME SeatsOk, phase = "Playing", NEW p \in Player, Seated(p), NEW won, NEW order, NEW over,
         AfterLeave(p, won, order, over),
         won /\ players' # <<>> => order[1] \in ToSet(players')
  PROVE  [TheMatch!MatchNext]_(TheMatch!mvars)
<1>1. players' = SeatsWithout(p) /\ leftPlayers' = Append(leftPlayers, p)
  BY DEF AfterLeave
<1>2. /\ SeatsOk' /\ ToSet(players') = ToSet(players) \ {p} /\ p \in ToSet(players)
  BY <1>1, SeatsAfterLeave
<1>3. /\ players' \in Seq(Player)
      /\ players' = <<>> => ToSet(players') = {}
      /\ Len(players') = 1 => ToSet(players') = {players'[1]}
      /\ players' # <<>> => ToSet(players') # {}
  <2>1. players' \in Seq(Player)
    BY <1>2 DEF SeatsOk
  <2>2. players' # <<>> => 1 \in 1..Len(players')
    BY <2>1
  <2>3. ToSet(players') = {players'[i] : i \in 1..Len(players')}
    BY <2>1 DEF ToSet
  <2>4. players' = <<>> => 1..Len(players') = {}
    OBVIOUS
  <2>5. Len(players') = 1 => 1..Len(players') = {1}
    OBVIOUS
  <2> QED BY <2>1, <2>2, <2>3, <2>4, <2>5
<1> DEFINE n == [TheMatch!Now EXCEPT !.seats = @ \ {p}]
           ended(why, w) == [n EXCEPT !.phase = "Finished", !.reason = why, !.winner = w]
<1>4. ASSUME NEW m \in {n} \cup TheMatch!LeftOver(n), TheMatch!Becomes(m)
      PROVE  [TheMatch!MatchNext]_(TheMatch!mvars)
  <2>1. m \in TheMatch!Left(TheMatch!Now, p)
    BY <1>2, <1>4 DEF TheMatch!Left, TheMatch!Now
  <2> QED BY <1>4, <2>1 DEF TheMatch!MatchNext, TheMatch!Leaves
<1>5. /\ n.seats = ToSet(players') /\ n.phase = "Playing" /\ n.feed = TRUE
      /\ \A why, w : (w \in IF n.seats = {} THEN {None} ELSE n.seats) =>
                       ended(why, w) \in TheMatch!Announced(n, why)
      /\ \A why, w : Finish(why, w) => TheMatch!Becomes(ended(why, w))
  BY <1>2 DEF TheMatch!Now, TheMatch!Announced, TheMatch!Becomes, Finish
<1> HIDE DEF n, ended
<1>6. CASE players' = <<>> /\ Finish("Abandoned", None)
  <2>1. ended("Abandoned", None) \in TheMatch!LeftOver(n)
    BY <1>3, <1>5, <1>6 DEF TheMatch!LeftOver
  <2> QED BY <1>4, <1>5, <1>6, <2>1
<1>7. CASE players' # <<>> /\ won /\ Finish("Win", order[1])
  <2>1. ended("Win", order[1]) \in TheMatch!LeftOver(n)
    BY <1>3, <1>5, <1>7 DEF TheMatch!LeftOver
  <2> QED BY <1>4, <1>5, <1>7, <2>1
<1>8. CASE players' # <<>> /\ Len(players') = 1 /\ Finish("Forfeit", players'[1])
  <2>1. players'[1] \in ToSet(players') /\ players'[1] \in Player
    BY <1>3, <1>8
  <2>2. \E q \in n.seats : n.seats = {q}
    BY <1>3, <1>5, <1>8, <2>1
  <2>3. ended("Forfeit", players'[1]) \in TheMatch!LeftOver(n)
    BY <1>3, <1>5, <1>8, <2>1, <2>2 DEF TheMatch!LeftOver
  <2> QED BY <1>4, <1>5, <1>8, <2>3
<1>9. CASE UNCHANGED <<phase, reason, winner>>
  <2>1. TheMatch!Becomes(n)
    BY <1>2, <1>9 DEF TheMatch!Becomes, TheMatch!Now, n
  <2> QED BY <1>4, <2>1
<1> QED BY <1>1, <1>6, <1>7, <1>8, <1>9 DEF AfterLeave, Forfeited, PlayOn

\* A match is placed right if its rules list the seats by a number that is lower for the
\* better and the same for equals, and if those who left scored the same.
LEMMA PlacesByScore ==
  ASSUME SeatsOk, phase = "Finished", NEW key \in [Player -> Int], NEW ranks,
         ByScoreIs(ranks, players, key), Standings = WithLeavers(ranks),
         \A p, q \in Player : Score(p) = Score(q) <=> key[p] = key[q],
         \A p, q \in ToSet(leftPlayers) : key[p] = key[q]
  PROVE  PlacesRight
<1> DEFINE score == [p \in Player |-> Score(p)]
           order == Standings
           n == Len(players)
<1>1. /\ n \in Nat /\ Followed(order, ranks)
      /\ ranks \in Seq(Player) /\ Len(ranks) = n /\ ToSet(ranks) = ToSet(players)
  BY LeaversFollow DEF ByScoreIs, SeatsOk
<1>2. \A p, q \in Player : SamePlace(p, q, score)
                             <=> /\ (p \in ToSet(leftPlayers)) = (q \in ToSet(leftPlayers))
                                 /\ key[p] = key[q]
  BY DEF SamePlace
<1> HIDE DEF order, score
<1>3. /\ order \in Seq(Player) /\ IsInjective(order) /\ n <= Len(order) /\ DOMAIN order = 1..Len(order)
      /\ ToSet(order) = EverDealtIn
      /\ \A k \in 1..n : order[k] = ranks[k] /\ order[k] \in ToSet(players)
      /\ \A k \in (n + 1)..Len(order) : order[k] \in ToSet(leftPlayers)
  <2>1. \A k \in 1..n : ranks[k] \in ToSet(players)
    <3>1. DOMAIN ranks = 1..n
      BY <1>1
    <3> QED BY <1>1, <3>1, Zenon DEF ToSet
  <2> QED BY <1>1, <2>1 DEF Followed, EverDealtIn
<1>4. Len(order) = Cardinality(EverDealtIn)
  BY <1>3, LengthIsCount
<1>5. \A k \in 1..Len(order) : (order[k] \in ToSet(leftPlayers) <=> k > n) /\ order[k] \in Player
  <2> SUFFICES ASSUME NEW k \in 1..Len(order)
               PROVE  (order[k] \in ToSet(leftPlayers) <=> k > n) /\ order[k] \in Player
    OBVIOUS
  <2>1. CASE k <= n
    <3>1. k \in 1..n
      BY <1>1, <2>1
    <3>2. order[k] \in ToSet(players)
      BY <1>3, <3>1
    <3> QED BY <1>1, <1>3, <2>1, <3>2 DEF SeatsOk
  <2>2. CASE k > n
    <3>1. k \in (n + 1)..Len(order)
      BY <1>1, <2>2
    <3> QED BY <1>3, <2>2, <3>1
  <2> QED BY <1>1, <2>1, <2>2
<1>6. \A i, j \in 1..n : i < j => key[order[i]] <= key[order[j]]
  <2>1. \A i, j \in 1..n : i < j => key[ranks[i]] <= key[ranks[j]]
    BY <1>1 DEF ByScoreIs
  <2> QED BY <2>1, <1>3
<1>7. Grouped(order, score)
  <2> SUFFICES ASSUME NEW i \in 1..Len(order), NEW k \in 1..Len(order), NEW j \in 1..Len(order),
                      i < k, k < j, SamePlace(order[i], order[j], score)
               PROVE  SamePlace(order[i], order[k], score)
    BY DEF Grouped
  <2>1. key[order[i]] = key[order[j]] /\ (i > n <=> j > n)
    BY <1>2, <1>5
  <2>2. CASE i > n
    <3>1. k > n
      BY <1>1, <2>2
    <3> QED BY <1>2, <1>5, <2>2, <3>1
  <2>3. CASE ~(i > n)
    <3>1. i \in 1..n /\ j \in 1..n /\ k \in 1..n
      BY <1>1, <2>1, <2>3
    <3>2. key[order[i]] <= key[order[k]] /\ key[order[k]] <= key[order[j]]
      BY <1>6, <3>1
    <3>3. key[order[i]] \in Int /\ key[order[k]] \in Int /\ key[order[j]] \in Int
      BY <1>5
    <3>4. key[order[i]] = key[order[k]] /\ ~(k > n)
      BY <1>1, <2>1, <3>1, <3>2, <3>3
    <3> QED BY <1>2, <1>5, <2>3, <3>4
  <2> QED BY <2>2, <2>3
<1>8. ASSUME NEW i \in 1..Len(order), NEW j \in 1..Len(order), i < j
      PROVE  /\ order[i] \in ToSet(leftPlayers) => order[j] \in ToSet(leftPlayers)
             /\ (Places(order, score)[i] = Places(order, score)[j])
                  <=> /\ (order[i] \in ToSet(leftPlayers)) = (order[j] \in ToSet(leftPlayers))
                      /\ Score(order[i]) = Score(order[j])
  <2>1. order[i] \in ToSet(leftPlayers) => order[j] \in ToSet(leftPlayers)
    BY <1>1, <1>5, <1>8
  <2>2. Places(order, score)[i] = Places(order, score)[j] <=> SamePlace(order[i], order[j], score)
    BY <1>3, <1>7, <1>8, EqualsShare
  <2> QED BY <1>2, <1>5, <2>1, <2>2
<1> QED BY <1>3, <1>4, <1>8, Zenon DEF PlacesRight, order, score

-----------------------------------------------------------------------------
(* The shedding games *)

\* A table that is opened with a shedding game.
ShedSpec ==
  /\ NewTable
  /\ \E seats \in Seq(Player) : IsInjective(seats) /\ (UnoInit(seats) \/ EightsInit(seats))
  /\ [][GamesNext]_tvars

-----------------------------------------------------------------------------
(* Cards change place *)

\* Every card of a deck is in one place: in a hand, in the stock or in the pile.
SharedOut(cards, h, stock, pile) ==
  /\ h \in [Player -> SUBSET cards] /\ stock \subseteq cards /\ pile \subseteq cards
  /\ \A p, q \in Player : p # q => h[p] \cap h[q] = {}
  /\ \A p \in Player : h[p] \cap (stock \cup pile) = {}
  /\ stock \cap pile = {}
  /\ \A c \in cards \ (stock \cup pile) : \E p \in Player : c \in h[p]

\* Drawing shares out the stock and the pile anew, and the card on top stays there
\* (Draw, ReshuffleDiscardIntoStock).
LEMMA DrawShares ==
  ASSUME NEW n, NEW stock, NEW pile, NEW face \in pile, stock \cap pile = {},
         NEW d \in Draws(n, stock, pile, face)
  PROVE  /\ d.drawn \cup d.deck \cup d.discard = stock \cup pile
         /\ d.drawn \cap d.deck = {} /\ d.drawn \cap d.discard = {}
         /\ d.deck \cap d.discard = {} /\ face \in d.discard
<1> DEFINE under == pile \ {face}
           short == n - Cardinality(stock)
           more  == IF short < Cardinality(under) THEN short ELSE Cardinality(under)
<1>1. CASE short <= 0
  <2>1. PICK s \in kSubset(n, stock) : d = [drawn |-> s, deck |-> stock \ s, discard |-> pile]
    BY <1>1 DEF Draws
  <2>2. s \subseteq stock
    BY DEF kSubset
  <2> QED BY <2>1, <2>2
<1>2. CASE ~(short <= 0)
  <2>1. PICK s \in kSubset(more, under) :
          d = [drawn |-> stock \cup s, deck |-> under \ s, discard |-> {face}]
    BY <1>2 DEF Draws
  <2>2. s \subseteq under
    BY DEF kSubset
  <2> QED BY <2>1, <2>2
<1> QED BY <1>1, <1>2

\* A draw that comes to nothing leaves an empty stock and a pile of one card.
LEMMA DrawOfNothing ==
  ASSUME NEW n \in Nat \ {0}, NEW stock, NEW pile, IsFiniteSet(stock), IsFiniteSet(pile),
         NEW face, NEW d \in Draws(n, stock, pile, face), d.drawn = {}
  PROVE  d.deck = {} /\ d.discard = {face}
<1> DEFINE under == pile \ {face}
           short == n - Cardinality(stock)
           more  == IF short < Cardinality(under) THEN short ELSE Cardinality(under)
<1>1. Cardinality(stock) \in Nat /\ IsFiniteSet(under) /\ Cardinality(under) \in Nat
  <2>1. IsFiniteSet(under)
    BY FS_Subset
  <2> QED BY <2>1, FS_CardinalityType
<1>2. CASE short <= 0
  <2>1. PICK s \in kSubset(n, stock) : d = [drawn |-> s, deck |-> stock \ s, discard |-> pile]
    BY <1>2 DEF Draws
  <2>2. s = {} /\ Cardinality(s) = n
    BY <2>1 DEF kSubset
  <2> QED BY <2>2, FS_EmptySet
<1>3. CASE ~(short <= 0)
  <2>1. PICK s \in kSubset(more, under) :
          d = [drawn |-> stock \cup s, deck |-> under \ s, discard |-> {face}]
    BY <1>3 DEF Draws
  <2>2. s = {} /\ Cardinality(s) = more
    BY <2>1 DEF kSubset
  <2>3. Cardinality(under) = 0
    BY <1>1, <1>3, <2>2, FS_EmptySet
  <2>4. under = {}
    BY <1>1, <2>3, FS_EmptySet
  <2> QED BY <2>1, <2>2, <2>4
<1> QED BY <1>2, <1>3

\* Whoever draws gets what was drawn.
LEMMA SharedByDraw ==
  ASSUME NEW cards, NEW h, NEW stock, NEW pile, SharedOut(cards, h, stock, pile),
         NEW n, NEW face \in pile, NEW d \in Draws(n, stock, pile, face), NEW v \in Player
  PROVE  /\ SharedOut(cards, [h EXCEPT ![v] = @ \cup d.drawn], d.deck, d.discard)
         /\ face \in d.discard
<1>1. /\ d.drawn \cup d.deck \cup d.discard = stock \cup pile
      /\ d.drawn \cap d.deck = {} /\ d.drawn \cap d.discard = {}
      /\ d.deck \cap d.discard = {} /\ face \in d.discard
  BY DrawShares DEF SharedOut
<1> DEFINE g == [h EXCEPT ![v] = @ \cup d.drawn]
<1>2. /\ g \in [Player -> SUBSET cards] /\ g[v] = h[v] \cup d.drawn
      /\ \A p \in Player \ {v} : g[p] = h[p]
  BY <1>1 DEF SharedOut
<1> HIDE DEF g
<1>3. \A p, q \in Player : p # q => g[p] \cap g[q] = {}
  BY <1>1, <1>2 DEF SharedOut
<1>4. \A p \in Player : g[p] \cap (d.deck \cup d.discard) = {}
  BY <1>1, <1>2 DEF SharedOut
<1>5. \A c \in cards \ (d.deck \cup d.discard) : \E p \in Player : c \in g[p]
  <2> SUFFICES ASSUME NEW c \in cards \ (d.deck \cup d.discard)
               PROVE  \E p \in Player : c \in g[p]
    OBVIOUS
  <2>1. CASE c \in d.drawn
    BY <2>1, <1>2
  <2>2. CASE c \notin d.drawn
    <3>1. c \in cards \ (stock \cup pile)
      BY <2>2, <1>1
    <3>2. PICK p \in Player : c \in h[p]
      BY <3>1 DEF SharedOut
    <3> QED BY <3>2, <1>2
  <2> QED BY <2>1, <2>2
<1> QED BY <1>1, <1>2, <1>3, <1>4, <1>5 DEF SharedOut, g

\* A card that is played goes from the hand to the pile.
LEMMA SharedByPlay ==
  ASSUME NEW cards, NEW h, NEW stock, NEW pile, SharedOut(cards, h, stock, pile),
         NEW v \in Player, NEW c \in h[v]
  PROVE  SharedOut(cards, [h EXCEPT ![v] = @ \ {c}], stock, pile \cup {c})
<1> DEFINE g == [h EXCEPT ![v] = @ \ {c}]
<1>1. /\ g \in [Player -> SUBSET cards] /\ g[v] = h[v] \ {c} /\ c \in cards
      /\ \A p \in Player \ {v} : g[p] = h[p]
  BY DEF SharedOut
<1> HIDE DEF g
<1>2. \A p, q \in Player : p # q => g[p] \cap g[q] = {}
  BY <1>1 DEF SharedOut
<1>3. \A p \in Player : g[p] \cap (stock \cup (pile \cup {c})) = {}
  BY <1>1 DEF SharedOut
<1>4. stock \cap (pile \cup {c}) = {} /\ pile \cup {c} \subseteq cards
  BY <1>1 DEF SharedOut
<1>5. \A x \in cards \ (stock \cup (pile \cup {c})) : \E p \in Player : x \in g[p]
  <2> SUFFICES ASSUME NEW x \in cards \ (stock \cup pile), x # c
               PROVE  \E p \in Player : x \in g[p]
    OBVIOUS
  <2>1. PICK p \in Player : x \in h[p]
    BY DEF SharedOut
  <2> QED BY <2>1, <1>1
<1> QED BY <1>1, <1>2, <1>3, <1>4, <1>5 DEF SharedOut, g

\* A leaver's hand goes back to the stock (ReturnHandToStock).
LEMMA SharedByLeave ==
  ASSUME NEW cards, NEW h, NEW stock, NEW pile, SharedOut(cards, h, stock, pile),
         NEW v \in Player
  PROVE  SharedOut(cards, [h EXCEPT ![v] = {}], stock \cup h[v], pile)
<1> DEFINE g == [h EXCEPT ![v] = {}]
<1>1. /\ g \in [Player -> SUBSET cards] /\ g[v] = {} /\ h[v] \subseteq cards
      /\ \A p \in Player \ {v} : g[p] = h[p]
  BY DEF SharedOut
<1> HIDE DEF g
<1>2. \A p, q \in Player : p # q => g[p] \cap g[q] = {}
  BY <1>1 DEF SharedOut
<1>3. \A p \in Player : g[p] \cap ((stock \cup h[v]) \cup pile) = {}
  BY <1>1 DEF SharedOut
<1>4. (stock \cup h[v]) \cap pile = {} /\ stock \cup h[v] \subseteq cards
  BY <1>1 DEF SharedOut
<1>5. \A x \in cards \ ((stock \cup h[v]) \cup pile) : \E p \in Player : x \in g[p]
  <2> SUFFICES ASSUME NEW x \in cards \ (stock \cup pile), x \notin h[v]
               PROVE  \E p \in Player : x \in g[p]
    OBVIOUS
  <2>1. PICK p \in Player : x \in h[p]
    BY DEF SharedOut
  <2> QED BY <2>1, <1>1
<1> QED BY <1>1, <1>2, <1>3, <1>4, <1>5 DEF SharedOut, g

\* The deal, with the card the pile opens on.
LEMMA SharedByDeal ==
  ASSUME NEW cards, NEW seats \in Seq(Player), NEW n, NEW f \in Deals(seats, n, cards),
         NEW c \in cards \ Held(f)
  PROVE  SharedOut(cards, Dealt(f), (cards \ Held(f)) \ {c}, {c})
<1>1. /\ f \in [ToSet(seats) -> kSubset(n, cards)]
      /\ \A p, q \in ToSet(seats) : p # q => f[p] \cap f[q] = {}
  BY DEF Deals
<1>2. ToSet(seats) \subseteq Player
  BY DEF ToSet
<1>3. /\ Dealt(f) \in [Player -> SUBSET cards]
      /\ \A p \in ToSet(seats) : Dealt(f)[p] = f[p] /\ f[p] \subseteq cards
      /\ \A p \in Player \ ToSet(seats) : Dealt(f)[p] = {}
  BY <1>1, <1>2 DEF Dealt, kSubset
<1>4. \A x : x \in Held(f) <=> \E p \in ToSet(seats) : x \in f[p]
  BY <1>1 DEF Held, Range
<1>5. \A p, q \in Player : p # q => Dealt(f)[p] \cap Dealt(f)[q] = {}
  BY <1>1, <1>3
<1>6. \A p \in Player : Dealt(f)[p] \subseteq Held(f)
  BY <1>3, <1>4
<1>7. \A x \in Held(f) : \E p \in Player : x \in Dealt(f)[p]
  BY <1>2, <1>3, <1>4
<1> HIDE DEF Dealt, Held
<1>8. \A p \in Player : Dealt(f)[p] \cap (((cards \ Held(f)) \ {c}) \cup {c}) = {}
  BY <1>6
<1>9. \A x \in cards \ (((cards \ Held(f)) \ {c}) \cup {c}) : \E p \in Player : x \in Dealt(f)[p]
  BY <1>7
<1> QED BY <1>3, <1>5, <1>8, <1>9 DEF SharedOut

-----------------------------------------------------------------------------
(* The invariant *)

ShedTypeOK ==
  /\ SheddingGame
  /\ players \in Seq(Player) /\ currentTurn \in Int
  /\ phase = "Playing" => Len(players) > 0
  /\ extra = IF game = "uno"
             THEN [suit |-> extra.suit, direction |-> extra.direction, passes |-> extra.passes]
             ELSE [suit |-> extra.suit, passes |-> extra.passes]
  /\ extra.passes \in Nat
  /\ game = "uno" => extra.direction \in {-1, 1}

Shared == SharedOut(ShedDeck, hands, deck, discard) /\ top \in discard

Stuck == deck = {} /\ discard = {top}

ShedInv ==
  /\ ShedTypeOK
  /\ phase # "Waiting" => Shared
  /\ extra.passes > 0 => Stuck

\* Between two players at the table the engine's cursor and any override name a seat.
LEMMA SeatsType ==
  ASSUME ShedTypeOK, NEW i \in Int, Len(players) > 0
  PROVE  SeatAt(i % Len(players)) \in Player /\ i % Len(players) \in Int
<1>1. Len(players) \in Nat \ {0}
  BY DEF ShedTypeOK
<1>2. i % Len(players) \in 0..(Len(players) - 1)
  BY <1>1, ModInRange
<1> QED BY <1>1, <1>2 DEF SeatAt, ShedTypeOK

\* A clamped cursor is a whole number.
LEMMA ClampInt ==
  ASSUME NEW c \in Int, NEW n \in Nat
  PROVE  Clamp(c, n) \in Int
<1>1. CASE n = 0
  BY <1>1 DEF Clamp
<1>2. CASE n # 0
  <2>1. c % n \in 0..(n - 1)
    BY <1>2, ModInRange
  <2> QED BY <1>2, <2>1 DEF Clamp
<1> QED BY <1>1, <1>2

\* The deck of a shedding game is finite.
LEMMA FiniteDeck == IsFiniteSet(ShedDeck)
BY UnoDeckAssumption, EightsDeckAssumption DEF ShedDeck

-----------------------------------------------------------------------------
(* The steps both games share *)

\* What a draw or a forced draw makes of the count of passes.
LEMMA PassesOfDraw ==
  ASSUME NEW n \in Nat \ {0}, NEW stock, NEW pile, stock \subseteq ShedDeck,
         pile \subseteq ShedDeck, NEW face, NEW d \in Draws(n, stock, pile, face)
  PROVE  d.drawn = {} => d.deck = {} /\ d.discard = {face}
<1>1. IsFiniteSet(stock) /\ IsFiniteSet(pile)
  BY FiniteDeck, FS_Subset
<1> QED BY <1>1, DrawOfNothing

\* A departure from a shedding game keeps its cards (removePlayerLocked, OnPlayerLeave).
LEMMA LeaveKeepsInv ==
  ASSUME ShedInv, NEW p \in Player, phase = "Playing", Seated(p), LeaveShedGame(p),
         game' = game, players' = SeatsWithout(p), currentTurn' \in Int,
         phase' = "Playing" => SeatsWithout(p) # <<>>
  PROVE  ShedInv'
<1>1. /\ Shared /\ ShedDeck' = ShedDeck /\ discard' = discard /\ top' = top
      /\ hands' = [hands EXCEPT ![p] = {}] /\ deck' = deck \cup hands[p]
      /\ extra' = [extra EXCEPT !.passes = 0]
  BY DEF ShedInv, LeaveShedGame, StockWith, PassesOfLeaver, ShedDeck
<1>2. Shared'
  <2>1. SharedOut(ShedDeck, hands', deck', discard')
    BY <1>1, SharedByLeave DEF Shared
  <2> QED BY <2>1, <1>1 DEF Shared
<1>3. extra'.passes = 0
  BY <1>1 DEF ShedInv, ShedTypeOK
<1>4. /\ game' = "uno" => extra'.direction \in {-1, 1}
      /\ extra' = IF game' = "uno"
                  THEN [suit |-> extra'.suit, direction |-> extra'.direction,
                        passes |-> extra'.passes]
                  ELSE [suit |-> extra'.suit, passes |-> extra'.passes]
  <2>1. CASE game = "uno"
    <3>1. extra = [suit |-> extra.suit, direction |-> extra.direction, passes |-> extra.passes]
      BY <2>1 DEF ShedInv, ShedTypeOK
    <3>2. extra' = [suit |-> extra.suit, direction |-> extra.direction, passes |-> 0]
      BY <3>1, <1>1
    <3> QED BY <2>1, <3>2 DEF ShedInv, ShedTypeOK
  <2>2. CASE game # "uno"
    <3>1. extra = [suit |-> extra.suit, passes |-> extra.passes]
      BY <2>2 DEF ShedInv, ShedTypeOK
    <3>2. extra' = [suit |-> extra.suit, passes |-> 0]
      BY <3>1, <1>1
    <3> QED BY <2>2, <3>2 DEF ShedInv, ShedTypeOK
  <2> QED BY <2>1, <2>2
<1>5. players' \in Seq(Player)
  <2>1. players \in Seq(Player) /\ SeatOf(p) + 1 \in 1..Len(players)
    BY DEF ShedInv, ShedTypeOK, Seated, SeatOf
  <2> QED BY <2>1, RemoveAtType DEF SeatsWithout
<1>6. phase' = "Playing" => Len(players') > 0
  BY <1>5
<1> QED BY <1>2, <1>3, <1>4, <1>5, <1>6 DEF ShedInv, ShedTypeOK, SheddingGame

\* The engine's part of a leave (AfterLeave), whatever seat the rules chose.
LEMMA LeaveTurn ==
  ASSUME ShedTypeOK, NEW p \in Player, Seated(p), NEW won, NEW order,
         NEW over \in Int \cup {None}, AfterLeave(p, won, order, over)
  PROVE  /\ game' = game /\ players' = SeatsWithout(p) /\ currentTurn' \in Int
         /\ phase' = "Playing" => SeatsWithout(p) # <<>>
<1> DEFINE seats == SeatsWithout(p)
<1>1. /\ SeatOf(p) + 1 \in 1..Len(players) /\ players \in Seq(Player)
      /\ SeatOf(p) \in Int /\ Len(players) \in Nat
  BY DEF ShedTypeOK, Seated, SeatOf
<1>2. Len(seats) \in Nat /\ Len(players) - 1 \in Nat /\ SeatOf(p) \in Int
  BY <1>1, RemoveAtType DEF SeatsWithout
<1>3. CursorWithout(p) \in Int
  <2>1. ShiftCursor(currentTurn, SeatOf(p)) \in Int
    BY <1>2 DEF ShiftCursor, ShedTypeOK
  <2> QED BY <2>1, <1>2, ClampInt DEF CursorWithout
<1>4. Clamp(IF over = None THEN CursorWithout(p) ELSE over, Len(seats)) \in Int
  <2>1. (IF over = None THEN CursorWithout(p) ELSE over) \in Int
    BY <1>3
  <2> QED BY <1>2, <2>1, ClampInt
<1>5. /\ players' = seats /\ game' = game
  BY DEF AfterLeave
<1>6. CASE seats = <<>> /\ Finish("Abandoned", None) /\ currentTurn' = 0
  BY <1>5, <1>6 DEF Finish
<1>7. CASE seats # <<>> /\ won /\ Finish("Win", order[1]) /\ currentTurn' = CursorWithout(p)
  BY <1>3, <1>5, <1>7
<1>8. CASE /\ seats # <<>> /\ ~won /\ Forfeited(seats, over) /\ Finish("Forfeit", seats[1])
           /\ currentTurn' = CursorWithout(p)
  BY <1>3, <1>5, <1>8
<1>9. CASE seats # <<>> /\ ~won /\ ~Forfeited(seats, over) /\ PlayOn(CursorWithout(p), over, Len(seats))
  BY <1>4, <1>5, <1>9 DEF PlayOn
<1> QED BY <1>6, <1>7, <1>8, <1>9 DEF AfterLeave

\* The engine's part of a move (AfterMove).
LEMMA MoveTurn ==
  ASSUME ShedTypeOK, NEW won, NEW order, NEW over \in Int \cup {None},
         AfterMove(won, order, over)
  PROVE  game' = game /\ players' = players /\ currentTurn' \in Int
<1>1. Len(players) \in Nat /\ currentTurn \in Int
  BY DEF ShedTypeOK
<1>2. Clamp(IF over = None THEN currentTurn + 1 ELSE over, Len(players)) \in Int
  <2>1. (IF over = None THEN currentTurn + 1 ELSE over) \in Int
    BY <1>1
  <2> QED BY <1>1, <2>1, ClampInt
<1> QED BY <1>1, <1>2 DEF AfterMove, PlayOn

\* A move that shares out the cards again, counts the passes rightly and stays in the game.
LEMMA ShedMoveKeepsInv ==
  ASSUME ShedInv, phase = "Playing",
         game' = game, players' = players, currentTurn' \in Int,
         Shared', extra'.passes \in Nat, extra'.passes > 0 => Stuck',
         game = "uno" => /\ extra'.direction \in {-1, 1}
                         /\ extra' = [suit |-> extra'.suit, direction |-> extra'.direction,
                                      passes |-> extra'.passes],
         game # "uno" => extra' = [suit |-> extra'.suit, passes |-> extra'.passes]
  PROVE  ShedInv'
BY DEF ShedInv, ShedTypeOK, SheddingGame

\* A voluntary draw, which is a pass when there is nothing to draw.
LEMMA DrawKeepsInv ==
  ASSUME ShedInv, phase = "Playing", NEW p \in Player,
         NEW d \in Draws(1, deck, discard, top),
         game' = game, players' = players, currentTurn' \in Int,
         hands' = [hands EXCEPT ![p] = @ \cup d.drawn], deck' = d.deck, discard' = d.discard,
         extra' = [extra EXCEPT !.passes = PassesAfter(d.drawn)], top' = top
  PROVE  ShedInv'
<1>1. Shared /\ ShedDeck' = ShedDeck /\ ShedTypeOK
  BY DEF ShedInv, ShedDeck
<1>2. Shared'
  <2>1. SharedOut(ShedDeck, hands', deck', discard') /\ top \in discard'
    BY <1>1, SharedByDraw DEF Shared
  <2> QED BY <2>1, <1>1 DEF Shared
<1>3. d.drawn = {} => Stuck'
  <2>1. deck \subseteq ShedDeck /\ discard \subseteq ShedDeck
    BY <1>1 DEF Shared, SharedOut
  <2>2. d.drawn = {} => d.deck = {} /\ d.discard = {top}
    BY SMTT(30), <2>1, PassesOfDraw
  <2> QED BY <2>2 DEF Stuck
<1> DEFINE n == PassesAfter(d.drawn)
<1>4. n \in Nat /\ (n > 0 => d.drawn = {})
  BY <1>1 DEF PassesAfter, ShedTypeOK
<1> HIDE DEF n
<1>5. CASE game = "uno"
  <2>1. extra = [suit |-> extra.suit, direction |-> extra.direction, passes |-> extra.passes]
    BY <1>1, <1>5 DEF ShedTypeOK
  <2>2. extra' = [suit |-> extra.suit, direction |-> extra.direction, passes |-> n]
    BY <2>1 DEF n
  <2> QED BY <1>1, <1>2, <1>3, <1>4, <1>5, <2>2, ShedMoveKeepsInv DEF ShedTypeOK
<1>6. CASE game # "uno"
  <2>1. extra = [suit |-> extra.suit, passes |-> extra.passes]
    BY <1>1, <1>6 DEF ShedTypeOK
  <2>2. extra' = [suit |-> extra.suit, passes |-> n]
    BY <2>1 DEF n
  <2>3. extra'.passes = n /\ extra' = [suit |-> extra'.suit, passes |-> extra'.passes]
    BY ONLY <2>2
  <2> QED BY <1>2, <1>3, <1>4, <1>6, <2>3, ShedMoveKeepsInv
<1> QED BY <1>5, <1>6

-----------------------------------------------------------------------------
(* Crazy Eights *)

\* Crazy Eights is dealt (OnGameStart).
LEMMA EightsStartStep ==
  ASSUME ShedInv, game = "crazy_eights", NEW i \in 0..(Len(players) - 1), EightsStart(i)
  PROVE  ShedInv'
<1>1. PICK f \in Deals(players, ShedDeal, EightsDeck) :
        \E c \in Openers(EightsDeck \ Held(f), {Eight}) :
          /\ hands' = Dealt(f) /\ deck' = (EightsDeck \ Held(f)) \ {c}
          /\ discard' = {c} /\ top' = c
          /\ extra' = [suit |-> c.suit, passes |-> 0]
          /\ Opened(i)
  BY DEF EightsStart
<1>2. PICK c \in Openers(EightsDeck \ Held(f), {Eight}) :
          /\ hands' = Dealt(f) /\ deck' = (EightsDeck \ Held(f)) \ {c}
          /\ discard' = {c} /\ top' = c
          /\ extra' = [suit |-> c.suit, passes |-> 0]
          /\ Opened(i)
  BY <1>1
<1>3. c \in EightsDeck \ Held(f)
  BY DEF Openers
<1>4. players \in Seq(Player) /\ Len(players) > 0 /\ currentTurn' \in Int
      /\ players' = players /\ game' = game
  <2>1. players \in Seq(Player) /\ Len(players) > 0 /\ Len(players) \in Nat /\ i \in Int
    BY DEF ShedInv, ShedTypeOK
  <2> QED BY <2>1, <1>2, ClampInt DEF Opened
<1>5. Shared'
  <2>1. SharedOut(EightsDeck, Dealt(f), (EightsDeck \ Held(f)) \ {c}, {c})
    BY <1>3, <1>4, SharedByDeal
  <2>2. ShedDeck' = EightsDeck
    BY <1>4 DEF ShedDeck
  <2> QED BY <2>1, <2>2, <1>2 DEF Shared
<1>6. extra'.passes = 0 /\ extra' = [suit |-> extra'.suit, passes |-> extra'.passes]
  BY <1>2
<1> QED BY <1>4, <1>5, <1>6 DEF ShedInv, ShedTypeOK, SheddingGame

\* A card is played at Crazy Eights (ApplyAction).
LEMMA EightsPlayStep ==
  ASSUME ShedInv, game = "crazy_eights", NEW p \in Player, NEW c \in EightsDeck, NEW s \in Suit,
         EightsPlay(p, c, s)
  PROVE  ShedInv'
<1>1. /\ phase = "Playing" /\ c \in hands[p] /\ Shared /\ ShedTypeOK
      /\ hands' = [hands EXCEPT ![p] = @ \ {c}] /\ deck' = deck
      /\ discard' = discard \cup {c} /\ top' = c
      /\ extra' = [suit |-> s, passes |-> 0]
      /\ AfterMove(HandEmptyOrAllPassed', ShedStandings', None)
  BY DEF EightsPlay, MayAct, ShedInv
<1>2. game' = game /\ players' = players /\ currentTurn' \in Int
  BY <1>1, MoveTurn
<1>3. Shared'
  <2>1. SharedOut(ShedDeck, hands', deck', discard') /\ ShedDeck' = ShedDeck
    BY <1>1, <1>2, SharedByPlay DEF Shared, ShedDeck
  <2> QED BY <2>1, <1>1 DEF Shared
<1>4. extra'.passes = 0 /\ extra' = [suit |-> extra'.suit, passes |-> extra'.passes]
  BY <1>1
<1> QED BY <1>1, <1>2, <1>3, <1>4, ShedMoveKeepsInv

\* Every step of Crazy Eights keeps the invariant.
LEMMA EightsStep ==
  ASSUME ShedInv, EightsNext
  PROVE  ShedInv'
<1>1. CASE \E i \in 0..(Len(players) - 1) : EightsStart(i)
  BY <1>1, EightsStartStep DEF EightsNext
<1>2. CASE \E p \in Player, c \in EightsDeck, s \in Suit : EightsPlay(p, c, s)
  BY <1>2, EightsPlayStep DEF EightsNext
<1>3. ASSUME NEW p \in Player, EightsDraw(p) PROVE ShedInv'
  <2>1. phase = "Playing" /\ ShedTypeOK
    BY <1>3 DEF EightsDraw, MayAct, ShedInv
  <2>2. PICK d \in Draws(1, deck, discard, top) :
          /\ hands' = [hands EXCEPT ![p] = @ \cup d.drawn]
          /\ deck' = d.deck /\ discard' = d.discard
          /\ extra' = [extra EXCEPT !.passes = PassesAfter(d.drawn)]
          /\ top' = top
          /\ AfterMove(HandEmptyOrAllPassed', ShedStandings', None)
    BY <1>3 DEF EightsDraw
  <2>3. game' = game /\ players' = players /\ currentTurn' \in Int
    BY <2>1, <2>2, MoveTurn
  <2> QED BY <2>1, <2>2, <2>3, DrawKeepsInv
<1>4. ASSUME NEW p \in Player, EightsLeave(p) PROVE ShedInv'
  <2>1. /\ phase = "Playing" /\ Seated(p) /\ LeaveShedGame(p) /\ ShedTypeOK
        /\ AfterLeave(p, HandEmptyOrAllPassed', ShedStandings', None)
    BY <1>4 DEF EightsLeave, ShedInv
  <2>2. /\ game' = game /\ players' = SeatsWithout(p) /\ currentTurn' \in Int
        /\ phase' = "Playing" => SeatsWithout(p) # <<>>
    BY <2>1, LeaveTurn
  <2> QED BY <2>1, <2>2, LeaveKeepsInv
<1> QED BY <1>1, <1>2, <1>3, <1>4 DEF EightsNext

-----------------------------------------------------------------------------
(* Uno *)

\* The direction of play after a card, and the cards it forces on the next seat.
LEMMA UnoNumbers ==
  ASSUME ShedTypeOK, game = "uno", NEW c
  PROVE  Direction(c) \in {-1, 1} /\ Forced(c) \in Nat /\ Steps(c) \in Int
<1>1. Direction(c) \in {-1, 1}
  BY DEF Direction, ShedTypeOK
<1>2. Forced(c) \in Nat
  BY DEF Forced
<1>3. Steps(c) \in Int
  BY DEF Steps
<1> QED BY <1>1, <1>2, <1>3

\* Any number of steps in a direction lead to a seat.
LEMMA AdvanceInt ==
  ASSUME ShedTypeOK, Len(players) > 0, NEW direction \in {-1, 1}, NEW steps \in Int
  PROVE  SeatAt(Advance(direction, steps)) \in Player /\ Advance(direction, steps) \in Int
<1>1. currentTurn + direction * steps \in Int
  BY DEF ShedTypeOK
<1> QED BY <1>1, SeatsType DEF Advance

\* The next seat in a direction is a seat.
LEMMA NextSeatInt ==
  ASSUME ShedTypeOK, Len(players) > 0, NEW direction \in {-1, 1}
  PROVE  SeatAt(Advance(direction, 1)) \in Player /\ Advance(direction, 1) \in Int
<1>1. currentTurn + direction * 1 \in Int
  BY DEF ShedTypeOK
<1> QED BY <1>1, SeatsType DEF Advance

\* Uno is dealt, and the first card of the pile takes effect (OnGameStart, applyOpeningCard).
LEMMA UnoStartStep ==
  ASSUME ShedInv, game = "uno", NEW i \in 0..(Len(players) - 1), UnoStart(i)
  PROVE  ShedInv'
<1> DEFINE Opens(f, c, d) ==
        /\ hands' = [Dealt(f) EXCEPT ![SeatAt(i)] = @ \cup d.drawn]
        /\ deck' = d.deck /\ discard' = d.discard /\ top' = c
        /\ extra' = [suit      |-> c.suit,
                     direction |-> Direction(c),
                     passes    |-> IF Forced(c) > 0 /\ d.drawn = {} THEN 1 ELSE 0]
        /\ Opened(Opening(i, c))
<1>0. \E f \in Deals(players, ShedDeal, UnoDeck) :
      \E c \in Openers(UnoDeck \ Held(f), WildRanks) :
      \E d \in Draws(Forced(c), (UnoDeck \ Held(f)) \ {c}, {c}, c) : Opens(f, c, d)
  BY DEF UnoStart
<1>deal. PICK f \in Deals(players, ShedDeal, UnoDeck) :
      \E c \in Openers(UnoDeck \ Held(f), WildRanks) :
      \E d \in Draws(Forced(c), (UnoDeck \ Held(f)) \ {c}, {c}, c) : Opens(f, c, d)
  BY <1>0
<1>card. PICK c \in Openers(UnoDeck \ Held(f), WildRanks) :
      \E d \in Draws(Forced(c), (UnoDeck \ Held(f)) \ {c}, {c}, c) : Opens(f, c, d)
  BY <1>deal
<1>1. PICK d \in Draws(Forced(c), (UnoDeck \ Held(f)) \ {c}, {c}, c) : Opens(f, c, d)
  BY <1>card
<1>2. c \in UnoDeck \ Held(f) /\ ShedTypeOK
  BY DEF Openers, ShedInv
<1>3. /\ players \in Seq(Player) /\ Len(players) > 0 /\ SeatAt(i) \in Player
      /\ i \in Int /\ Len(players) \in Nat
  BY <1>2 DEF ShedTypeOK, SeatAt
<1>4. currentTurn' \in Int /\ players' = players /\ game' = game
  <2>1. (i + 1) % Len(players) \in Int
    BY <1>2, <1>3, SeatsType
  <2>2. Opening(i, c) \in Int
    BY <2>1, <1>3 DEF Opening
  <2> QED BY <2>2, <1>1, <1>3, ClampInt DEF Opened
<1> DEFINE stock == (UnoDeck \ Held(f)) \ {c}
<1>5. SharedOut(UnoDeck, Dealt(f), stock, {c})
  BY <1>2, <1>3, SharedByDeal
<1>6. ShedDeck' = UnoDeck /\ ShedDeck = UnoDeck
  BY <1>4 DEF ShedDeck
<1>7. Shared'
  <2>1. SharedOut(UnoDeck, hands', deck', discard') /\ c \in discard'
    BY <1>1, <1>3, <1>5, SharedByDraw
  <2> QED BY <2>1, <1>1, <1>6 DEF Shared
<1> DEFINE n == IF Forced(c) > 0 /\ d.drawn = {} THEN 1 ELSE 0
<1>8. n > 0 => Stuck'
  <2>1. Forced(c) \in Nat
    BY <1>2, UnoNumbers
  <2>2. stock \subseteq ShedDeck /\ {c} \subseteq ShedDeck
    BY <1>2, <1>6
  <2>3. n > 0 => d.deck = {} /\ d.discard = {c}
    BY SMTT(30), <2>1, <2>2, PassesOfDraw
  <2> QED BY <2>3, <1>1 DEF Stuck
<1>9. n \in Nat /\ extra' = [suit |-> c.suit, direction |-> Direction(c), passes |-> n]
  BY <1>1
<1> HIDE DEF n
<1>10. /\ extra'.passes = n /\ extra'.direction = Direction(c)
       /\ extra' = [suit |-> extra'.suit, direction |-> extra'.direction, passes |-> extra'.passes]
  BY ONLY <1>9
<1>11. Direction(c) \in {-1, 1}
  BY <1>2, UnoNumbers
<1> QED BY <1>2, <1>3, <1>4, <1>7, <1>8, <1>9, <1>10, <1>11 DEF ShedInv, ShedTypeOK, SheddingGame

\* A card is played at Uno (ApplyAction).
LEMMA UnoPlayStep ==
  ASSUME ShedInv, game = "uno", NEW p \in Player, NEW c \in UnoDeck, NEW s \in Suit,
         UnoPlay(p, c, s)
  PROVE  ShedInv'
<1> DEFINE victim == SeatAt(Advance(extra.direction, 1))
           rest   == [hands EXCEPT ![p] = @ \ {c}]
           pile   == discard \cup {c}
<1>1. /\ phase = "Playing" /\ c \in hands[p] /\ Shared /\ ShedTypeOK
      /\ Len(players) > 0 /\ extra.direction \in {-1, 1}
  BY DEF UnoPlay, MayAct, ShedInv, ShedTypeOK
<1>2. PICK d \in Draws(Forced(c), deck, pile, c) :
        /\ hands' = [rest EXCEPT ![victim] = @ \cup d.drawn]
        /\ deck' = d.deck /\ discard' = d.discard /\ top' = c
        /\ extra' = [suit      |-> s,
                     direction |-> Direction(c),
                     passes    |-> IF Forced(c) > 0 /\ d.drawn = {} THEN 1 ELSE 0]
        /\ AfterMove(HandEmptyOrAllPassed', ShedStandings', Advance(Direction(c), Steps(c)))
  BY DEF UnoPlay
<1>3. Direction(c) \in {-1, 1} /\ Forced(c) \in Nat /\ Steps(c) \in Int
  BY <1>1, UnoNumbers
<1>4. game' = game /\ players' = players /\ currentTurn' \in Int
  <2>1. Advance(Direction(c), Steps(c)) \in Int
    BY <1>1, <1>3, AdvanceInt
  <2> QED BY <2>1, <1>1, <1>2, MoveTurn
<1>5. victim \in Player
  BY <1>1, NextSeatInt
<1>6. SharedOut(ShedDeck, rest, deck, pile) /\ c \in pile
  BY <1>1, SharedByPlay DEF Shared
<1> HIDE DEF rest, victim, pile
<1>8. Shared'
  <2>1. SharedOut(ShedDeck, hands', deck', discard') /\ c \in discard'
    BY <1>2, <1>5, <1>6, SharedByDraw
  <2>2. ShedDeck' = ShedDeck
    BY <1>4 DEF ShedDeck
  <2> QED BY <2>1, <2>2, <1>2 DEF Shared
<1> DEFINE n == IF Forced(c) > 0 /\ d.drawn = {} THEN 1 ELSE 0
<1>9. n > 0 => Stuck'
  <2>1. deck \subseteq ShedDeck /\ pile \subseteq ShedDeck
    BY <1>6 DEF SharedOut
  <2>2. n > 0 => d.deck = {} /\ d.discard = {c}
    BY <2>1, <1>3, PassesOfDraw
  <2> QED BY <2>2, <1>2 DEF Stuck
<1>10. n \in Nat /\ extra' = [suit |-> s, direction |-> Direction(c), passes |-> n]
  BY <1>2
<1> HIDE DEF n
<1>11. /\ extra'.passes = n /\ extra'.direction = Direction(c)
       /\ extra' = [suit |-> extra'.suit, direction |-> extra'.direction, passes |-> extra'.passes]
  BY ONLY <1>10
<1> QED BY <1>1, <1>3, <1>4, <1>8, <1>9, <1>10, <1>11, ShedMoveKeepsInv

\* Counterclockwise, the seat before one that is given up.
LEMMA SeatBefore ==
  ASSUME NEW seat \in Int, NEW n \in Nat, n - 1 >= 2
  PROVE  (seat - 1) % (n - 1) \in Int
<1>1. seat - 1 \in Int /\ n - 1 \in Nat \ {0}
  OBVIOUS
<1>2. (seat - 1) % (n - 1) \in 0..((n - 1) - 1)
  BY <1>1, ModInRange
<1> QED BY <1>1, <1>2

\* Every step of Uno keeps the invariant.
LEMMA UnoStep ==
  ASSUME ShedInv, UnoNext
  PROVE  ShedInv'
<1>1. CASE \E i \in 0..(Len(players) - 1) : UnoStart(i)
  BY <1>1, UnoStartStep DEF UnoNext
<1>2. CASE \E p \in Player, c \in UnoDeck, s \in Suit : UnoPlay(p, c, s)
  BY <1>2, UnoPlayStep DEF UnoNext
<1>3. ASSUME NEW p \in Player, UnoDraw(p) PROVE ShedInv'
  <2>1. /\ phase = "Playing" /\ ShedTypeOK /\ Len(players) > 0 /\ extra.direction \in {-1, 1}
    BY <1>3 DEF UnoDraw, UnoNext, MayAct, ShedInv, ShedTypeOK
  <2>2. PICK d \in Draws(1, deck, discard, top) :
          /\ hands' = [hands EXCEPT ![p] = @ \cup d.drawn]
          /\ deck' = d.deck /\ discard' = d.discard
          /\ extra' = [extra EXCEPT !.passes = PassesAfter(d.drawn)]
          /\ top' = top
          /\ AfterMove(HandEmptyOrAllPassed', ShedStandings', Advance(extra.direction, 1))
    BY <1>3 DEF UnoDraw
  <2>3. game' = game /\ players' = players /\ currentTurn' \in Int
    <3>1. Advance(extra.direction, 1) \in Int
      BY <2>1, NextSeatInt
    <3> QED BY <3>1, <2>1, <2>2, MoveTurn
  <2> QED BY <2>1, <2>2, <2>3, DrawKeepsInv
<1>4. ASSUME NEW p \in Player, UnoLeave(p) PROVE ShedInv'
  <2>1. /\ phase = "Playing" /\ Seated(p) /\ LeaveShedGame(p) /\ ShedTypeOK
        /\ AfterLeave(p, HandEmptyOrAllPassed', ShedStandings', HeirSeat(p))
    BY <1>4 DEF UnoLeave, ShedInv
  <2>2. HeirSeat(p) \in Int \cup {None}
    <3>1. SeatOf(p) \in Int /\ Len(players) \in Nat
      BY <2>1 DEF ShedTypeOK, Seated, SeatOf
    <3>2. Len(players) - 1 >= 2 => (SeatOf(p) - 1) % (Len(players) - 1) \in Int
      BY <3>1, SeatBefore
    <3> QED BY <3>2 DEF HeirSeat
  <2>3. /\ game' = game /\ players' = SeatsWithout(p) /\ currentTurn' \in Int
        /\ phase' = "Playing" => SeatsWithout(p) # <<>>
    BY <2>1, <2>2, LeaveTurn
  <2> QED BY <2>1, <2>3, LeaveKeepsInv
<1> QED BY <1>1, <1>2, <1>3, <1>4 DEF UnoNext

-----------------------------------------------------------------------------
\* The inductive invariant of the shedding games: the deck is shared out, the cursor and
\* the direction are numbers, and a pass is only counted at an exhausted board.
THEOREM ShedCorrect == ShedSpec => []ShedInv
<1>1. /\ NewTable
      /\ \E seats \in Seq(Player) : IsInjective(seats) /\ (UnoInit(seats) \/ EightsInit(seats))
      => ShedInv
  BY DEF NewTable, UnoInit, EightsInit, ShedInv, ShedTypeOK, SheddingGame
<1>2. ShedInv /\ [GamesNext]_tvars => ShedInv'
  <2> SUFFICES ASSUME ShedInv, [GamesNext]_tvars PROVE ShedInv'
    OBVIOUS
  <2>1. CASE UNCHANGED tvars
    BY <2>1 DEF tvars, seating, piles, ShedInv, ShedTypeOK, Shared, Stuck, ShedDeck, SheddingGame
  <2>2. CASE UnoNext
    BY <2>2, UnoStep
  <2>3. CASE EightsNext
    BY <2>3, EightsStep
  <2>4. ~HeartsNext /\ ~GinNext /\ ~PokerNext
    <3>1. game \in {"uno", "crazy_eights"}
      BY DEF ShedInv, ShedTypeOK, SheddingGame
    <3>2. HeartsNext => game = "hearts"
      BY DEF HeartsNext
    <3>3. GinNext => game = "gin_rummy"
      BY DEF GinNext
    <3>4. PokerNext => game = "poker"
      BY DEF PokerNext
    <3> QED BY <3>1, <3>2, <3>3, <3>4
  <2> QED BY <2>1, <2>2, <2>3, <2>4 DEF GamesNext
<1> QED BY <1>1, <1>2, PTL DEF ShedSpec

\* A board is only counted out when nobody could have drawn (applyVoluntaryDraw,
\* HandEmptyOrAllPassed), for any number of players and any deck.
THEOREM PassesAreReal == ShedSpec => []PassesMeanStuck
<1>1. ShedInv => PassesMeanStuck
  BY DEF ShedInv, Stuck, PassesMeanStuck
<1> QED BY <1>1, ShedCorrect, PTL

\* No card is lost or duplicated, by a draw that turns the pile, a forced draw or a leaver
\* (Draw, ReshuffleDiscardIntoStock, ReturnHandToStock).
THEOREM ShedCardsKept == ShedSpec => []CardsKept
<1>1. ASSUME ShedInv PROVE CardsKept
  <2>1. SheddingGame /\ game # "gin_rummy" /\ game # "hearts"
    BY <1>1 DEF ShedInv, ShedTypeOK, SheddingGame
  <2>2. ASSUME Shared PROVE HandsApart /\ DeckSharedOut
    <3>1. hands \in [Player -> SUBSET ShedDeck] /\ deck \subseteq ShedDeck
          /\ discard \subseteq ShedDeck
      BY <2>2 DEF Shared, SharedOut
    <3>2. HandsApart
      BY <2>2, <3>1 DEF Shared, SharedOut, HandsApart, Apart
    <3>3. \A c : c \in Held(hands) <=> \E p \in Player : c \in hands[p]
      BY <3>1 DEF Held, Range
    <3>4. Held(hands) \cup deck \cup discard = ShedDeck
      BY <2>2, <3>1, <3>3 DEF Shared, SharedOut
    <3> QED BY <2>2, <3>2, <3>4 DEF Shared, SharedOut, DeckSharedOut
  <2> QED BY <1>1, <2>1, <2>2 DEF ShedInv, CardsKept
<1> QED BY <1>1, ShedCorrect, PTL

-----------------------------------------------------------------------------
(* What a step of a shedding game is to the seats *)

\* Between two steps: who is on turn is seated, and a leaver holds no cards.
SeatInv ==
  /\ SeatsOk
  /\ phase = "Waiting" => leftPlayers = <<>>
  /\ phase = "Playing" => currentTurn \in 0..(Len(players) - 1)
  /\ \A p \in ToSet(leftPlayers) : hands[p] = {}

ShedOpens == phase = "Waiting" /\ Len(players) > 0 /\ \E c \in Int : Opened(c)

ShedMoves ==
  /\ phase = "Playing"
  /\ \E over \in Int \cup {None} : AfterMove(HandEmptyOrAllPassed', ShedStandings', over)
  /\ \A p \in Player \ ToSet(players) : hands'[p] = hands[p]

ShedLeaves(p) ==
  /\ phase = "Playing" /\ Seated(p) /\ hands' = [hands EXCEPT ![p] = {}]
  /\ extra'.passes = 0
  /\ AfterLeave(p, HandEmptyOrAllPassed', ShedStandings',
                IF game = "uno" THEN HeirSeat(p) ELSE None)

ShedStep == ShedOpens \/ ShedMoves \/ \E p \in Player : ShedLeaves(p)

\* What a step of Crazy Eights does: it opens the table, moves, or gives up a seat.
LEMMA EightsSteps ==
  ASSUME ShedInv, SeatInv, EightsNext
  PROVE  ShedStep
<1>1. game = "crazy_eights" /\ players \in Seq(Player) /\ Len(players) \in Nat
  BY DEF EightsNext, SeatInv, SeatsOk
<1>2. ASSUME NEW i \in 0..(Len(players) - 1), EightsStart(i) PROVE ShedStep
  BY <1>1, <1>2 DEF EightsStart, ShedStep, ShedOpens
<1>3. ASSUME phase = "Playing", NEW p \in Player, OnTurn = p PROVE p \in ToSet(players)
  <2>1. currentTurn + 1 \in DOMAIN players
    BY <1>1, <1>3 DEF SeatInv
  <2> QED BY <2>1, <1>3 DEF OnTurn, SeatAt, ToSet
<1>4. ASSUME NEW p \in Player, NEW c \in EightsDeck, NEW s \in Suit, EightsPlay(p, c, s)
      PROVE  ShedStep
  <2>1. /\ phase = "Playing" /\ p \in ToSet(players)
        /\ hands' = [hands EXCEPT ![p] = hands[p] \ {c}]
        /\ AfterMove(HandEmptyOrAllPassed', ShedStandings', None)
    BY <1>3, <1>4 DEF EightsPlay, MayAct
  <2>2. \A q \in Player \ ToSet(players) : hands'[q] = hands[q]
    BY <2>1
  <2> QED BY <2>1, <2>2 DEF ShedStep, ShedMoves
<1>5. ASSUME NEW p \in Player, EightsDraw(p) PROVE ShedStep
  <2>1. PICK d \in Draws(1, deck, discard, top) :
          /\ hands' = [hands EXCEPT ![p] = hands[p] \cup d.drawn]
          /\ AfterMove(HandEmptyOrAllPassed', ShedStandings', None)
    BY <1>5 DEF EightsDraw
  <2>2. phase = "Playing" /\ p \in ToSet(players)
    BY <1>3, <1>5 DEF EightsDraw, MayAct
  <2>3. \A q \in Player \ ToSet(players) : hands'[q] = hands[q]
    BY <2>1, <2>2
  <2> QED BY <2>1, <2>2, <2>3 DEF ShedStep, ShedMoves
<1>6. ASSUME NEW p \in Player, EightsLeave(p) PROVE ShedStep
  <2>1. /\ phase = "Playing" /\ Seated(p) /\ hands' = [hands EXCEPT ![p] = {}]
        /\ extra' = [extra EXCEPT !.passes = 0]
        /\ AfterLeave(p, HandEmptyOrAllPassed', ShedStandings', None)
    BY <1>6 DEF EightsLeave, LeaveShedGame, PassesOfLeaver
  <2>2. extra'.passes = 0
    BY <2>1, <1>1 DEF ShedInv, ShedTypeOK
  <2> QED BY <2>1, <2>2, <1>1 DEF ShedStep, ShedLeaves
<1> QED BY <1>2, <1>4, <1>5, <1>6 DEF EightsNext

\* What a step of Uno does: it opens the table, moves, or gives up a seat.
LEMMA UnoSteps ==
  ASSUME ShedInv, SeatInv, UnoNext
  PROVE  ShedStep
<1>1. game = "uno" /\ players \in Seq(Player) /\ Len(players) \in Nat /\ ShedTypeOK
  BY DEF UnoNext, SeatInv, SeatsOk, ShedInv
<1>2. ASSUME NEW i \in 0..(Len(players) - 1), UnoStart(i) PROVE ShedStep
  <2>1. PICK c : Opened(Opening(i, c)) /\ phase = "Waiting"
    BY <1>2 DEF UnoStart
  <2>2. i \in Int /\ Len(players) \in Nat \ {0}
    BY <1>1
  <2>3. (i + 1) % Len(players) \in Int
    BY <2>2, <1>1, SeatsType
  <2>4. Opening(i, c) \in Int
    BY <2>2, <2>3 DEF Opening
  <2> QED BY <2>1, <2>2, <2>4 DEF ShedStep, ShedOpens
<1>3. ASSUME phase = "Playing" PROVE Len(players) > 0 /\ OnTurn \in ToSet(players)
  <2>1. currentTurn + 1 \in DOMAIN players
    BY <1>1, <1>3 DEF SeatInv
  <2> QED BY <2>1, <1>1, <1>3 DEF OnTurn, SeatAt, ToSet
<1>4. ASSUME NEW p \in Player, NEW c \in UnoDeck, NEW s \in Suit, UnoPlay(p, c, s)
      PROVE  ShedStep
  <2> DEFINE next == Advance(extra.direction, 1)
             rest == [hands EXCEPT ![p] = hands[p] \ {c}]
  <2>1. PICK d \in Draws(Forced(c), deck, discard \cup {c}, c) :
          /\ hands' = [rest EXCEPT ![SeatAt(next)] = rest[SeatAt(next)] \cup d.drawn]
          /\ AfterMove(HandEmptyOrAllPassed', ShedStandings', Advance(Direction(c), Steps(c)))
    BY <1>4 DEF UnoPlay
  <2>2. phase = "Playing" /\ p \in ToSet(players) /\ Len(players) > 0
    BY <1>3, <1>4 DEF UnoPlay, MayAct
  <2>3. extra.direction \in {-1, 1} /\ Direction(c) \in {-1, 1} /\ Steps(c) \in Int
    BY <1>1, UnoNumbers DEF ShedTypeOK
  <2>4. SeatAt(next) \in ToSet(players)
    <3>1. currentTurn + extra.direction * 1 \in Int /\ Len(players) \in Nat \ {0}
      BY <1>1, <2>2, <2>3 DEF ShedTypeOK
    <3>2. next \in 0..(Len(players) - 1)
      BY <3>1, ModInRange DEF Advance
    <3> HIDE DEF next
    <3>3. next + 1 \in DOMAIN players
      BY <1>1, <3>2
    <3> QED BY <3>3 DEF SeatAt, ToSet
  <2>5. Advance(Direction(c), Steps(c)) \in Int
    BY <1>1, <2>2, <2>3, AdvanceInt
  <2> HIDE DEF next
  <2>6. \A q \in Player \ ToSet(players) : hands'[q] = hands[q]
    <3>1. \A q \in Player \ ToSet(players) : rest[q] = hands[q]
      BY <2>2
    <3> HIDE DEF rest
    <3>2. \A q \in Player \ ToSet(players) : hands'[q] = rest[q]
      BY <2>1, <2>4
    <3> QED BY <3>1, <3>2
  <2> QED BY <2>1, <2>2, <2>5, <2>6 DEF ShedStep, ShedMoves
<1>5. ASSUME NEW p \in Player, UnoDraw(p) PROVE ShedStep
  <2>1. PICK d \in Draws(1, deck, discard, top) :
          /\ hands' = [hands EXCEPT ![p] = hands[p] \cup d.drawn]
          /\ AfterMove(HandEmptyOrAllPassed', ShedStandings', Advance(extra.direction, 1))
    BY <1>5 DEF UnoDraw
  <2>2. phase = "Playing" /\ p \in ToSet(players) /\ Len(players) > 0
    BY <1>3, <1>5 DEF UnoDraw, MayAct
  <2>3. Advance(extra.direction, 1) \in Int
    <3>1. extra.direction \in {-1, 1}
      BY <1>1 DEF ShedTypeOK
    <3> QED BY <3>1, <1>1, <2>2, NextSeatInt
  <2>4. \A q \in Player \ ToSet(players) : hands'[q] = hands[q]
    BY <2>1, <2>2
  <2> QED BY <2>1, <2>2, <2>3, <2>4 DEF ShedStep, ShedMoves
<1>6. ASSUME NEW p \in Player, UnoLeave(p) PROVE ShedStep
  <2>1. /\ phase = "Playing" /\ Seated(p) /\ hands' = [hands EXCEPT ![p] = {}]
        /\ extra' = [extra EXCEPT !.passes = 0]
        /\ AfterLeave(p, HandEmptyOrAllPassed', ShedStandings', HeirSeat(p))
    BY <1>6 DEF UnoLeave, LeaveShedGame, PassesOfLeaver
  <2>2. extra'.passes = 0
    BY <2>1, <1>1 DEF ShedTypeOK
  <2> QED BY <2>1, <2>2, <1>1 DEF ShedStep, ShedLeaves
<1> QED BY <1>2, <1>4, <1>5, <1>6 DEF UnoNext

\* What becomes of the turn of a leaver is a whole number, or nothing.
LEMMA HeirInt ==
  ASSUME SeatInv, NEW p \in Player, Seated(p)
  PROVE  (IF game = "uno" THEN HeirSeat(p) ELSE None) \in Int \cup {None}
<1>1. SeatOf(p) \in Int /\ Len(players) \in Nat
  BY DEF SeatInv, SeatsOk, Seated, SeatOf
<1>2. Len(players) - 1 >= 2 => (SeatOf(p) - 1) % (Len(players) - 1) \in Int
  BY <1>1, SeatBefore
<1> QED BY <1>2 DEF HeirSeat

\* A cursor of a table with seats names one of them.
LEMMA ClampSeat ==
  ASSUME NEW c \in Int, NEW n \in Nat \ {0}
  PROVE  Clamp(c, n) \in 0..(n - 1)
BY ModInRange DEF Clamp

\* The cursor stays on a seat.
LEMMA SeatInvStep ==
  ASSUME ShedInv, SeatInv, ShedStep
  PROVE  SeatInv'
<1>0. Len(players) \in Nat /\ players \in Seq(Player)
  BY DEF SeatInv, SeatsOk
<1>2. ASSUME ShedMoves PROVE SeatInv'
  <2>1. PICK over \in Int \cup {None} : AfterMove(HandEmptyOrAllPassed', ShedStandings', over)
    BY <1>2 DEF ShedMoves
  <2>2. phase = "Playing" /\ \A p \in Player \ ToSet(players) : hands'[p] = hands[p]
    BY <1>2 DEF ShedMoves
  <2>3. SeatsOk' /\ leftPlayers' = leftPlayers /\ players' = players
    BY <2>1 DEF AfterMove, SeatInv, SeatsOk
  <2>4. phase' \in {"Playing", "Finished"}
    BY <2>1, <2>2 DEF AfterMove, Finish, PlayOn
  <2>5. currentTurn' \in 0..(Len(players) - 1)
    <3>1. currentTurn \in 0..(Len(players) - 1) /\ Len(players) \in Nat \ {0}
      BY <1>0, <2>2 DEF SeatInv
    <3>2. (IF over = None THEN currentTurn + 1 ELSE over) \in Int
      BY <3>1
    <3>3. Clamp(IF over = None THEN currentTurn + 1 ELSE over, Len(players)) \in 0..(Len(players) - 1)
      BY <3>1, <3>2, ClampSeat
    <3> QED BY <2>1, <3>1, <3>3 DEF AfterMove, PlayOn
  <2>6. \A p \in ToSet(leftPlayers') : hands'[p] = {}
    <3>1. \A p \in ToSet(leftPlayers) : p \in Player \ ToSet(players)
      BY DEF SeatInv, SeatsOk, ToSet
    <3> QED BY <3>1, <2>2, <2>3 DEF SeatInv
  <2> QED BY <2>3, <2>4, <2>5, <2>6 DEF SeatInv
<1>3. ASSUME NEW p \in Player, ShedLeaves(p) PROVE SeatInv'
  <2> DEFINE over == IF game = "uno" THEN HeirSeat(p) ELSE None
  <2>1. /\ phase = "Playing" /\ Seated(p) /\ hands' = [hands EXCEPT ![p] = {}]
        /\ AfterLeave(p, HandEmptyOrAllPassed', ShedStandings', over)
    BY <1>3 DEF ShedLeaves
  <2>2. over \in Int \cup {None}
    BY <2>1, HeirInt
  <2> HIDE DEF over
  <2>3. players' = SeatsWithout(p) /\ leftPlayers' = Append(leftPlayers, p)
    BY <2>1 DEF AfterLeave
  <2>4. /\ SeatsOk' /\ ToSet(leftPlayers') = ToSet(leftPlayers) \cup {p}
        /\ Len(players') = Len(players) - 1 /\ SeatOf(p) \in 0..(Len(players) - 1)
    BY <2>1, <2>3, SeatsAfterLeave DEF SeatInv
  <2>5. phase' \in {"Playing", "Finished"}
    BY <2>1 DEF AfterLeave, Finish, PlayOn
  <2>6. ASSUME phase' = "Playing" PROVE currentTurn' \in 0..(Len(players') - 1)
    <3>1. players' # <<>> /\ PlayOn(CursorWithout(p), over, Len(players'))
      BY <2>1, <2>3, <2>6 DEF AfterLeave, Finish
    <3>2. Len(players') \in Nat \ {0}
      BY <2>4, <3>1 DEF SeatsOk
    <3>3. CursorWithout(p) \in Int
      <4>1. ShiftCursor(currentTurn, SeatOf(p)) \in Int
        BY <2>1, <2>4 DEF ShiftCursor, SeatInv
      <4> QED BY <2>4, <3>2, <4>1, ClampSeat DEF CursorWithout
    <3>4. (IF over = None THEN CursorWithout(p) ELSE over) \in Int
      BY <2>2, <3>3
    <3>5. Clamp(IF over = None THEN CursorWithout(p) ELSE over, Len(players')) \in 0..(Len(players') - 1)
      BY <3>2, <3>4, ClampSeat
    <3> QED BY <3>1, <3>5 DEF PlayOn
  <2>7. \A q \in ToSet(leftPlayers') : hands'[q] = {}
    <3>1. hands \in [Player -> SUBSET ShedDeck]
      BY <2>1 DEF ShedInv, Shared, SharedOut
    <3>2. \A q \in ToSet(leftPlayers) : hands[q] = {} /\ q \in Player
      BY DEF SeatInv, SeatsOk, ToSet
    <3>3. \A q \in Player : hands'[q] = IF q = p THEN {} ELSE hands[q]
      BY <2>1, <3>1
    <3> QED BY <2>4, <3>2, <3>3
  <2> QED BY <2>4, <2>5, <2>6, <2>7 DEF SeatInv
<1>1. ASSUME ShedOpens PROVE SeatInv'
  <2>1. PICK c \in Int : Opened(c)
    BY <1>1 DEF ShedOpens
  <2>2. /\ phase = "Waiting" /\ Len(players) \in Nat \ {0}
        /\ players' = players /\ leftPlayers' = leftPlayers /\ phase' = "Playing"
    BY <1>0, <1>1, <2>1 DEF ShedOpens, Opened
  <2>3. currentTurn' \in 0..(Len(players) - 1)
    BY <2>1, <2>2, ClampSeat DEF Opened
  <2>4. ToSet(leftPlayers') = {}
    BY <2>2 DEF SeatInv, ToSet
  <2> QED BY <2>2, <2>3, <2>4 DEF SeatInv, SeatsOk
<1> QED BY <1>1, <1>2, <1>3 DEF ShedStep

-----------------------------------------------------------------------------
(* Who is on turn after a departure *)

\* The turn of a leaver goes to the next seat, any other turn stays where it is.
LEMMA CursorAfterLeave ==
  ASSUME SeatInv, phase = "Playing", NEW p \in Player, Seated(p),
         players' = SeatsWithout(p), leftPlayers' = Append(leftPlayers, p), players' # <<>>,
         currentTurn' = Clamp(CursorWithout(p), Len(players'))
  PROVE  OnTurn' = IF currentTurn = SeatOf(p) THEN SeatAt((SeatOf(p) + 1) % Len(players)) ELSE OnTurn
<1>1. /\ SeatOf(p) \in 0..(Len(players) - 1) /\ Len(players') = Len(players) - 1
      /\ players \in Seq(Player) /\ players' \in Seq(Player)
  BY SeatsAfterLeave DEF SeatInv, SeatsOk
<1>2. Len(players) >= 2 /\ SeatOf(p) + 1 \in 1..Len(players) /\ currentTurn \in 0..(Len(players) - 1)
  BY <1>1 DEF SeatInv
<1>3. CursorFollows(players, SeatOf(p) + 1, currentTurn)
  BY <1>1, <1>2, CursorKept
<1> DEFINE n == Len(players) - 1
           m == (IF currentTurn > SeatOf(p) THEN currentTurn - 1 ELSE currentTurn) % n
<1>4. SeatOf(p) + 1 - 1 = SeatOf(p) /\ n # 0 /\ Len(players') = n
  BY <1>1, <1>2
<1>5. /\ m % n = m
      /\ RemoveAt(players, SeatOf(p) + 1)[m + 1] =
           IF currentTurn = SeatOf(p) THEN players[((SeatOf(p) + 1) % Len(players)) + 1]
           ELSE players[currentTurn + 1]
  <2> DEFINE k == (IF currentTurn > (SeatOf(p) + 1) - 1 THEN currentTurn - 1 ELSE currentTurn)
                     % (Len(players) - 1)
  <2>1. /\ k % (Len(players) - 1) = k
        /\ RemoveAt(players, SeatOf(p) + 1)[k + 1] =
             IF currentTurn = (SeatOf(p) + 1) - 1
             THEN players[((SeatOf(p) + 1) % Len(players)) + 1] ELSE players[currentTurn + 1]
    BY ONLY <1>3, Zenon DEF CursorFollows
  <2>2. k = m /\ (SeatOf(p) + 1) - 1 = SeatOf(p)
    <3>1. (SeatOf(p) + 1) - 1 = SeatOf(p)
      BY <1>1
    <3> QED BY ONLY <3>1
  <2> HIDE DEF k, m
  <2> QED BY <2>1, <2>2
<1>6. currentTurn' = m
  BY <1>4, <1>5 DEF CursorWithout, Clamp, ShiftCursor
<1> HIDE DEF m
<1> QED BY <1>5, <1>6 DEF OnTurn, SeatAt, SeatsWithout

\* Counterclockwise, over the end of the row.
LEMMA ModBefore ==
  ASSUME NEW n \in Nat \ {0}, NEW i \in 0..n
  PROVE  /\ (i - 1) % n = IF i = 0 THEN n - 1 ELSE i - 1
         /\ (i - 1) % (n + 1) = IF i = 0 THEN n ELSE i - 1
<1>1. CASE i = 0
  <2>1. (-1) % n = n - 1 /\ (-1) % (n + 1) = n
    OBVIOUS
  <2> QED BY <1>1, <2>1
<1>2. CASE i # 0
  <2>1. i - 1 \in 0..(n - 1)
    BY <1>2
  <2>2. PICK k \in 0..(n - 1) : k = i - 1
    BY <2>1
  <2>3. k % n = k /\ k % (n + 1) = k
    <3>1. \A a \in Nat, b \in Nat \ {0} : a < b => a % b = a
      OBVIOUS
    <3>2. k \in Nat /\ k < n /\ k < n + 1 /\ n + 1 \in Nat \ {0}
      OBVIOUS
    <3> QED BY <3>1, <3>2
  <2> QED BY <1>2, <2>1, <2>2, <2>3
<1> QED BY <1>1, <1>2

\* The turn of a leaver goes to the neighbour; any other turn stays put.
LEMMA LeaveTurnKept ==
  ASSUME SeatInv, NEW p \in Player, ShedLeaves(p), phase' = "Playing"
  PROVE  OnTurn' = IF p = OnTurn THEN Neighbour(p) ELSE OnTurn
<1> DEFINE over == IF game = "uno" THEN HeirSeat(p) ELSE None
<1>1. /\ phase = "Playing" /\ Seated(p)
      /\ AfterLeave(p, HandEmptyOrAllPassed', ShedStandings', over)
  BY DEF ShedLeaves
<1>2. players' = SeatsWithout(p) /\ leftPlayers' = Append(leftPlayers, p)
  BY <1>1 DEF AfterLeave
<1>3. /\ SeatOf(p) \in 0..(Len(players) - 1) /\ SeatAt(SeatOf(p)) = p
      /\ Len(players') = Len(players) - 1 /\ players \in Seq(Player) /\ players' \in Seq(Player)
      /\ currentTurn \in 0..(Len(players) - 1)
  BY <1>1, <1>2, SeatsAfterLeave DEF SeatInv, SeatsOk
<1>4. p = OnTurn <=> currentTurn = SeatOf(p)
  <2>1. /\ currentTurn + 1 \in DOMAIN players /\ SeatOf(p) + 1 \in DOMAIN players
        /\ currentTurn \in Int /\ SeatOf(p) \in Int
    BY <1>3
  <2>2. players[currentTurn + 1] = players[SeatOf(p) + 1] => currentTurn + 1 = SeatOf(p) + 1
    BY <2>1 DEF SeatInv, SeatsOk, IsInjective
  <2> QED BY <1>3, <2>1, <2>2 DEF OnTurn, SeatAt
<1>5. /\ players' # <<>> /\ ~Forfeited(players', over)
      /\ currentTurn' = Clamp(IF over = None THEN CursorWithout(p) ELSE over, Len(players'))
  BY <1>1, <1>2 DEF AfterLeave, Finish, PlayOn
<1>6. Len(players') \in Nat \ {0} /\ Len(players) >= 2
  BY <1>3, <1>5
<1>7. CASE game = "uno" /\ extra.direction < 0 /\ currentTurn = SeatOf(p)
  <2>1. CASE Len(players) - 1 >= 2
    <3> DEFINE h == (SeatOf(p) - 1) % (Len(players) - 1)
    <3>1. over = h
      BY <1>7, <2>1 DEF HeirSeat
    <3>2. PICK n \in Nat \ {0} : n = Len(players) - 1
      BY <1>6, <1>3
    <3>3. SeatOf(p) \in 0..n /\ n + 1 = Len(players)
      BY <1>3, <3>2
    <3>4. /\ h = IF SeatOf(p) = 0 THEN n - 1 ELSE SeatOf(p) - 1
          /\ (SeatOf(p) - 1) % Len(players) = IF SeatOf(p) = 0 THEN n ELSE SeatOf(p) - 1
      <4>1. /\ (SeatOf(p) - 1) % n = IF SeatOf(p) = 0 THEN n - 1 ELSE SeatOf(p) - 1
            /\ (SeatOf(p) - 1) % (n + 1) = IF SeatOf(p) = 0 THEN n ELSE SeatOf(p) - 1
        BY ONLY <3>3, ModBefore
      <4> QED BY <3>2, <3>3, <4>1
    <3> HIDE DEF h
    <3>5. h \in 0..(n - 1) /\ h % n = h
      <4>1. h \in 0..(n - 1)
        BY <3>3, <3>4
      <4>2. h \in 0..n /\ h # n
        BY <4>1
      <4> QED BY <4>1, <4>2, ModSmall
    <3>6. over # None
      BY <3>1, <3>5, TableAssumption
    <3>7. currentTurn' = h
      BY <1>3, <1>5, <3>1, <3>2, <3>5, <3>6 DEF Clamp
    <3>8. OnTurn' = RemoveAt(players, SeatOf(p) + 1)[h + 1]
      BY <1>2, <3>7 DEF OnTurn, SeatAt, SeatsWithout
    <3>9. h + 1 \in 1..(Len(players) - 1) /\ SeatOf(p) + 1 \in 1..Len(players)
      BY <1>3, <3>2, <3>5
    <3>10. OnTurn' = IF h + 1 < SeatOf(p) + 1 THEN players[h + 1] ELSE players[(h + 1) + 1]
      BY <1>3, <3>8, <3>9, RemoveAtSeats
    <3>11. OnTurn' = players[((SeatOf(p) - 1) % Len(players)) + 1]
      <4>1. CASE SeatOf(p) = 0
        <5>1. ~(h + 1 < SeatOf(p) + 1) /\ (h + 1) + 1 = n + 1
          BY <4>1, <3>4, <3>5
        <5> QED BY <4>1, <5>1, <3>4, <3>10
      <4>2. CASE SeatOf(p) # 0
        <5>1. h + 1 < SeatOf(p) + 1 /\ h = SeatOf(p) - 1
          <6>1. h = SeatOf(p) - 1
            BY ONLY <4>2, <3>4, Zenon
          <6>2. SeatOf(p) \in Int
            BY ONLY <3>2, <3>3
          <6> QED BY ONLY <6>1, <6>2
        <5> QED BY <4>2, <5>1, <3>4, <3>10
      <4> QED BY <4>1, <4>2
    <3> QED BY <1>4, <1>7, <3>11 DEF Neighbour, SeatAt
  <2>2. CASE ~(Len(players) - 1 >= 2)
    <3>1. over = None /\ Len(players') = 1
      BY <1>3, <1>6, <1>7, <2>2 DEF HeirSeat
    <3> QED BY <1>5, <3>1 DEF Forfeited
  <2> QED BY <2>1, <2>2
<1>8. CASE ~(game = "uno" /\ extra.direction < 0 /\ currentTurn = SeatOf(p))
  <2>1. over = None
    BY <1>8 DEF HeirSeat
  <2>2. currentTurn' = Clamp(CursorWithout(p), Len(players'))
    BY <1>5, <2>1
  <2> HIDE DEF over
  <2>3. OnTurn' = IF currentTurn = SeatOf(p) THEN SeatAt((SeatOf(p) + 1) % Len(players)) ELSE OnTurn
    BY <1>1, <1>2, <1>5, <2>2, CursorAfterLeave
  <2>4. currentTurn = SeatOf(p) => Neighbour(p) = SeatAt((SeatOf(p) + 1) % Len(players))
    BY <1>8 DEF Neighbour
  <2> QED BY <1>4, <2>3, <2>4
<1> QED BY <1>7, <1>8

-----------------------------------------------------------------------------
(* The standings of a shedding game *)

\* The number of cards in a hand is a number.
LEMMA HandsCounted ==
  ASSUME hands \in [Player -> SUBSET ShedDeck]
  PROVE  \A p \in Player : ShedScore(p) \in Nat
<1>1. \A p \in Player : IsFiniteSet(hands[p])
  BY FiniteDeck, FS_Subset
<1> QED BY <1>1, FS_CardinalityType DEF ShedScore

\* The standings of a shedding game go by the cards left.
LEMMA ShedStandingsAre ==
  ASSUME players \in Seq(Player), IsInjective(players), hands \in [Player -> SUBSET ShedDeck]
  PROVE  ByScoreIs(ShedStandings, players, [p \in Player |-> ShedScore(p)])
<1>1. IntsFor([p \in Player |-> ShedScore(p)], players)
  BY HandsCounted DEF IntsFor
<1> QED BY <1>1, ByScoreLists DEF ShedStandings

\* Whoever wins is seated.
LEMMA ShedWinnerSeated ==
  ASSUME players \in Seq(Player), IsInjective(players), hands \in [Player -> SUBSET ShedDeck],
         players # <<>>
  PROVE  ShedStandings[1] \in ToSet(players)
<1>1. /\ ShedStandings \in Seq(Player) /\ Len(ShedStandings) = Len(players)
      /\ ToSet(ShedStandings) = ToSet(players)
  BY ShedStandingsAre DEF ByScoreIs
<1>2. 1 \in DOMAIN ShedStandings
  BY <1>1
<1> QED BY <1>1, <1>2 DEF ToSet

\* The places of a shedding game, with its leavers last.
LEMMA ShedPlaces ==
  ASSUME ShedInv, SeatInv, phase = "Finished"
  PROVE  PlacesRight
<1> DEFINE key == [p \in Player |-> ShedScore(p)]
<1>1. /\ hands \in [Player -> SUBSET ShedDeck] /\ SeatsOk
      /\ game \in {"uno", "crazy_eights"}
  BY DEF ShedInv, Shared, SharedOut, SeatInv, ShedTypeOK, SheddingGame
<1>2. Standings = WithLeavers(ShedStandings) /\ \A p : Score(p) = ShedScore(p)
  BY <1>1 DEF Score, Standings
<1>3. key \in [Player -> Int] /\ ByScoreIs(ShedStandings, players, key)
  BY <1>1, HandsCounted, ShedStandingsAre DEF SeatsOk
<1>4. \A p \in ToSet(leftPlayers) : p \in Player /\ key[p] = 0
  <2>1. \A p \in ToSet(leftPlayers) : p \in Player
    BY <1>1 DEF SeatsOk, ToSet
  <2> QED BY <2>1, FS_EmptySet DEF ShedScore, SeatInv
<1>5. \A p, q \in Player : Score(p) = Score(q) <=> key[p] = key[q]
  BY <1>2
<1> HIDE DEF key
<1> QED BY <1>1, <1>2, <1>3, <1>4, <1>5, PlacesByScore

-----------------------------------------------------------------------------
(* The shedding games: turns, places, the match *)

\* Every step of a shedding game is one of the three kinds.
LEMMA ShedNextSteps ==
  ASSUME ShedInv, SeatInv, GamesNext
  PROVE  ShedStep
<1>1. game \in {"uno", "crazy_eights"}
  BY DEF ShedInv, ShedTypeOK, SheddingGame
<1>2. HeartsNext => game = "hearts"
  BY DEF HeartsNext
<1>3. GinNext => game = "gin_rummy"
  BY DEF GinNext
<1>4. PokerNext => game = "poker"
  BY DEF PokerNext
<1>5. UnoNext \/ EightsNext
  BY <1>1, <1>2, <1>3, <1>4 DEF GamesNext
<1> QED BY <1>5, UnoSteps, EightsSteps

\* Seats are given up for good and nobody sits twice, the cursor of a match that goes on
\* names a seat, and whoever left holds no cards (removePlayerLocked, clampTurnLocked,
\* ReturnHandToStock).
THEOREM ShedSeated == ShedSpec => []SeatInv
<1>1. /\ NewTable
      /\ \E seats \in Seq(Player) : IsInjective(seats) /\ (UnoInit(seats) \/ EightsInit(seats))
      => SeatInv
  <2> SUFFICES ASSUME NewTable, NEW seats \in Seq(Player), IsInjective(seats),
                      UnoInit(seats) \/ EightsInit(seats)
               PROVE  SeatInv
    OBVIOUS
  <2>1. players = seats /\ leftPlayers = <<>> /\ phase = "Waiting"
    BY DEF NewTable, UnoInit, EightsInit
  <2>2. leftPlayers \in Seq(Player) /\ IsInjective(leftPlayers) /\ ToSet(leftPlayers) = {}
    BY <2>1 DEF IsInjective, ToSet
  <2> QED BY <2>1, <2>2 DEF SeatInv, SeatsOk
<1>2. ShedInv /\ SeatInv /\ [GamesNext]_tvars => SeatInv'
  <2> SUFFICES ASSUME ShedInv, SeatInv, [GamesNext]_tvars PROVE SeatInv'
    OBVIOUS
  <2>1. CASE UNCHANGED tvars
    BY <2>1 DEF tvars, seating, SeatInv, SeatsOk
  <2>2. CASE GamesNext
    BY <2>2, ShedNextSteps, SeatInvStep
  <2> QED BY <2>1, <2>2
<1> QED BY <1>1, <1>2, ShedCorrect, PTL DEF ShedSpec

\* Nobody loses a turn to a departure and nobody gets one twice, clockwise or not, whoever
\* leaves a shedding game (removePlayerLocked, AfterPlayerRemoved), for any number of seats.
THEOREM ShedLeaveKeepsTurn == ShedSpec => LeaveKeepsTurn
<1> DEFINE Kept == SheddingGame /\ phase' = "Playing" =>
                     \A p \in ToSet(players) : p \in ToSet(leftPlayers') =>
                       OnTurn' = IF p = OnTurn THEN Neighbour(p) ELSE OnTurn
<1>1. ShedInv /\ SeatInv /\ [GamesNext]_tvars => [Kept]_tvars
  <2> SUFFICES ASSUME ShedInv, SeatInv, GamesNext, phase' = "Playing",
                      NEW p \in ToSet(players), p \in ToSet(leftPlayers')
               PROVE  OnTurn' = IF p = OnTurn THEN Neighbour(p) ELSE OnTurn
    OBVIOUS
  <2>1. ShedStep /\ p \notin ToSet(leftPlayers)
    BY ShedNextSteps DEF SeatInv, SeatsOk
  <2>2. ~ShedOpens /\ ~ShedMoves
    <3>1. ShedOpens \/ ShedMoves => leftPlayers' = leftPlayers
      BY DEF ShedOpens, ShedMoves, Opened, AfterMove
    <3> QED BY <2>1, <3>1
  <2>3. PICK q \in Player : ShedLeaves(q)
    BY <2>1, <2>2 DEF ShedStep
  <2>4. ToSet(leftPlayers') = ToSet(leftPlayers) \cup {q}
    <3>1. Seated(q) /\ players' = SeatsWithout(q) /\ leftPlayers' = Append(leftPlayers, q)
      BY <2>3 DEF ShedLeaves, AfterLeave
    <3> QED BY <3>1, SeatsAfterLeave DEF SeatInv
  <2>5. p = q
    BY <2>1, <2>4
  <2> QED BY <2>3, <2>5, LeaveTurnKept
<1> QED BY <1>1, ShedCorrect, ShedSeated, PTL DEF ShedSpec, LeaveKeepsTurn

\* Everybody dealt in to a shedding game gets one place, leavers below whoever stayed, and
\* a place is shared by equals only (standingsLocked, placesLocked, StandingsByScore).
THEOREM ShedPlacesRight == ShedSpec => []PlacesRight
<1>1. ShedInv /\ SeatInv => PlacesRight
  <2> SUFFICES ASSUME ShedInv, SeatInv PROVE PlacesRight
    OBVIOUS
  <2>1. CASE phase = "Finished"
    BY <2>1, ShedPlaces
  <2>2. CASE phase # "Finished"
    BY <2>2 DEF PlacesRight
  <2> QED BY <2>1, <2>2
<1> QED BY <1>1, ShedCorrect, ShedSeated, PTL

\* Once the cards are dealt, the first of the standings is seated.
WinnerSeated == phase # "Waiting" /\ players # <<>> => ShedStandings[1] \in ToSet(players)

\* Every step of a shedding game opens the table, moves or gives up a seat.
LEMMA ShedKeepsMatchStep ==
  ASSUME ShedInv, SeatInv, WinnerSeated', ShedStep
  PROVE  [TheMatch!MatchNext]_(TheMatch!mvars)
<1>1. ASSUME ShedOpens PROVE [TheMatch!MatchNext]_(TheMatch!mvars)
  <2>1. PICK c \in Int : Opened(c)
    BY <1>1 DEF ShedOpens
  <2>2. /\ phase = "Waiting" /\ phase' = "Playing" /\ Len(players) > 0
        /\ players' = players /\ UNCHANGED <<reason, winner>>
    BY <1>1, <2>1 DEF ShedOpens, Opened
  <2>3. ToSet(players) # {}
    <3>1. 1 \in DOMAIN players
      BY <2>2 DEF SeatInv, SeatsOk
    <3> QED BY <3>1 DEF ToSet
  <2>4. TheMatch!Begin
    BY <2>2, <2>3 DEF TheMatch!Begin, TheMatch!Becomes, TheMatch!Now
  <2> QED BY <2>4 DEF TheMatch!MatchNext
<1>2. ASSUME ShedMoves PROVE [TheMatch!MatchNext]_(TheMatch!mvars)
  <2>1. PICK over \in Int \cup {None} : AfterMove(HandEmptyOrAllPassed', ShedStandings', over)
    BY <1>2 DEF ShedMoves
  <2>2. phase = "Playing" /\ players # <<>> /\ players' = players
    BY <1>2, <2>1 DEF ShedMoves, AfterMove, SeatInv, SeatsOk
  <2>3. ShedStandings'[1] \in ToSet(players)
    <3>1. phase' # "Waiting"
      BY <2>1, <2>2 DEF AfterMove, Finish, PlayOn
    <3> QED BY <2>2, <3>1 DEF WinnerSeated
  <2> QED BY <2>1, <2>2, <2>3, MoveMatches
<1>3. ASSUME NEW p \in Player, ShedLeaves(p) PROVE [TheMatch!MatchNext]_(TheMatch!mvars)
  <2> DEFINE over == IF game = "uno" THEN HeirSeat(p) ELSE None
  <2>1. /\ phase = "Playing" /\ Seated(p)
        /\ AfterLeave(p, HandEmptyOrAllPassed', ShedStandings', over)
    BY <1>3 DEF ShedLeaves
  <2> HIDE DEF over
  <2>2. players' # <<>> => ShedStandings'[1] \in ToSet(players')
    <3>1. phase' # "Waiting"
      BY <2>1 DEF AfterLeave, Finish, PlayOn
    <3> QED BY <3>1 DEF WinnerSeated
  <2> QED BY <2>1, <2>2, LeaveMatches DEF SeatInv
<1> QED BY <1>1, <1>2, <1>3 DEF ShedStep

\* With the rules of Uno and Crazy Eights a table keeps what the abstract match promises the
\* lobby: it ends once, for a reason that fits its seats, and with a winner still seated.
THEOREM ShedKeepsMatch == ShedSpec => KeepsMatch
<1>1. ShedInv /\ SeatInv => WinnerSeated
  <2> SUFFICES ASSUME ShedInv, SeatInv, phase # "Waiting", players # <<>>
               PROVE  ShedStandings[1] \in ToSet(players)
    BY DEF WinnerSeated
  <2>1. hands \in [Player -> SUBSET ShedDeck]
    BY DEF ShedInv, Shared, SharedOut
  <2> QED BY <2>1, ShedWinnerSeated DEF SeatInv, SeatsOk
<1>2. /\ ShedInv /\ SeatInv /\ WinnerSeated' /\ [GamesNext]_tvars
      => [TheMatch!MatchNext]_(TheMatch!mvars)
  <2> SUFFICES ASSUME ShedInv, SeatInv, WinnerSeated', [GamesNext]_tvars
               PROVE  [TheMatch!MatchNext]_(TheMatch!mvars)
    OBVIOUS
  <2>1. CASE UNCHANGED tvars
    BY <2>1 DEF tvars, seating, TheMatch!mvars
  <2>2. CASE GamesNext
    BY <2>2, ShedNextSteps, ShedKeepsMatchStep
  <2> QED BY <2>1, <2>2
<1> QED BY <1>1, <1>2, ShedCorrect, ShedSeated, PTL DEF ShedSpec, KeepsMatch

-----------------------------------------------------------------------------
(* Gin rummy: the arithmetic of a knock *)

\* The pips of some cards are a number.
LEMMA PipsCount ==
  ASSUME NEW cards \in SUBSET GinDeck
  PROVE  Pips(cards) \in Nat
<1> DEFINE pip == [c \in cards |-> PipValue(c.rank)]
           none == [c \in cards |-> 0]
<1>1. IsFiniteSet(cards)
  BY GinAssumption, FS_Subset
<1>2. \A c \in cards : pip[c] \in Nat
  <2>1. \A c \in cards : c.rank \in Nat
    BY GinAssumption
  <2> QED BY <2>1 DEF PipValue, RunOrder
<1>3. DOMAIN pip = cards /\ \A c \in cards : none[c] = 0
  OBVIOUS
<1>4. Pips(cards) = SumFunctionOnSet(pip, cards)
  BY <1>3, Zenon DEF Pips, SumFunction
<1> HIDE DEF pip
<1>5. IntsOn(pip, cards) /\ IntsOn(none, cards) /\ \A c \in cards : none[c] <= pip[c]
  BY <1>2 DEF IntsOn
<1>6. SumFunctionOnSet(none, cards) = 0
  BY <1>1, SumOfNothing
<1> HIDE DEF none
<1>7. SumFunctionOnSet(pip, cards) \in Int /\ SumFunctionOnSet(none, cards) <= SumFunctionOnSet(pip, cards)
  BY <1>1, <1>5, SumType, SumLarger
<1> QED BY <1>4, <1>6, <1>7

\* A hand has a best split, and what it leaves is a number.
LEMMA BestExists ==
  ASSUME NEW hand \in SUBSET GinDeck
  PROVE  LeastDeadwood(hand) \in Nat /\ BestSplits(hand) # {}
<1> DEFINE S == {Pips(Deadwood(hand, m)) : m \in Splits(hand)}
<1>1. {} \in Splits(hand)
  BY DEF Splits, Disjoint
<1>2. S # {} /\ S \subseteq Nat
  <2>1. \A m \in Splits(hand) : Deadwood(hand, m) \in SUBSET GinDeck
    BY DEF Deadwood
  <2> QED BY <1>1, <2>1, PipsCount
<1>3. LeastDeadwood(hand) = Min(S)
  BY DEF LeastDeadwood
<1>4. BestSplits(hand) = {m \in Splits(hand) : Pips(Deadwood(hand, m)) = Min(S)}
  BY DEF BestSplits
<1>5. Min(S) \in S
  <2> HIDE DEF S
  <2>1. \E x \in S : \A y \in S : x =< y
    BY <1>2, NatHasLeast
  <2> QED BY <2>1, Zenon DEF Min
<1>6. PICK m \in Splits(hand) : Min(S) = Pips(Deadwood(hand, m))
  BY <1>5
<1> QED BY <1>2, <1>3, <1>4, <1>5, <1>6

\* The passes of a layoff.
ArePasses(a, deadwood, melds, runsFirst) ==
  /\ a[0] = {[left |-> deadwood, melds |-> melds]}
  /\ \A n \in 1..Cardinality(deadwood) : a[n] = UNION {LaidOff(s, runsFirst) : s \in a[n - 1]}
  /\ LayoffsBy(deadwood, melds, runsFirst) = {s.left : s \in a[Cardinality(deadwood)]}

\* Laying off is a number of passes, as many as there are cards.
LEMMA PassesExist ==
  ASSUME NEW deadwood, IsFiniteSet(deadwood), NEW melds, NEW runsFirst
  PROVE  \E a : ArePasses(a, deadwood, melds, runsFirst)
<1> DEFINE k == Cardinality(deadwood)
           first == {[left |-> deadwood, melds |-> melds]}
           Pass(all) == UNION {LaidOff(s, runsFirst) : s \in all}
           Goes(f, n) == f[n] = IF n = 0 THEN first ELSE Pass(f[n - 1])
           Body(f) == [n \in 0..k |-> IF n = 0 THEN first ELSE Pass(f[n - 1])]
           after == CHOOSE f : f = Body(f)
           K == {j \in Nat : \E f : \A n \in 0..j : Goes(f, n)}
<1>1. k \in Nat
  BY FS_CardinalityType
<1>2. 0 \in K
  <2> DEFINE f == [n \in {0} |-> first]
  <2>1. f[0] = first
    OBVIOUS
  <2> HIDE DEF f, first
  <2>2. \A n \in 0..0 : Goes(f, n)
    BY <2>1
  <2> QED BY <2>2
<1>3. ASSUME NEW j \in Nat, j \in K PROVE j + 1 \in K
  <2>1. PICK f : \A n \in 0..j : Goes(f, n)
    BY <1>3
  <2> HIDE DEF Pass, first
  <2> DEFINE g == [n \in 0..(j + 1) |-> IF n <= j THEN f[n] ELSE Pass(f[j])]
  <2>2. /\ \A n \in 0..j : g[n] = f[n]
        /\ g[j + 1] = Pass(f[j])
    OBVIOUS
  <2> HIDE DEF g
  <2>3. \A n \in 0..(j + 1) : Goes(g, n)
    <3> SUFFICES ASSUME NEW n \in 0..(j + 1) PROVE Goes(g, n)
      OBVIOUS
    <3>1. CASE n <= j
      <4>1. n \in 0..j /\ (n = 0 \/ n - 1 \in 0..j)
        BY <3>1
      <4> QED BY <2>1, <2>2, <4>1
    <3>2. CASE n = j + 1
      <4>1. n # 0 /\ n - 1 = j /\ j \in 0..j
        BY <3>2
      <4> QED BY <2>2, <3>2, <4>1
    <3> QED BY <3>1, <3>2
  <2> QED BY <2>3
<1>4. k \in K
  <2> HIDE DEF K
  <2> QED BY <1>1, <1>2, <1>3, CountsOn
<1>5. PICK f : \A n \in 0..k : Goes(f, n)
  BY <1>4
<1> HIDE DEF Pass, first, k
<1>6. \E h : h = Body(h)
  <2> DEFINE h == [n \in 0..k |-> f[n]]
  <2>1. \A n \in 0..k : h[n] = IF n = 0 THEN first ELSE Pass(h[n - 1])
    <3> SUFFICES ASSUME NEW n \in 0..k PROVE h[n] = IF n = 0 THEN first ELSE Pass(h[n - 1])
      OBVIOUS
    <3>1. n = 0 \/ n - 1 \in 0..k
      BY <1>1
    <3> QED BY <1>5, <3>1
  <2>2. h = Body(h)
    BY <2>1
  <2> QED BY <2>2
<1>7. after = Body(after)
  BY <1>6, Zenon
<1>8. LayoffsBy(deadwood, melds, runsFirst) = {s.left : s \in after[k]}
  BY Zenon DEF LayoffsBy, k, first, Pass
<1>9. PICK a : a = after
  OBVIOUS
<1>10. a = Body(a)
  BY <1>7, <1>9
<1>11. LayoffsBy(deadwood, melds, runsFirst) = {s.left : s \in a[k]}
  BY <1>8, <1>9
<1> HIDE DEF after
<1>12. \A n \in 0..k : Goes(a, n)
  BY <1>10
<1>13. 0 \in 0..k /\ \A n \in 1..k : n \in 0..k /\ n # 0
  BY <1>1
<1>14. a[0] = first /\ \A n \in 1..k : a[n] = Pass(a[n - 1])
  BY <1>12, <1>13
<1> QED BY <1>11, <1>14 DEF ArePasses, k, first, Pass

\* A pass of laying off takes cards away.
LEMMA LayoffsShrink ==
  ASSUME NEW deadwood, IsFiniteSet(deadwood), NEW melds, NEW runsFirst
  PROVE  \A left \in LayoffsBy(deadwood, melds, runsFirst) : left \subseteq deadwood
<1>1. PICK k \in Nat : k = Cardinality(deadwood)
  BY FS_CardinalityType
<1>2. PICK a : ArePasses(a, deadwood, melds, runsFirst)
  BY PassesExist
<1> DEFINE Part(all) == \A s \in all : s.left \subseteq deadwood
           T == {n \in Nat : n <= k => Part(a[n])}
<1>3. 0 \in T
  BY <1>2 DEF ArePasses
<1>4. ASSUME NEW n \in Nat, n \in T PROVE n + 1 \in T
  <2> SUFFICES ASSUME n + 1 <= k PROVE Part(a[n + 1])
    OBVIOUS
  <2>1. n <= k /\ n + 1 \in 1..k /\ (n + 1) - 1 = n
    BY <1>1
  <2>2. Part(a[n]) /\ a[n + 1] = UNION {LaidOff(s, runsFirst) : s \in a[n]}
    BY <1>1, <1>2, <1>4, <2>1 DEF ArePasses
  <2>3. ASSUME NEW s, s.left \subseteq deadwood, NEW r \in LaidOff(s, runsFirst) PROVE r.left \subseteq deadwood
    <3> DEFINE Some(c) == IF runsFirst THEN Attach(c, s.melds) ELSE Homes(c, s.melds)
               moves == UNION {{[left |-> s.left \ {c}, melds |-> (s.melds \ {m}) \cup {m \cup {c}}] :
                                  m \in Some(c)} : c \in s.left}
    <3>1. r \in IF moves = {} THEN {s} ELSE moves
      BY <2>3, Zenon DEF LaidOff
    <3>2. r \in moves => \E c \in s.left : r.left = s.left \ {c}
      <4> HIDE DEF Some
      <4> QED OBVIOUS
    <3> HIDE DEF moves
    <3> QED BY <2>3, <3>1, <3>2
  <2> QED BY <2>2, <2>3
<1>5. k \in T
  <2> HIDE DEF T
  <2> QED BY <1>1, <1>3, <1>4, CountsOn
<1> QED BY <1>1, <1>2, <1>5 DEF ArePasses

\* What a defender is left with is a part of the hand.
LEMMA DefencesCount ==
  ASSUME NEW hand \in SUBSET GinDeck, NEW melds, NEW left \in Defences(hand, melds)
  PROVE  Pips(left) \in Nat
<1>1. PICK m : left \in Layoffs(Deadwood(hand, m), melds)
  BY DEF Defences
<1>2. Deadwood(hand, m) \in SUBSET GinDeck /\ IsFiniteSet(Deadwood(hand, m))
  BY GinAssumption, FS_Subset DEF Deadwood
<1>3. left \in SUBSET GinDeck
  BY <1>1, <1>2, LayoffsShrink DEF Layoffs
<1> QED BY <1>3, PipsCount

\* The clock's discard: a hand with something else than the card just taken has one.
LEMMA DiscardExists ==
  ASSUME NEW hand \in SUBSET GinDeck, NEW forbidden, hand \ {forbidden} # {}
  PROVE  /\ AutoDiscards(hand, forbidden) # {}
         /\ AutoDiscards(hand, forbidden) \subseteq hand \ {forbidden}
<1> DEFINE Loose(m) == Deadwood(hand, m) \ {forbidden}
           Priciest(cards) == {c \in cards : \A d \in cards : PipValue(d.rank) <= PipValue(c.rank)}
           Choice(m) == IF Loose(m) # {} THEN Priciest(Loose(m)) ELSE hand \ {forbidden}
<1>1. AutoDiscards(hand, forbidden) = UNION {Choice(m) : m \in BestSplits(hand)}
  BY DEF AutoDiscards
<1>2. \A m : Loose(m) \subseteq hand \ {forbidden}
  BY DEF Deadwood
<1>3. PICK b \in BestSplits(hand) : TRUE
  BY BestExists
<1>4. Choice(b) # {}
  <2>1. CASE Loose(b) = {}
    BY <2>1
  <2>2. CASE Loose(b) # {}
    <3> DEFINE L == Loose(b)
               f == [c \in L |-> PipValue(c.rank)]
    <3>1. L # {} /\ L \in SUBSET GinDeck /\ IsFiniteSet(L)
      BY <1>2, <2>2, GinAssumption, FS_Subset
    <3> HIDE DEF L
    <3>2. IntsOn(f, L)
      <4>1. \A c \in L : c.rank \in Nat
        BY <3>1, GinAssumption
      <4> QED BY <4>1 DEF PipValue, RunOrder, IntsOn
    <3>3. PICK x \in L : \A y \in L : f[y] <= f[x]
      <4> HIDE DEF f
      <4> QED BY <3>1, <3>2, SomeoneGreatest
    <3>4. x \in Priciest(L)
      BY <3>3
    <3> QED BY <2>2, <3>4 DEF L
  <2> QED BY <2>1, <2>2
<1>5. \A m : Choice(m) \subseteq hand \ {forbidden}
  BY <1>2
<1> HIDE DEF Choice
<1> QED BY <1>1, <1>3, <1>4, <1>5

-----------------------------------------------------------------------------
(* Gin rummy: the cards, the turns and the seats *)

\* Every deal reaches whoever sits at the table.
DealsReach(seats) ==
  \A n \in 1..MaxHands : \A d \in GinDeals(n) : \A p \in ToSet(seats) : d.hands[p] # {}

\* A table for two that is opened with gin rummy.
GinSpec ==
  /\ NewTable
  /\ \E seats \in Seq(Player) :
       IsInjective(seats) /\ Len(seats) = 2 /\ DealsReach(seats) /\ GinInit(seats)
  /\ [][GamesNext]_tvars

KnockOutcome ==
  [knocker : Player \cup {None}, winner : Player \cup {None}, delta : Int,
   melds : SUBSET SUBSET GinDeck, left : Nat, gin : BOOLEAN]

GinState ==
  [handPhase : {"Draw", "Discard", "Over"}, taken : GinDeck \cup {None}, firstActor : 0..1,
   handNumber : Nat, turns : Nat, totals : [Player -> Int], handComplete : BOOLEAN,
   matchComplete : BOOLEAN, result : KnockOutcome \cup {None}]

\* No card is in two places.
GinApart(h, stock, pile, face) ==
  /\ h \in [Player -> SUBSET GinDeck] /\ stock \subseteq GinDeck /\ pile \subseteq GinDeck
  /\ \A p, q \in Player : p # q => h[p] \cap h[q] = {}
  /\ \A p \in Player : h[p] \cap (stock \cup pile) = {}
  /\ stock \cap pile = {} /\ (face = None \/ face \in pile)

\* Every card is somewhere.
GinWhole(h, stock, pile) ==
  \A c \in GinDeck : c \in stock \cup pile \/ \E p \in Player : c \in h[p]

\* A hand of two cards or more, among them the one just taken off the pile, if any.
MayDiscard(hand, taken) == (\E c, d \in hand : c # d) /\ (taken = None \/ taken \in hand)

\* The phases of a hand: whoever draws can take the open card, and whoever discards holds
\* another card than the one that may not go.
GinHand(x, h, seats, face, who) ==
  /\ x.handPhase \in {"Draw", "Discard", "Over"}
  /\ ~x.matchComplete /\ (x.handComplete <=> x.handPhase = "Over")
  /\ x.handPhase = "Over" => x.handNumber < MaxHands
  /\ x.handPhase # "Over" => \A p \in seats : h[p] # {}
  /\ x.handPhase = "Draw" => face # None
  /\ x.handPhase = "Discard" => MayDiscard(h[who], x.taken)

GinInv ==
  /\ game = "gin_rummy" /\ phase \in {"Waiting", "Playing", "Finished"}
  /\ SeatsOk /\ extra \in GinState /\ GinApart(hands, deck, discard, top)
  /\ phase # "Finished" => Len(players) = 2 /\ leftPlayers = <<>> /\ DealsReach(players)
  /\ phase = "Finished" => Len(leftPlayers) <= 1
  /\ phase = "Waiting" => extra.handNumber = 0 /\ ~extra.matchComplete
  /\ phase = "Playing" =>
       /\ currentTurn \in 0..1 /\ GinHand(extra, hands, ToSet(players), top, OnTurn)
       /\ ~extra.handComplete => GinWhole(hands, deck, discard)

\* Whoever is on turn is one of the two.
LEMMA GinOnTurn ==
  ASSUME GinInv, phase = "Playing"
  PROVE  /\ OnTurn \in Player /\ OnTurn \in ToSet(players) /\ players \in Seq(Player)
         /\ SeatAt(0) \in ToSet(players) /\ SeatAt(1) \in ToSet(players)
         /\ ToSet(players) \subseteq Player /\ SeatOf(OnTurn) = currentTurn
<1>1. players \in Seq(Player) /\ Len(players) = 2 /\ currentTurn \in 0..1 /\ IsInjective(players)
  BY DEF GinInv, SeatsOk
<1>2. DOMAIN players = 1..2 /\ \A i \in 1..2 : players[i] \in Player
  BY <1>1
<1>3. ToSet(players) = {players[i] : i \in 1..2}
  BY <1>2 DEF ToSet
<1>4. SeatOf(OnTurn) = currentTurn
  <2>1. /\ currentTurn + 1 \in 1..Len(players)
        /\ \A i \in 1..Len(players) : players[i] = players[currentTurn + 1] => i = currentTurn + 1
    BY <1>1, <1>2 DEF IsInjective
  <2>2. PICK i : i = (CHOOSE j \in 1..Len(players) : players[j] = players[currentTurn + 1])
    OBVIOUS
  <2>3. i \in 1..Len(players) /\ players[i] = players[currentTurn + 1]
    BY <2>1, <2>2
  <2>4. i - 1 = currentTurn
    BY <1>1, <2>1, <2>3
  <2> QED BY <2>2, <2>4 DEF SeatOf, OnTurn, SeatAt
<1> QED BY <1>1, <1>2, <1>3, <1>4 DEF OnTurn, SeatAt

\* What a move leaves of the seats (submitActionLocked, applyNextTurnLocked).
LEMMA GinMoved ==
  ASSUME GinInv, phase = "Playing", NEW won, NEW order, NEW over \in Nat \cup {None},
         AfterMove(won, order, over)
  PROVE  /\ game' = game /\ players' = players /\ leftPlayers' = leftPlayers /\ SeatsOk'
         /\ won => phase' = "Finished"
         /\ ~won => phase' = "Playing" /\ currentTurn' \in 0..1
         /\ ~won /\ over = currentTurn => currentTurn' = currentTurn
<1>1. game' = game /\ players' = players /\ leftPlayers' = leftPlayers
  BY DEF AfterMove
<1>2. currentTurn \in 0..1 /\ Len(players) = 2 /\ None \notin Nat
  BY TableAssumption DEF GinInv
<1>3. ASSUME ~won PROVE phase' = "Playing" /\ currentTurn' \in 0..1 /\ (over = currentTurn => currentTurn' = currentTurn)
  <2>1. PlayOn(currentTurn + 1, over, 2)
    BY <1>2, <1>3 DEF AfterMove
  <2>2. phase' = phase /\ currentTurn' = (IF over = None THEN currentTurn + 1 ELSE over) % 2
    BY <2>1 DEF PlayOn, Clamp
  <2>3. (IF over = None THEN currentTurn + 1 ELSE over) \in Nat
    BY <1>2
  <2> QED BY <1>2, <2>2, <2>3
<1>4. won => phase' = "Finished"
  BY DEF AfterMove, Finish
<1> QED BY <1>1, <1>3, <1>4 DEF SeatsOk, GinInv

\* A move keeps the invariant if it leaves the hand in a state that may follow.
LEMMA GinMoveKeepsInv ==
  ASSUME GinInv, phase = "Playing", NEW won, NEW order, NEW over \in Nat \cup {None},
         AfterMove(won, order, over),
         extra' \in GinState, GinApart(hands', deck', discard', top'),
         ~won => GinHand(extra', hands', ToSet(players), top', SeatAt(currentTurn')),
         ~won /\ ~extra'.handComplete => GinWhole(hands', deck', discard')
  PROVE  GinInv'
<1>1. /\ game' = game /\ players' = players /\ leftPlayers' = leftPlayers /\ SeatsOk'
      /\ won => phase' = "Finished"
      /\ ~won => phase' = "Playing" /\ currentTurn' \in 0..1
  BY GinMoved
<1>2. Len(players) = 2 /\ leftPlayers = <<>> /\ DealsReach(players) /\ game = "gin_rummy"
  BY DEF GinInv
<1>3. OnTurn' = SeatAt(currentTurn')
  BY <1>1 DEF OnTurn, SeatAt
<1>4. DealsReach(players')
  BY <1>1, <1>2
<1>5. Len(leftPlayers') <= 1
  BY <1>1, <1>2
<1> QED BY <1>1, <1>2, <1>3, <1>4, <1>5 DEF GinInv

\* The end of a hand keeps it, whoever starts the next one.
LEMMA HandEndsKeepsInv ==
  ASSUME GinInv, phase = "Playing", NEW x, x \in GinState, HandEnds(x),
         GinApart(hands', deck', discard', top')
  PROVE  GinInv'
<1> DEFINE over == MatchOver(x)
           next == [x EXCEPT !.handComplete = TRUE, !.handPhase = "Over", !.matchComplete = over,
                             !.firstActor = IF over THEN @ ELSE 1 - @]
<1>1. extra' = next /\ AfterMove(over, GinStandings', next.firstActor)
  BY DEF HandEnds
<1>2. ~over => x.handNumber < MaxHands
  BY GinAssumption DEF MatchOver, GinState
<1>5. over \in BOOLEAN
  BY DEF MatchOver
<1> HIDE DEF over
<1>3. /\ next \in GinState /\ next.firstActor \in Nat /\ next.handPhase = "Over" /\ next.handComplete
      /\ next.handNumber = x.handNumber /\ next.matchComplete = over
  <2> DEFINE first == IF over THEN x.firstActor ELSE 1 - x.firstActor
  <2>1. first \in 0..1
    BY DEF GinState
  <2>2. next = [x EXCEPT !.handComplete = TRUE, !.handPhase = "Over", !.matchComplete = over,
                         !.firstActor = first]
    BY DEF GinState
  <2> HIDE DEF first, next
  <2>3. next \in GinState
    BY <1>5, <2>1, <2>2 DEF GinState
  <2>4. /\ next.firstActor = first /\ next.handPhase = "Over" /\ next.handComplete
        /\ next.handNumber = x.handNumber /\ next.matchComplete = over
    BY <2>2 DEF GinState
  <2> QED BY <2>1, <2>3, <2>4
<1>4. ~over => GinHand(next, hands', ToSet(players), top', SeatAt(currentTurn'))
  BY <1>2, <1>3 DEF GinHand
<1> HIDE DEF next
<1> QED BY <1>1, <1>3, <1>4, GinMoveKeepsInv

\* A new hand is dealt from a whole deck (beginHand).
LEMMA GinDealt ==
  ASSUME GinInv, NEW x, x \in GinState, x.handNumber + 1 \in 1..MaxHands, ~x.matchComplete,
         DealsReach(players), GinBeginHand(x), NEW who
  PROVE  /\ extra' \in GinState /\ GinApart(hands', deck', discard', top')
         /\ GinWhole(hands', deck', discard')
         /\ GinHand(extra', hands', ToSet(players), top', who)
<1>1. PICK d \in GinDeals(x.handNumber + 1) :
        /\ hands' = d.hands
        /\ deck' = GinDeck \ ({d.up} \cup Held(d.hands))
        /\ discard' = {d.up}
        /\ top' = d.up
        /\ extra' = [x EXCEPT !.handNumber = @ + 1, !.handPhase = "Draw", !.taken = None,
                              !.turns = 0, !.handComplete = FALSE, !.result = None]
  BY DEF GinBeginHand
<1>2. /\ d.hands \in [Player -> SUBSET GinDeck] /\ d.up \in GinDeck \ Held(d.hands)
      /\ \A p, q \in Player : p # q => d.hands[p] \cap d.hands[q] = {}
      /\ None \notin GinDeck /\ \A p \in ToSet(players) : d.hands[p] # {}
  BY GinAssumption DEF DealsReach
<1>3. \A c : c \in Held(d.hands) <=> \E p \in Player : c \in d.hands[p]
  BY <1>2 DEF Held, Range
<1>4. extra' \in GinState
  <2>1. x.handNumber + 1 \in Nat
    BY DEF GinState
  <2> QED BY <1>1, <2>1 DEF GinState
<1>5. GinApart(hands', deck', discard', top') /\ GinWhole(hands', deck', discard')
  <2>1. \A p \in Player : hands'[p] \cap (deck' \cup discard') = {}
    BY <1>1, <1>2, <1>3
  <2> QED BY <1>1, <1>2, <1>3, <2>1 DEF GinApart, GinWhole
<1>6. GinHand(extra', hands', ToSet(players), top', who)
  <2>1. extra'.handPhase = "Draw" /\ ~extra'.handComplete /\ ~extra'.matchComplete
    BY <1>1 DEF GinState
  <2>2. top' # None /\ \A p \in ToSet(players) : hands'[p] # {}
    BY <1>1, <1>2
  <2> QED BY <2>1, <2>2 DEF GinHand
<1> QED BY <1>4, <1>5, <1>6

\* The first hand of gin rummy is dealt (OnGameStart).
LEMMA GinStartStep ==
  ASSUME GinInv, NEW i \in 0..(Len(players) - 1), GinStart(i)
  PROVE  GinInv'
<1> DEFINE x == [extra EXCEPT !.firstActor = i]
<1>1. /\ phase = "Waiting" /\ GinBeginHand(x) /\ Opened(i) /\ Len(players) = 2 /\ leftPlayers = <<>>
      /\ DealsReach(players)
  BY DEF GinStart, GinInv
<1>2. x \in GinState /\ x.handNumber + 1 \in 1..MaxHands /\ ~x.matchComplete
  <2>1. extra \in GinState /\ extra.handNumber = 0 /\ ~extra.matchComplete /\ MaxHands \in Nat \ {0}
    BY <1>1, GinAssumption DEF GinInv
  <2>2. x.handNumber = 0 /\ ~x.matchComplete
    BY <2>1 DEF GinState
  <2> QED BY <1>1, <2>1, <2>2 DEF GinState
<1> HIDE DEF x
<1>3. /\ phase' = "Playing" /\ currentTurn' \in 0..1
      /\ game' = game /\ players' = players /\ leftPlayers' = leftPlayers
  BY <1>1 DEF Opened, Clamp
<1>4. /\ extra' \in GinState /\ GinApart(hands', deck', discard', top')
      /\ GinWhole(hands', deck', discard')
      /\ GinHand(extra', hands', ToSet(players), top', SeatAt(currentTurn'))
  BY <1>1, <1>2, GinDealt
<1>5. OnTurn' = SeatAt(currentTurn') /\ SeatsOk' /\ DealsReach(players')
  BY <1>1, <1>3 DEF OnTurn, SeatAt, SeatsOk, GinInv
<1> QED BY <1>1, <1>3, <1>4, <1>5 DEF GinInv

\* The next hand of gin rummy is dealt (beginHand).
LEMMA NextHandStep ==
  ASSUME GinInv, NEW p \in Player, NextGinHand(p)
  PROVE  GinInv'
<1>1. /\ phase = "Playing" /\ GinBeginHand(extra)
      /\ AfterMove(FALSE, GinStandings, extra.firstActor) /\ extra.handComplete
  BY DEF NextGinHand, MayAct
<1>2. /\ extra \in GinState /\ DealsReach(players) /\ ~extra.matchComplete
      /\ extra.handNumber < MaxHands
  BY <1>1 DEF GinInv, GinHand
<1>3. extra.firstActor \in Nat /\ extra.handNumber + 1 \in 1..MaxHands
  BY <1>2, GinAssumption DEF GinState
<1>4. /\ extra' \in GinState /\ GinApart(hands', deck', discard', top')
      /\ GinWhole(hands', deck', discard')
      /\ GinHand(extra', hands', ToSet(players), top', SeatAt(currentTurn'))
  BY <1>1, <1>2, <1>3, GinDealt
<1> QED BY <1>1, <1>3, <1>4, GinMoveKeepsInv

\* A card goes from the stock or the pile into the hand of whoever is on turn.
LEMMA DrawKeepsGinInv ==
  ASSUME GinInv, NEW p \in Player, MayAct(p), extra.handPhase = "Draw", NEW c, NEW t,
         c \in deck \/ c \in discard,
         hands' = [hands EXCEPT ![p] = @ \cup {c}],
         deck' = deck \ {c}, discard' = discard \ {c}, top' = None \/ (top' = top /\ c # top),
         extra' = [extra EXCEPT !.taken = t, !.handPhase = "Discard"], t = None \/ t = c,
         AfterMove(FALSE, GinStandings, currentTurn)
  PROVE  GinInv'
<1>1. /\ phase = "Playing" /\ p = OnTurn /\ p \in ToSet(players) /\ currentTurn \in Nat
      /\ extra \in GinState /\ GinApart(hands, deck, discard, top)
      /\ GinHand(extra, hands, ToSet(players), top, p) /\ ToSet(players) \subseteq Player
  BY GinOnTurn DEF MayAct, GinInv
<1>2. ~extra.handComplete /\ GinWhole(hands, deck, discard)
  BY <1>1 DEF GinInv, GinHand
<1>3. c \in GinDeck /\ \A q \in Player : hands'[q] = IF q = p THEN hands[p] \cup {c} ELSE hands[q]
  BY <1>1 DEF GinApart
<1>4. extra' \in GinState /\ extra'.handPhase = "Discard" /\ extra'.taken = t /\ ~extra'.handComplete
      /\ ~extra'.matchComplete
  BY <1>1, <1>2, <1>3 DEF GinState, GinHand
<1>5. GinApart(hands', deck', discard', top')
  <2>1. hands' \in [Player -> SUBSET GinDeck] /\ deck' \subseteq GinDeck /\ discard' \subseteq GinDeck
    BY <1>1, <1>3 DEF GinApart
  <2>2. \A q, r \in Player : q # r => hands'[q] \cap hands'[r] = {}
    BY <1>1, <1>3 DEF GinApart
  <2>3. \A q \in Player : hands'[q] \cap (deck' \cup discard') = {}
    BY <1>1, <1>3 DEF GinApart
  <2>4. deck' \cap discard' = {} /\ (top' = None \/ top' \in discard')
    BY <1>1 DEF GinApart
  <2> QED BY <2>1, <2>2, <2>3, <2>4 DEF GinApart
<1>6. GinWhole(hands', deck', discard')
  BY <1>2, <1>3 DEF GinWhole
<1>7. currentTurn' = currentTurn /\ SeatAt(currentTurn') = p
  BY <1>1, GinMoved DEF OnTurn
<1>8. MayDiscard(hands'[p], t)
  <2>1. PICK d \in hands[p] : TRUE
    BY <1>1 DEF GinHand
  <2>2. c # d
    BY <1>1 DEF GinApart
  <2> QED BY <1>3, <2>1, <2>2 DEF MayDiscard
<1>9. \A q \in ToSet(players) : hands'[q] # {}
  BY <1>1, <1>3 DEF GinHand
<1>10. GinHand(extra', hands', ToSet(players), top', SeatAt(currentTurn'))
  BY <1>4, <1>7, <1>8, <1>9 DEF GinHand
<1> QED BY <1>1, <1>4, <1>5, <1>6, <1>10, GinMoveKeepsInv

\* A card is drawn off the stock (ApplyAction).
LEMMA DrawStockStep ==
  ASSUME GinInv, NEW p \in Player, DrawStock(p)
  PROVE  GinInv'
<1>1. PICK c \in deck : hands' = [hands EXCEPT ![p] = @ \cup {c}] /\ deck' = deck \ {c}
  BY DEF DrawStock
<1>2. GinApart(hands, deck, discard, top)
  BY DEF GinInv
<1>3. discard' = discard \ {c} /\ (top' = None \/ (top' = top /\ c # top))
  BY <1>2 DEF DrawStock, GinApart
<1> QED BY <1>1, <1>3, DrawKeepsGinInv DEF DrawStock

\* The top of the pile is taken (ApplyAction).
LEMMA DrawDiscardStep ==
  ASSUME GinInv, NEW p \in Player, DrawDiscard(p)
  PROVE  GinInv'
<1>1. top \in discard /\ deck' = deck \ {top}
  BY DEF DrawDiscard, GinInv, GinApart
<1> QED BY <1>1, DrawKeepsGinInv DEF DrawDiscard

\* A card leaves the hand of whoever is on turn for a pile, or for good.
LEMMA DropKeepsApart ==
  ASSUME GinInv, NEW p \in Player, NEW c \in hands[p], NEW pile, NEW face,
         pile \subseteq discard \cup {c}, face = None \/ face \in pile
  PROVE  GinApart([hands EXCEPT ![p] = @ \ {c}], deck, pile, face)
<1> DEFINE h == [hands EXCEPT ![p] = @ \ {c}]
<1>1. GinApart(hands, deck, discard, top)
  BY DEF GinInv
<1>2. \A q \in Player : h[q] = IF q = p THEN hands[p] \ {c} ELSE hands[q]
  BY <1>1 DEF GinApart
<1>3. c \in GinDeck /\ c \notin deck \cup discard /\ \A q \in Player : q # p => c \notin hands[q]
  BY <1>1 DEF GinApart
<1>4. h \in [Player -> SUBSET GinDeck] /\ deck \subseteq GinDeck /\ pile \subseteq GinDeck
  BY <1>1, <1>3 DEF GinApart
<1>5. \A q, r \in Player : q # r => h[q] \cap h[r] = {}
  BY <1>1, <1>2 DEF GinApart
<1>6. \A q \in Player : h[q] \cap (deck \cup pile) = {}
  BY <1>1, <1>2, <1>3 DEF GinApart
<1>7. deck \cap pile = {}
  BY <1>1, <1>3 DEF GinApart
<1> QED BY <1>4, <1>5, <1>6, <1>7 DEF GinApart

\* A card is thrown away; the hand may end at the wall (ApplyAction, settleWall).
LEMMA DiscardStep ==
  ASSUME GinInv, NEW p \in Player, NEW c \in GinDeck, DiscardCard(p, c)
  PROVE  GinInv'
<1> DEFINE x == [extra EXCEPT !.taken = None, !.turns = @ + 1, !.handPhase = "Draw"]
<1>1. /\ MayAct(p) /\ extra.handPhase = "Discard" /\ c \in hands[p] /\ c # extra.taken
      /\ hands' = [hands EXCEPT ![p] = @ \ {c}] /\ discard' = discard \cup {c}
      /\ top' = c /\ deck' = deck
      /\ \/ extra' = x /\ AfterMove(FALSE, GinStandings, None)
         \/ HandEnds([x EXCEPT !.result = WallResult])
  BY DEF DiscardCard
<1>2. /\ phase = "Playing" /\ p = OnTurn /\ ToSet(players) \subseteq Player
      /\ extra \in GinState /\ GinApart(hands, deck, discard, top)
      /\ GinHand(extra, hands, ToSet(players), top, p)
  BY <1>1, GinOnTurn DEF MayAct, GinInv
<1>3. ~extra.handComplete /\ ~extra.matchComplete /\ GinWhole(hands, deck, discard)
  BY <1>1, <1>2 DEF GinInv, GinHand
<1>4. /\ x \in GinState /\ [x EXCEPT !.result = WallResult] \in GinState
      /\ x.handPhase = "Draw" /\ ~x.handComplete /\ ~x.matchComplete
  <2>1. WallResult \in KnockOutcome
    BY DEF WallResult, KnockOutcome
  <2> HIDE DEF x
  <2>2. x \in GinState => [x EXCEPT !.result = WallResult] \in GinState
    BY <2>1 DEF GinState
  <2>3. x \in GinState
    <3>1. extra.turns + 1 \in Nat
      BY <1>2 DEF GinState
    <3> QED BY <1>2, <3>1 DEF GinState, x
  <2>4. x.handPhase = "Draw" /\ ~x.handComplete /\ ~x.matchComplete
    BY <1>2, <1>3 DEF GinState, x
  <2> QED BY <2>2, <2>3, <2>4
<1> HIDE DEF x
<1>5. GinApart(hands', deck', discard', top')
  BY <1>1, DropKeepsApart
<1>6. CASE HandEnds([x EXCEPT !.result = WallResult])
  BY <1>2, <1>4, <1>5, <1>6, HandEndsKeepsInv
<1>7. CASE extra' = x /\ AfterMove(FALSE, GinStandings, None)
  <2>1. \A q \in Player : hands'[q] = IF q = p THEN hands[p] \ {c} ELSE hands[q]
    BY <1>1, <1>2 DEF GinApart
  <2>2. GinWhole(hands', deck', discard')
    BY <1>1, <1>3, <2>1 DEF GinWhole
  <2>3. \A q \in ToSet(players) : hands'[q] # {}
    <3>1. hands[p] \ {c} # {}
      BY <1>1, <1>2 DEF GinHand, MayDiscard
    <3> QED BY <1>1, <1>2, <2>1, <3>1 DEF GinHand
  <2>4. GinHand(extra', hands', ToSet(players), top', SeatAt(currentTurn'))
    <3>1. top' # None
      BY <1>1, GinAssumption
    <3> QED BY <1>4, <1>7, <2>3, <3>1 DEF GinHand
  <2> QED BY <1>2, <1>4, <1>5, <1>7, <2>2, <2>4, GinMoveKeepsInv
<1> QED BY <1>1, <1>6, <1>7

\* A meld is a part of the hand.
LEMMA CandidatesOfHand ==
  ASSUME NEW hand PROVE Candidates(hand) \subseteq SUBSET hand
<1>1. Sets(hand) \subseteq SUBSET hand
  BY DEF Sets
<1>2. Runs(hand) \subseteq SUBSET hand
  BY DEF Runs, OfSuit
<1> QED BY <1>1, <1>2 DEF Candidates

\* What a knock settles keeps the record of the match.
LEMMA SettledRecord ==
  ASSUME extra \in GinState, NEW r \in KnockOutcome, r.winner \in Player
  PROVE  [extra EXCEPT !.taken = None, !.result = r, !.totals[r.winner] = @ + r.delta] \in GinState
<1> DEFINE w == r.winner
           totals == [extra.totals EXCEPT ![w] = @ + r.delta]
<1>1. totals \in [Player -> Int]
  BY DEF GinState, KnockOutcome
<1>2. [extra EXCEPT !.taken = None, !.result = r, !.totals[r.winner] = @ + r.delta]
        = [extra EXCEPT !.taken = None, !.result = r, !.totals = totals]
  BY DEF GinState
<1> HIDE DEF totals
<1> QED BY <1>1, <1>2 DEF GinState

\* A knock ends the hand, and perhaps the match (applyKnock).
LEMMA KnockStep ==
  ASSUME GinInv, NEW p \in Player, NEW c \in GinDeck, Knock(p, c)
  PROVE  GinInv'
<1> DEFINE rest == hands[p] \ {c}
           mine == LeastDeadwood(rest)
           theirs == hands[Opponent(p)]
           settled(r) == [extra EXCEPT !.taken = None, !.result = r, !.totals[r.winner] = @ + r.delta]
<1>1. /\ MayAct(p) /\ c \in hands[p]
      /\ hands' = [hands EXCEPT ![p] = rest] /\ discard' = {} /\ top' = None /\ deck' = deck
      /\ \E melds \in BestSplits(rest) :
           \/ HandEnds(settled(GinOutcome(p, melds)))
           \/ \E left \in Defences(theirs, melds) :
                HandEnds(settled(LayoffOutcome(p, melds, mine, Pips(left))))
  BY DEF Knock
<1>2. /\ phase = "Playing" /\ p = OnTurn /\ ToSet(players) \subseteq Player
      /\ extra \in GinState /\ GinApart(hands, deck, discard, top)
  BY <1>1, GinOnTurn DEF MayAct, GinInv
<1>3. Opponent(p) \in Player
  <2>1. SeatOf(p) \in 0..1 /\ SeatAt(0) \in Player /\ SeatAt(1) \in Player
    BY <1>2, GinOnTurn DEF GinInv
  <2> QED BY <2>1 DEF Opponent
<1>4. mine \in Nat /\ theirs \in SUBSET GinDeck /\ LeastDeadwood(theirs) \in Nat
  <2>1. rest \in SUBSET GinDeck /\ theirs \in SUBSET GinDeck
    BY <1>2, <1>3 DEF GinApart
  <2> QED BY <2>1, BestExists
<1>5. GinApart(hands', deck', discard', top')
  <2>1. hands' = [hands EXCEPT ![p] = @ \ {c}]
    BY <1>1, <1>2 DEF GinApart
  <2>2. {} \subseteq discard \cup {c}
    OBVIOUS
  <2>3. GinApart([hands EXCEPT ![p] = @ \ {c}], deck, {}, None)
    BY <1>1, <2>2, DropKeepsApart
  <2> QED BY <1>1, <2>1, <2>3
<1>6. PICK melds \in BestSplits(rest) :
           \/ HandEnds(settled(GinOutcome(p, melds)))
           \/ \E left \in Defences(theirs, melds) :
                HandEnds(settled(LayoffOutcome(p, melds, mine, Pips(left))))
  BY <1>1
<1> HIDE DEF mine, theirs
<1>7. melds \in SUBSET SUBSET GinDeck
  <2>1. rest \in SUBSET GinDeck
    BY <1>2 DEF GinApart
  <2> HIDE DEF rest
  <2>2. melds \subseteq Candidates(rest)
    BY <1>6 DEF BestSplits, Splits
  <2> QED BY <2>1, <2>2, CandidatesOfHand
<1> HIDE DEF rest
<1>8. CASE HandEnds(settled(GinOutcome(p, melds)))
  <2> DEFINE r == GinOutcome(p, melds)
  <2>1. r \in KnockOutcome /\ r.winner \in Player
    BY <1>4, <1>7 DEF GinOutcome, GinBonus, KnockOutcome, theirs
  <2> HIDE DEF r
  <2>2. settled(r) \in GinState
    BY <1>2, <2>1, SettledRecord
  <2> HIDE DEF settled
  <2> QED BY <1>2, <1>5, <1>8, <2>2, HandEndsKeepsInv DEF r
<1>9. ASSUME NEW left \in Defences(theirs, melds),
             HandEnds(settled(LayoffOutcome(p, melds, mine, Pips(left))))
      PROVE  GinInv'
  <2> DEFINE r == LayoffOutcome(p, melds, mine, Pips(left))
  <2>1. Pips(left) \in Nat
    BY <1>4, <1>9, DefencesCount
  <2>2. r \in KnockOutcome /\ r.winner \in Player
    BY <1>3, <1>4, <1>7, <2>1 DEF LayoffOutcome, UndercutBonus, KnockOutcome
  <2> HIDE DEF r
  <2>3. settled(r) \in GinState
    BY <1>2, <2>2, SettledRecord
  <2> HIDE DEF settled
  <2> QED BY <1>2, <1>5, <1>9, <2>3, HandEndsKeepsInv DEF r
<1> QED BY <1>6, <1>8, <1>9

\* A leaver leaves one seat, and the match is over (removePlayerLocked).
LEMMA GinLeaveStep ==
  ASSUME GinInv, NEW p \in Player, GinLeave(p)
  PROVE  GinInv'
<1>1. /\ phase = "Playing" /\ Seated(p) /\ AfterLeave(p, extra.matchComplete, GinStandings', None)
      /\ UNCHANGED <<hands, deck, discard, top, extra>>
  BY DEF GinLeave, piles
<1>2. players' = SeatsWithout(p) /\ leftPlayers' = Append(leftPlayers, p) /\ game' = game
  BY <1>1 DEF AfterLeave
<1>3. SeatsOk' /\ Len(players') = Len(players) - 1
  BY <1>1, <1>2, SeatsAfterLeave DEF GinInv
<1>4. Len(players) = 2 /\ leftPlayers = <<>>
  BY <1>1 DEF GinInv
<1>5. phase' = "Finished"
  <2>1. Len(SeatsWithout(p)) = 1
    BY <1>2, <1>3, <1>4
  <2> QED BY <1>1, <2>1 DEF AfterLeave, Finish, Forfeited
<1>6. Len(leftPlayers') <= 1
  BY <1>2, <1>4
<1> QED BY <1>1, <1>2, <1>3, <1>5, <1>6 DEF GinInv

\* Every step of gin rummy keeps the invariant.
LEMMA GinStep ==
  ASSUME GinInv, GamesNext
  PROVE  GinInv' /\ GinNext
<1>1. GinNext
  <2>1. game = "gin_rummy"
    BY DEF GinInv
  <2>2. ~UnoNext /\ ~EightsNext /\ ~HeartsNext /\ ~PokerNext
    BY <2>1 DEF UnoNext, EightsNext, HeartsNext, PokerNext
  <2> QED BY <2>2 DEF GamesNext
<1>2. \/ \E i \in 0..(Len(players) - 1) : GinStart(i)
      \/ \E p \in Player : DrawStock(p) \/ DrawDiscard(p) \/ NextGinHand(p) \/ GinLeave(p)
      \/ \E p \in Player, c \in GinDeck : DiscardCard(p, c) \/ Knock(p, c)
  BY <1>1 DEF GinNext
<1> QED BY <1>1, <1>2, GinStartStep, NextHandStep, DrawStockStep, DrawDiscardStep, DiscardStep, KnockStep, GinLeaveStep

\* The inductive invariant of gin rummy.
THEOREM GinCorrect == GinSpec => []GinInv
<1>1. /\ NewTable
      /\ \E seats \in Seq(Player) :
           IsInjective(seats) /\ Len(seats) = 2 /\ DealsReach(seats) /\ GinInit(seats)
      => GinInv
  <2> SUFFICES ASSUME NewTable, NEW seats \in Seq(Player), IsInjective(seats), Len(seats) = 2,
                      DealsReach(seats), GinInit(seats)
               PROVE  GinInv
    OBVIOUS
  <2>1. players = seats /\ leftPlayers = <<>> /\ phase = "Waiting" /\ game = "gin_rummy"
    BY DEF NewTable, GinInit
  <2>2. SeatsOk
    <3>1. leftPlayers \in Seq(Player) /\ IsInjective(leftPlayers) /\ ToSet(leftPlayers) = {}
      BY <2>1 DEF IsInjective, ToSet
    <3> QED BY <2>1, <3>1 DEF SeatsOk
  <2>3. extra \in GinState /\ extra.handNumber = 0 /\ ~extra.matchComplete
    BY DEF GinInit, GinState
  <2>4. GinApart(hands, deck, discard, top)
    BY DEF NewTable, GinApart
  <2> QED BY <2>1, <2>2, <2>3, <2>4 DEF GinInv
<1>2. GinInv /\ [GamesNext]_tvars => GinInv'
  <2> SUFFICES ASSUME GinInv, [GamesNext]_tvars PROVE GinInv'
    OBVIOUS
  <2>1. CASE UNCHANGED tvars
    BY <2>1 DEF tvars, seating, piles, GinInv, SeatsOk, OnTurn, SeatAt
  <2> QED BY <2>1, GinStep
<1> QED BY <1>1, <1>2, PTL DEF GinSpec

-----------------------------------------------------------------------------
(* Gin rummy: melds *)

\* Cards of one rank; cards of one suit with no rank missing between any two of them.
OneRank(m) == \A c, d \in m : c.rank = d.rank
Stretch(m) == \A c, d \in m : c.suit = d.suit /\ \A k \in c.rank..d.rank : \E e \in m : e.rank = k

\* Three that differ.
ThreeOf(m) == \E x, y, z \in m : x # y /\ x # z /\ y # z

\* Three cards are three that differ.
LEMMA ThreeCounted ==
  ASSUME NEW m, IsFiniteSet(m)
  PROVE  Cardinality(m) >= 3 <=> ThreeOf(m)
<1>1. Cardinality(m) \in Nat
  BY FS_CardinalityType
<1>2. ASSUME Cardinality(m) >= 3 PROVE ThreeOf(m)
  <2>1. m # {}
    BY <1>2, FS_EmptySet
  <2>2. PICK x \in m : TRUE
    BY <2>1
  <2>3. PICK n : n = m \ {x}
    OBVIOUS
  <2>4. IsFiniteSet(n) /\ Cardinality(n) = Cardinality(m) - 1
    BY <2>2, <2>3, FS_RemoveElement
  <2>5. n # {}
    BY <1>1, <1>2, <2>4, FS_EmptySet
  <2>6. PICK y \in n : TRUE
    BY <2>5
  <2>7. Cardinality(n \ {y}) = Cardinality(n) - 1
    BY <2>4, <2>6, FS_RemoveElement
  <2>8. PICK o : o = n \ {y}
    OBVIOUS
  <2>9. o # {}
    BY <1>1, <1>2, <2>4, <2>7, <2>8, FS_EmptySet
  <2> QED BY <2>2, <2>3, <2>6, <2>8, <2>9 DEF ThreeOf
<1>3. ASSUME ThreeOf(m) PROVE Cardinality(m) >= 3
  <2>1. PICK x, y, z \in m : x # y /\ x # z /\ y # z
    BY <1>3 DEF ThreeOf
  <2>2. PICK a, b : a = m \ {x} /\ b = a \ {y}
    OBVIOUS
  <2>3. IsFiniteSet(a) /\ Cardinality(a) = Cardinality(m) - 1
    BY <2>1, <2>2, FS_RemoveElement
  <2>4. IsFiniteSet(b) /\ Cardinality(b) = Cardinality(a) - 1
    BY <2>1, <2>2, <2>3, FS_RemoveElement
  <2>5. IsFiniteSet(b \ {z}) /\ Cardinality(b \ {z}) = Cardinality(b) - 1
    BY <2>1, <2>2, <2>4, FS_RemoveElement
  <2>6. Cardinality(b \ {z}) \in Nat
    BY <2>5, FS_CardinalityType
  <2> QED BY <1>1, <2>3, <2>4, <2>5, <2>6
<1> QED BY <1>2, <1>3

\* There are no more than four of a rank.
LEMMA FourOfRank ==
  ASSUME NEW m \in SUBSET GinDeck, OneRank(m)
  PROVE  IsFiniteSet(m) /\ Cardinality(m) \in 0..4
<1> DEFINE suits == {c.suit : c \in GinDeck}
<1>1. IsFiniteSet(suits) /\ Cardinality(suits) <= 4 /\ IsFiniteSet(m)
  <2>1. PICK f : f = [c \in GinDeck |-> c.suit]
    OBVIOUS
  <2>2. f \in Surjection(GinDeck, suits)
    BY <2>1 DEF Surjection
  <2> HIDE DEF suits
  <2>3. IsFiniteSet(suits)
    BY <2>2, GinAssumption, FS_Surjection
  <2> QED BY <2>3, GinAssumption, FS_Subset DEF suits
<1>2. PICK g : g = [c \in m |-> c.suit]
  OBVIOUS
<1>3. g \in Injection(m, suits)
  <2>1. g \in [m -> suits]
    BY <1>2
  <2>2. \A c, d \in m : g[c] = g[d] => c = d
    BY <1>2, GinAssumption DEF OneRank
  <2> HIDE DEF suits
  <2> QED BY <2>1, <2>2 DEF Injection, IsInjective
<1> HIDE DEF suits
<1>4. Cardinality(m) <= Cardinality(suits)
  BY <1>1, <1>3, FS_Injection
<1>5. Cardinality(m) \in Nat /\ Cardinality(suits) \in Nat
  BY <1>1, FS_CardinalityType
<1> QED BY <1>1, <1>4, <1>5

\* A set: three cards of one rank.
LEMMA SetIs ==
  ASSUME NEW m \in SUBSET GinDeck
  PROVE  IsSet(m) <=> ThreeOf(m) /\ OneRank(m)
<1> DEFINE ranks == {c.rank : c \in m}
<1>1. IsFiniteSet(m)
  BY GinAssumption, FS_Subset
<1>2. ASSUME IsSet(m) PROVE ThreeOf(m) /\ OneRank(m)
  <2>1. Cardinality(m) >= 3 /\ Cardinality(ranks) = 1
    BY <1>2 DEF IsSet
  <2>2. IsFiniteSet(ranks)
    <3>1. PICK f : f = [c \in m |-> c.rank]
      OBVIOUS
    <3>2. f \in Surjection(m, ranks)
      BY <3>1 DEF Surjection
    <3> HIDE DEF ranks
    <3> QED BY <1>1, <3>2, FS_Surjection
  <2>3. PICK r : ranks = {r}
    <3> HIDE DEF ranks
    <3> QED BY <2>1, <2>2, FS_Singleton
  <2>4. \A c \in m : c.rank = r
    BY <2>3
  <2> QED BY <1>1, <2>1, <2>4, ThreeCounted DEF OneRank
<1>3. ASSUME ThreeOf(m), OneRank(m) PROVE IsSet(m)
  <2>1. Cardinality(m) \in 3..4
    BY <1>1, <1>3, ThreeCounted, FourOfRank
  <2>2. PICK x \in m : TRUE
    BY <1>3 DEF ThreeOf
  <2>3. ranks = {x.rank}
    BY <1>3, <2>2 DEF OneRank
  <2>4. Cardinality(ranks) = 1
    BY <2>3, FS_Singleton
  <2> QED BY <2>1, <2>4 DEF IsSet
<1> QED BY <1>2, <1>3

\* A finite set of ranks has a lowest and a highest.
LEMMA EndsOf ==
  ASSUME NEW S, S \subseteq Nat, S # {}, IsFiniteSet(S)
  PROVE  Min(S) \in S /\ Max(S) \in S /\ \A y \in S : Min(S) <= y /\ y <= Max(S)
<1>1. \E x \in S : \A y \in S : x =< y
  BY NatHasLeast
<1>2. PICK f : f = [x \in S |-> x]
  OBVIOUS
<1>3. IntsOn(f, S)
  BY <1>2 DEF IntsOn
<1>4. PICK g \in S : \A y \in S : f[y] <= f[g]
  BY <1>3, SomeoneGreatest
<1>5. \A y \in S : g >= y
  BY <1>2, <1>4
<1>6. Min(S) \in S /\ \A y \in S : Min(S) =< y
  BY <1>1, Zenon DEF Min
<1>7. Max(S) \in S /\ \A y \in S : Max(S) >= y
  BY <1>5, Zenon DEF Max
<1> QED BY <1>6, <1>7

\* A run: three cards in a stretch.
LEMMA RunIs ==
  ASSUME NEW m \in SUBSET GinDeck
  PROVE  IsRun(m) <=> ThreeOf(m) /\ Stretch(m)
<1> DEFINE suits == {c.suit : c \in m}
           orders == {RunOrder(c.rank) : c \in m}
<1>1. IsFiniteSet(m) /\ \A c \in m : c.rank \in Nat
  BY GinAssumption, FS_Subset
<1>2. \A k : k \in orders <=> \E c \in m : c.rank = k
  BY DEF RunOrder
<1>3. PICK f : f = [c \in m |-> c.rank]
  OBVIOUS
<1>4. f \in Surjection(m, orders) /\ IsFiniteSet(orders) /\ orders \subseteq Nat
  <2>1. f \in Surjection(m, orders)
    BY <1>3 DEF Surjection, RunOrder
  <2>2. orders \subseteq Nat
    BY <1>1, <1>2
  <2> HIDE DEF orders
  <2> QED BY <1>1, <2>1, <2>2, FS_Surjection
<1>5. ASSUME ThreeOf(m)
      PROVE  /\ Min(orders) \in orders /\ Max(orders) \in orders
             /\ \A y \in orders : Min(orders) <= y /\ y <= Max(orders)
  <2>1. orders # {}
    BY <1>2, <1>5 DEF ThreeOf
  <2> HIDE DEF orders
  <2> QED BY <1>4, <2>1, EndsOf
<1>6. ASSUME IsRun(m) PROVE ThreeOf(m) /\ Stretch(m)
  <2>1. Cardinality(m) >= 3 /\ Cardinality(suits) = 1 /\ orders = Min(orders)..Max(orders)
    BY <1>6 DEF IsRun
  <2>2. ThreeOf(m)
    BY <1>1, <2>1, ThreeCounted
  <2>3. \A c, d \in m : c.suit = d.suit
    <3>1. PICK g : g = [c \in m |-> c.suit]
      OBVIOUS
    <3>2. g \in Surjection(m, suits)
      BY <3>1 DEF Surjection
    <3>3. PICK t : suits = {t}
      <4> HIDE DEF suits
      <4>1. IsFiniteSet(suits)
        BY <1>1, <3>2, FS_Surjection
      <4> QED BY <2>1, <4>1, FS_Singleton
    <3>4. \A c \in m : c.suit = t
      BY <3>3
    <3> QED BY <3>4
  <2>4. ASSUME NEW c \in m, NEW d \in m, NEW k \in c.rank..d.rank PROVE \E e \in m : e.rank = k
    <3>1. c.rank \in orders /\ d.rank \in orders
      BY <1>2
    <3> HIDE DEF orders
    <3>2. Min(orders) <= c.rank /\ d.rank <= Max(orders) /\ Min(orders) \in Nat /\ Max(orders) \in Nat
      BY <1>4, <1>5, <2>2, <3>1
    <3>3. k \in Min(orders)..Max(orders)
      BY <1>1, <3>2
    <3> QED BY <1>2, <2>1, <3>3
  <2> QED BY <2>2, <2>3, <2>4 DEF Stretch
<1>7. ASSUME ThreeOf(m), Stretch(m) PROVE IsRun(m)
  <2>1. Cardinality(m) >= 3
    BY <1>1, <1>7, ThreeCounted
  <2>2. PICK x \in m : TRUE
    BY <1>7 DEF ThreeOf
  <2>3. suits = {x.suit}
    BY <1>7, <2>2 DEF Stretch
  <2>4. Cardinality(suits) = 1
    BY <2>3, FS_Singleton
  <2>5. orders = Min(orders)..Max(orders)
    <3>1. PICK c, d \in m : c.rank = Min(orders) /\ d.rank = Max(orders)
      BY <1>2, <1>5, <1>7
    <3>2. \A k \in Min(orders)..Max(orders) : k \in orders
      BY <1>2, <1>7, <3>1 DEF Stretch
    <3> HIDE DEF orders
    <3>3. \A k \in orders : k \in Min(orders)..Max(orders)
      <4>1. Min(orders) \in Nat /\ Max(orders) \in Nat
        BY <1>4, <1>5, <1>7
      <4> QED BY <1>4, <1>5, <1>7, <4>1
    <3> QED BY <3>2, <3>3
  <2>6. Cardinality(orders) = Cardinality(m)
    <3>1. \A c, d \in m : c.rank = d.rank => c = d
      BY <1>7, GinAssumption DEF Stretch
    <3> HIDE DEF orders
    <3>2. f \in Injection(m, orders)
      BY <1>3, <1>4, <3>1 DEF Surjection, Injection, IsInjective
    <3> QED BY <1>4, <3>2, FS_Injection
  <2> QED BY <2>1, <2>4, <2>5, <2>6 DEF IsRun
<1> QED BY <1>6, <1>7

\* The search for runs finds them all: from a lowest card, up to any that nothing is missing to.
LEMMA RunsAre ==
  ASSUME NEW hand \in SUBSET GinDeck, NEW m \in SUBSET GinDeck
  PROVE  m \in Runs(hand) <=> m \subseteq hand /\ IsRun(m)
<1> DEFINE UpTo(a, b) == {c \in OfSuit(hand, a.suit) : c.rank \in a.rank..b.rank}
           Block(a, b) == b.rank >= a.rank + 2 /\ a.rank..b.rank = {c.rank : c \in UpTo(a, b)}
<1>1. m \in Runs(hand) <=> \E a \in hand : \E b \in OfSuit(hand, a.suit) : Block(a, b) /\ m = UpTo(a, b)
  BY DEF Runs, RunOrder
<1>2. \A c \in hand : c.rank \in Nat
  BY GinAssumption
<1>3. \A a, b, c : c \in UpTo(a, b) <=> c \in hand /\ c.suit = a.suit /\ c.rank \in a.rank..b.rank
  BY DEF OfSuit
<1>4. ASSUME NEW a \in hand, NEW b \in OfSuit(hand, a.suit), Block(a, b), m = UpTo(a, b)
      PROVE  m \subseteq hand /\ IsRun(m)
  <2>1. \A k \in a.rank..b.rank : \E c \in m : c.rank = k
    BY <1>4
  <2>2. a.rank \in Nat /\ b.rank \in Nat /\ b.rank >= a.rank + 2
    BY <1>2, <1>4 DEF OfSuit
  <2>3. ThreeOf(m)
    <3>1. a.rank \in a.rank..b.rank /\ a.rank + 1 \in a.rank..b.rank /\ a.rank + 2 \in a.rank..b.rank
      BY <2>2
    <3>2. PICK x, y, z \in m : x.rank = a.rank /\ y.rank = a.rank + 1 /\ z.rank = a.rank + 2
      BY <2>1, <3>1
    <3> QED BY <2>2, <3>2 DEF ThreeOf
  <2>4. Stretch(m)
    <3> SUFFICES ASSUME NEW c \in m, NEW d \in m
                 PROVE  c.suit = d.suit /\ \A k \in c.rank..d.rank : \E e \in m : e.rank = k
      BY DEF Stretch
    <3>1. /\ c.suit = a.suit /\ c.rank \in a.rank..b.rank /\ d.suit = a.suit /\ d.rank \in a.rank..b.rank
      BY <1>3, <1>4
    <3>2. \A k \in c.rank..d.rank : k \in a.rank..b.rank
      BY <2>2, <3>1
    <3> QED BY <2>1, <3>1, <3>2
  <2> QED BY <1>3, <1>4, <2>3, <2>4, RunIs
<1>5. ASSUME m \subseteq hand, IsRun(m)
      PROVE  \E a \in hand : \E b \in OfSuit(hand, a.suit) : Block(a, b) /\ m = UpTo(a, b)
  <2>1. ThreeOf(m) /\ Stretch(m)
    BY <1>5, RunIs
  <2>2. PICK ranks : ranks = {c.rank : c \in m}
    OBVIOUS
  <2>3. ranks \subseteq Nat /\ ranks # {} /\ IsFiniteSet(ranks)
    <3>1. PICK f : f = [c \in m |-> c.rank]
      OBVIOUS
    <3>2. f \in Surjection(m, ranks)
      BY <2>2, <3>1 DEF Surjection
    <3>3. IsFiniteSet(m)
      BY GinAssumption, FS_Subset
    <3> QED BY <1>2, <1>5, <2>1, <2>2, <3>2, <3>3, FS_Surjection DEF ThreeOf
  <2>4. PICK a, b \in m : \A c \in m : a.rank <= c.rank /\ c.rank <= b.rank
    <3>1. PICK lo, hi : lo \in ranks /\ hi \in ranks /\ \A y \in ranks : lo <= y /\ y <= hi
      <4>1. Min(ranks) \in ranks /\ Max(ranks) \in ranks /\ \A y \in ranks : Min(ranks) <= y /\ y <= Max(ranks)
        BY <2>3, EndsOf
      <4> QED BY <4>1
    <3>2. \A c \in m : c.rank \in ranks
      BY <2>2
    <3>3. PICK a \in m : a.rank = lo
      BY <2>2, <3>1
    <3>4. PICK b \in m : b.rank = hi
      BY <2>2, <3>1
    <3> QED BY <3>1, <3>2, <3>3, <3>4
  <2>5. a \in hand /\ b \in OfSuit(hand, a.suit) /\ \A c \in m : c.rank \in Nat /\ c \in hand /\ c.suit = a.suit
    BY <1>2, <1>5, <2>1, <2>4 DEF OfSuit, Stretch
  <2>6. \A k \in a.rank..b.rank : \E e \in m : e.rank = k
    BY <2>1, <2>4 DEF Stretch
  <2>7. m = UpTo(a, b)
    <3>1. \A c \in m : c \in UpTo(a, b)
      BY <1>3, <2>4, <2>5
    <3>2. ASSUME NEW c \in UpTo(a, b) PROVE c \in m
      <4>1. PICK e \in m : e.rank = c.rank
        BY <1>3, <2>6, <3>2
      <4>2. e.suit = c.suit /\ c \in GinDeck /\ e \in GinDeck
        BY <1>3, <2>5, <3>2
      <4> QED BY <4>1, <4>2, GinAssumption
    <3> HIDE DEF UpTo
    <3> QED BY <3>1, <3>2
  <2>8. b.rank >= a.rank + 2
    <3> SUFFICES ASSUME ~(b.rank >= a.rank + 2) PROVE FALSE
      OBVIOUS
    <3>1. \A c \in m : c.rank = a.rank \/ c.rank = a.rank + 1
      BY <2>4, <2>5
    <3>2. \A c, d \in m : c.rank = d.rank => c = d
      BY <2>5, GinAssumption
    <3> QED BY <2>1, <3>1, <3>2 DEF ThreeOf
  <2>9. a.rank..b.rank = {c.rank : c \in m}
    <3>1. \A c \in m : c.rank \in a.rank..b.rank
      BY <2>4, <2>5
    <3> QED BY <2>6, <3>1
  <2> HIDE DEF UpTo
  <2> QED BY <2>5, <2>7, <2>8, <2>9
<1> HIDE DEF Block, UpTo
<1> QED BY <1>1, <1>4, <1>5

\* The search for melds finds all of them.
LEMMA CandidatesAre ==
  ASSUME NEW hand \in SUBSET GinDeck
  PROVE  Candidates(hand) = AllMelds(hand) /\ Splits(hand) = AllSplits(hand) /\ LeastDeadwood(hand) = LeastBare(hand)
<1>1. ASSUME NEW m \in SUBSET GinDeck
      PROVE  m \in Sets(hand) <=> m \subseteq hand /\ IsSet(m)
  <2> DEFINE OfRank(r) == {c \in hand : c.rank = r}
  <2>1. m \in Sets(hand) <=> \E r \in {c.rank : c \in hand} : m \subseteq OfRank(r) /\ Cardinality(m) \in 3..4
    BY DEF Sets
  <2>2. IsFiniteSet(m) /\ Cardinality(m) \in Nat
    BY GinAssumption, FS_Subset, FS_CardinalityType
  <2>3. ASSUME NEW r, m \subseteq OfRank(r), Cardinality(m) \in 3..4 PROVE m \subseteq hand /\ IsSet(m)
    <3>1. ThreeOf(m)
      BY <2>2, <2>3, ThreeCounted
    <3> QED BY <2>3, <3>1, SetIs DEF OneRank
  <2>4. ASSUME m \subseteq hand, IsSet(m)
        PROVE  \E r \in {c.rank : c \in hand} : m \subseteq OfRank(r) /\ Cardinality(m) \in 3..4
    <3>1. ThreeOf(m) /\ OneRank(m)
      BY <2>4, SetIs
    <3>2. PICK x \in m : TRUE
      BY <3>1 DEF ThreeOf
    <3>3. m \subseteq OfRank(x.rank)
      BY <2>4, <3>1, <3>2 DEF OneRank
    <3>4. Cardinality(m) \in 3..4
      BY <2>4 DEF IsSet
    <3> QED BY <2>4, <3>2, <3>3, <3>4
  <2> HIDE DEF OfRank
  <2> QED BY <2>1, <2>3, <2>4
<1>2. Candidates(hand) = AllMelds(hand)
  <2>1. Sets(hand) \subseteq SUBSET GinDeck
    BY DEF Sets
  <2>2. Runs(hand) \subseteq SUBSET GinDeck
    BY DEF Runs, OfSuit
  <2> QED BY <1>1, <2>1, <2>2, RunsAre DEF Candidates, AllMelds
<1>3. Splits(hand) = AllSplits(hand)
  BY <1>2 DEF Splits, AllSplits
<1> QED BY <1>2, <1>3 DEF LeastDeadwood, LeastBare

-----------------------------------------------------------------------------
(* Gin rummy: laying off *)

\* A card laid off on a meld, on a run if it goes to any, and nothing more to lay off.
Laid(s, c, m) == [left |-> s.left \ {c}, melds |-> (s.melds \ {m}) \cup {m \cup {c}}]
RunAtBest(s, c, m) == (\E n \in Homes(c, s.melds) : IsRun(n)) => IsRun(m)
NoneFits(s) == \A c \in s.left : Homes(c, s.melds) = {}

\* A pass leaves things as they are when nothing fits, or lays one card off: on a run if it
\* goes to any and runs come first.
LEMMA PassIs ==
  ASSUME NEW s, NEW runsFirst \in BOOLEAN, NEW r
  PROVE  r \in LaidOff(s, runsFirst) <=>
           \/ NoneFits(s) /\ r = s
           \/ \E c \in s.left : \E m \in Homes(c, s.melds) :
                r = Laid(s, c, m) /\ (runsFirst => RunAtBest(s, c, m))
<1> DEFINE Some(c) == IF runsFirst THEN Attach(c, s.melds) ELSE Homes(c, s.melds)
           moves == UNION {{Laid(s, c, m) : m \in Some(c)} : c \in s.left}
<1>1. LaidOff(s, runsFirst) = IF moves = {} THEN {s} ELSE moves
  BY Zenon DEF LaidOff, Laid
<1>2. ASSUME NEW c
      PROVE  /\ Some(c) = {} <=> Homes(c, s.melds) = {}
             /\ \A m : m \in Some(c) <=> /\ m \in Homes(c, s.melds)
                                         /\ runsFirst => RunAtBest(s, c, m)
  <2>1. PICK homes : homes = Homes(c, s.melds)
    OBVIOUS
  <2>2. PICK runs : runs = {m \in homes : IsRun(m)}
    OBVIOUS
  <2>3. Attach(c, s.melds) = IF runs # {} THEN runs ELSE homes
    <3>1. {m \in Homes(c, s.melds) : IsRun(m)} \subseteq s.melds
      BY DEF Homes
    <3> QED BY <2>1, <2>2 DEF Attach
  <2>4. \A m : RunAtBest(s, c, m) <=> (runs # {} => IsRun(m))
    BY <2>1, <2>2 DEF RunAtBest
  <2> QED BY <2>1, <2>2, <2>3, <2>4
<1> HIDE DEF Some
<1>3. moves = {} <=> NoneFits(s)
  <2>1. moves = {} <=> \A c \in s.left : Some(c) = {}
    OBVIOUS
  <2> QED BY <1>2, <2>1 DEF NoneFits
<1>4. r \in moves <=> \E c \in s.left : \E m \in Some(c) : r = Laid(s, c, m)
  OBVIOUS
<1> HIDE DEF moves
<1>5. NoneFits(s) => ~\E c \in s.left : \E m \in Homes(c, s.melds) : TRUE
  BY DEF NoneFits
<1>6. r \in moves <=> \E c \in s.left : \E m \in Homes(c, s.melds) :
        r = Laid(s, c, m) /\ (runsFirst => RunAtBest(s, c, m))
  BY <1>2, <1>4
<1> QED BY <1>1, <1>3, <1>5, <1>6

\* A pass with runs first.
LEMMA PassByRuns ==
  ASSUME NEW s, NEW r
  PROVE  r \in LaidOff(s, TRUE) <=>
           \/ NoneFits(s) /\ r = s
           \/ \E c \in s.left : \E m \in Homes(c, s.melds) :
                r = Laid(s, c, m) /\ RunAtBest(s, c, m)
<1>1. PICK runsFirst \in BOOLEAN : runsFirst = TRUE
  OBVIOUS
<1>2. runsFirst
  BY <1>1, Zenon
<1>3. r \in LaidOff(s, runsFirst) <=>
        \/ NoneFits(s) /\ r = s
        \/ \E c \in s.left : \E m \in Homes(c, s.melds) :
             r = Laid(s, c, m) /\ RunAtBest(s, c, m)
  BY <1>2, PassIs
<1>4. LaidOff(s, runsFirst) = LaidOff(s, TRUE)
  BY <1>1, Zenon
<1> QED BY <1>3, <1>4, Zenon

\* The same where any meld will do.
LEMMA PassAnywhere ==
  ASSUME NEW s, NEW r
  PROVE  r \in LaidOff(s, FALSE) <=>
           \/ NoneFits(s) /\ r = s
           \/ \E c \in s.left : \E m \in Homes(c, s.melds) : r = Laid(s, c, m)
<1>1. PICK runsFirst \in BOOLEAN : runsFirst = FALSE
  OBVIOUS
<1>2. ~runsFirst
  BY <1>1, Zenon
<1>3. r \in LaidOff(s, runsFirst) <=>
        \/ NoneFits(s) /\ r = s
        \/ \E c \in s.left : \E m \in Homes(c, s.melds) : r = Laid(s, c, m)
  BY <1>2, PassIs
<1>4. LaidOff(s, runsFirst) = LaidOff(s, FALSE)
  BY <1>1, Zenon
<1> QED BY <1>3, <1>4, Zenon

\* What every pass keeps is true in the end, and then there is nothing more to lay off.
LEMMA LayoffsEnd ==
  ASSUME NEW deadwood, IsFiniteSet(deadwood), NEW melds, NEW runsFirst \in BOOLEAN, NEW S,
         [left |-> deadwood, melds |-> melds] \in S,
         \A s \in S : s.left \subseteq deadwood /\ LaidOff(s, runsFirst) \subseteq S,
         NEW a, ArePasses(a, deadwood, melds, runsFirst)
  PROVE  /\ LayoffsBy(deadwood, melds, runsFirst) # {}
         /\ \A left \in LayoffsBy(deadwood, melds, runsFirst) : \E s \in S : left = s.left /\ NoneFits(s)
<1>1. PICK k \in Nat : k = Cardinality(deadwood)
  BY FS_CardinalityType
<1> DEFINE Low(s, n) == NoneFits(s) \/ Cardinality(s.left) <= k - n
           Q == {n \in Nat : n <= k => a[n] # {} /\ a[n] \subseteq S /\ \A s \in a[n] : Low(s, n)}
<1>2. 0 \in Q
  <2>1. a[0] = {[left |-> deadwood, melds |-> melds]}
    BY DEF ArePasses
  <2>2. \A s \in a[0] : s \in S /\ Cardinality(s.left) = k
    BY <1>1, <2>1
  <2>3. \A s \in a[0] : Low(s, 0)
    BY <1>1, <2>2
  <2> HIDE DEF Low
  <2> QED BY <2>1, <2>2, <2>3
<1>3. ASSUME NEW n \in Nat, n \in Q PROVE n + 1 \in Q
  <2> SUFFICES ASSUME n + 1 <= k
               PROVE  a[n + 1] # {} /\ a[n + 1] \subseteq S /\ \A s \in a[n + 1] : Low(s, n + 1)
    OBVIOUS
  <2>1. n + 1 \in 1..k /\ (n + 1) - 1 = n /\ n <= k
    BY <1>1
  <2>2. a[n + 1] = UNION {LaidOff(s, runsFirst) : s \in a[n]}
    BY <1>1, <2>1 DEF ArePasses
  <2>3. a[n] # {} /\ a[n] \subseteq S /\ \A s \in a[n] : Low(s, n)
    BY <1>3, <2>1
  <2>4. ASSUME NEW s \in a[n] PROVE LaidOff(s, runsFirst) # {}
    <3>1. CASE NoneFits(s)
      BY <3>1, PassIs
    <3>2. CASE ~NoneFits(s)
      <4>1. PICK c \in s.left : Homes(c, s.melds) # {}
        BY <3>2 DEF NoneFits
      <4>2. PICK n2 \in Homes(c, s.melds) : RunAtBest(s, c, n2)
        BY <4>1 DEF RunAtBest
      <4>3. Laid(s, c, n2) \in LaidOff(s, runsFirst)
        BY <4>2, PassIs
      <4> QED BY <4>3
    <3> QED BY <3>1, <3>2
  <2>5. ASSUME NEW s \in a[n], NEW r \in LaidOff(s, runsFirst) PROVE Low(r, n + 1)
    <3>1. IsFiniteSet(s.left) /\ Cardinality(s.left) \in Nat
      BY <2>3, FS_Subset, FS_CardinalityType
    <3>2. CASE NoneFits(s) /\ r = s
      BY <3>2
    <3>3. CASE ~(NoneFits(s) /\ r = s)
      <4>1. PICK c \in s.left : \E m \in Homes(c, s.melds) : r = Laid(s, c, m)
        BY <2>5, <3>3, PassIs
      <4>2. ~NoneFits(s)
        BY <4>1 DEF NoneFits
      <4>3. Cardinality(s.left) <= k - n
        BY <2>3, <4>2
      <4>4. r.left = s.left \ {c}
        BY <4>1 DEF Laid
      <4>5. Cardinality(r.left) = Cardinality(s.left) - 1
        <5>1. PICK old : old = s.left
          OBVIOUS
        <5>2. c \in old /\ IsFiniteSet(old)
          BY <3>1, <4>1, <5>1
        <5>3. Cardinality(old \ {c}) = Cardinality(old) - 1
          BY <5>2, FS_RemoveElement
        <5> QED BY <4>4, <5>1, <5>3
      <4> QED BY <1>1, <3>1, <4>3, <4>5
    <3> QED BY <3>2, <3>3
  <2> HIDE DEF Low
  <2> QED BY <2>2, <2>3, <2>4, <2>5
<1>4. k \in Q
  <2> HIDE DEF Q
  <2> QED BY <1>2, <1>3, CountsOn
<1>5. LayoffsBy(deadwood, melds, runsFirst) = {s.left : s \in a[k]}
  BY <1>1 DEF ArePasses
<1>6. ASSUME NEW s \in a[k] PROVE s \in S /\ NoneFits(s)
  <2>1. s \in S /\ Low(s, k)
    BY <1>4, <1>6
  <2>2. IsFiniteSet(s.left) /\ Cardinality(s.left) \in Nat
    BY <2>1, FS_Subset, FS_CardinalityType
  <2>3. CASE Cardinality(s.left) <= k - k
    <3>1. s.left = {}
      BY <1>1, <2>2, <2>3, FS_EmptySet
    <3> QED BY <2>1, <3>1 DEF NoneFits
  <2> QED BY <2>1, <2>3
<1>7. a[k] # {}
  BY <1>4
<1> QED BY <1>5, <1>6, <1>7

\* Runs first is one of the ways to lay off.
LEMMA RunsFirstIsOne ==
  ASSUME NEW deadwood, IsFiniteSet(deadwood), NEW melds,
         NEW a, ArePasses(a, deadwood, melds, TRUE), NEW b, ArePasses(b, deadwood, melds, FALSE)
  PROVE  LayoffsBy(deadwood, melds, TRUE) \subseteq LayoffsBy(deadwood, melds, FALSE)
<1>1. PICK k \in Nat : k = Cardinality(deadwood)
  BY FS_CardinalityType
<1> DEFINE Q == {n \in Nat : n <= k => a[n] \subseteq b[n]}
<1>2. 0 \in Q
  BY DEF ArePasses
<1>3. ASSUME NEW n \in Nat, n \in Q PROVE n + 1 \in Q
  <2> SUFFICES ASSUME n + 1 <= k PROVE a[n + 1] \subseteq b[n + 1]
    OBVIOUS
  <2>1. n + 1 \in 1..k /\ (n + 1) - 1 = n /\ n <= k
    BY <1>1
  <2>2. /\ a[n + 1] = UNION {LaidOff(s, TRUE) : s \in a[n]}
        /\ b[n + 1] = UNION {LaidOff(s, FALSE) : s \in b[n]}
    BY <1>1, <2>1 DEF ArePasses
  <2>3. a[n] \subseteq b[n]
    BY <1>3, <2>1
  <2>4. ASSUME NEW s, NEW r \in LaidOff(s, TRUE) PROVE r \in LaidOff(s, FALSE)
    <3>1. \/ NoneFits(s) /\ r = s
          \/ \E c \in s.left : \E m \in Homes(c, s.melds) : r = Laid(s, c, m)
      BY <2>4, PassByRuns
    <3> QED BY <3>1, PassAnywhere
  <2> QED BY <2>2, <2>3, <2>4
<1>4. k \in Q
  <2> HIDE DEF Q
  <2> QED BY <1>2, <1>3, CountsOn
<1>5. a[k] \subseteq b[k]
  BY <1>4
<1> QED BY <1>1, <1>5 DEF ArePasses

-----------------------------------------------------------------------------
(* Gin rummy: runs *)

\* Two stretches that share a card are one.
LEMMA StretchesJoin ==
  ASSUME NEW a \in SUBSET GinDeck, NEW b \in SUBSET GinDeck, Stretch(a), Stretch(b), a \cap b # {}
  PROVE  Stretch(a \cup b)
<1>1. PICK x \in a \cap b : TRUE
  OBVIOUS
<1>2. \A c \in a \cup b : c.rank \in Nat
  BY GinAssumption
<1> SUFFICES ASSUME NEW c \in a \cup b, NEW d \in a \cup b
             PROVE  c.suit = d.suit /\ \A k \in c.rank..d.rank : \E e \in a \cup b : e.rank = k
  BY DEF Stretch
<1>3. /\ c.suit = x.suit /\ d.suit = x.suit
      /\ \A k \in c.rank..x.rank : \E e \in a \cup b : e.rank = k
      /\ \A k \in x.rank..d.rank : \E e \in a \cup b : e.rank = k
  BY <1>1 DEF Stretch
<1>4. \A k \in c.rank..d.rank : k \in c.rank..x.rank \/ k \in x.rank..d.rank
  BY <1>1, <1>2
<1> QED BY <1>3, <1>4

\* A run and a stretch that share a card are a run.
LEMMA RunsJoin ==
  ASSUME NEW a \in SUBSET GinDeck, NEW b \in SUBSET GinDeck, IsRun(a), Stretch(b), a \cap b # {}
  PROVE  IsRun(a \cup b)
<1>1. ThreeOf(a) /\ Stretch(a)
  BY RunIs
<1>2. Stretch(a \cup b)
  BY <1>1, StretchesJoin
<1>3. ThreeOf(a \cup b)
  BY <1>1 DEF ThreeOf
<1> QED BY <1>2, <1>3, RunIs

\* A meld is of one kind.
LEMMA NotBoth ==
  ASSUME NEW m \in SUBSET GinDeck
  PROVE  ~(IsSet(m) /\ IsRun(m)) /\ (IsSet(m) \/ IsRun(m) => m # {})
<1>1. IsSet(m) => ThreeOf(m) /\ OneRank(m)
  BY SetIs
<1>2. IsRun(m) => ThreeOf(m) /\ Stretch(m)
  BY RunIs
<1>3. ~(ThreeOf(m) /\ OneRank(m) /\ Stretch(m))
  <2> SUFFICES ASSUME ThreeOf(m), OneRank(m), Stretch(m) PROVE FALSE
    OBVIOUS
  <2>1. \A c, d \in m : c = d
    BY GinAssumption DEF OneRank, Stretch
  <2> QED BY <2>1 DEF ThreeOf
<1> QED BY <1>1, <1>2, <1>3 DEF ThreeOf

\* The cards that lead from a run to c: a stretch whose first card d borders the run, and a run
\* or no more than the two.
LeadsTo(b, d, c, m) == c \in b /\ Stretch(b) /\ IsRun(m \cup {d}) /\ (IsRun(b) \/ Stretch({c, d}))

\* A run reaches every card of one that it is part of.
LEMMA RunReaches ==
  ASSUME NEW m \in SUBSET GinDeck, NEW g \in SUBSET GinDeck, IsRun(m), IsRun(g), m \subseteq g,
         NEW c \in g \ m
  PROVE  \E b \in SUBSET (g \ m) : \E d \in b : LeadsTo(b, d, c, m)
<1>1. ThreeOf(m) /\ Stretch(m) /\ Stretch(g)
  BY RunIs
<1>2. \A x \in g : x.rank \in Nat /\ x \in GinDeck
  BY GinAssumption
<1>3. \A x, y \in g : x.suit = y.suit /\ (x.rank = y.rank => x = y)
  BY <1>1, GinAssumption DEF Stretch
<1>4. \A x, y \in m : ~(c.rank \in x.rank..y.rank)
  BY <1>1, <1>3 DEF Stretch
<1>5. PICK ranks : ranks = {x.rank : x \in m}
  OBVIOUS
<1>6. PICK lo, hi \in m : \A x \in m : lo.rank <= x.rank /\ x.rank <= hi.rank
  <2>1. ranks \subseteq Nat /\ ranks # {} /\ IsFiniteSet(ranks)
    <3>1. PICK f : f = [x \in m |-> x.rank]
      OBVIOUS
    <3>2. f \in Surjection(m, ranks)
      BY <1>5, <3>1 DEF Surjection
    <3>3. IsFiniteSet(m)
      BY GinAssumption, FS_Subset
    <3> QED BY <1>1, <1>2, <1>5, <3>2, <3>3, FS_Surjection DEF ThreeOf
  <2>2. PICK l, h : l \in ranks /\ h \in ranks /\ \A y \in ranks : l <= y /\ y <= h
    <3>1. Min(ranks) \in ranks /\ Max(ranks) \in ranks /\ \A y \in ranks : Min(ranks) <= y /\ y <= Max(ranks)
      BY <2>1, EndsOf
    <3> QED BY <3>1
  <2>3. \A x \in m : x.rank \in ranks
    BY <1>5
  <2>4. PICK x \in m : x.rank = l
    BY <1>5, <2>2
  <2>5. PICK y \in m : y.rank = h
    BY <1>5, <2>2
  <2> QED BY <2>2, <2>3, <2>4, <2>5
<1>7. lo.rank \in Nat /\ hi.rank \in Nat /\ c.rank \in Nat /\ lo \in g /\ hi \in g
  BY <1>2, <1>6
<1>8. hi.rank < c.rank \/ c.rank < lo.rank
  BY <1>4, <1>6, <1>7
<1>9. ASSUME NEW from \in Nat, NEW to \in Nat, from <= to,
             NEW b, b = {x \in g : x.rank \in from..to},
             \A k \in from..to : \E x \in g : x.rank = k
      PROVE  Stretch(b) /\ (to >= from + 2 => IsRun(b))
  <2>1. \A k \in from..to : \E x \in b : x.rank = k
    BY <1>9
  <2>2. Stretch(b)
    <3> SUFFICES ASSUME NEW x \in b, NEW y \in b
                 PROVE  x.suit = y.suit /\ \A k \in x.rank..y.rank : \E e \in b : e.rank = k
      BY DEF Stretch
    <3>1. x \in g /\ y \in g /\ x.rank \in from..to /\ y.rank \in from..to
      BY <1>9
    <3>2. \A k \in x.rank..y.rank : k \in from..to
      BY <3>1
    <3> QED BY <1>3, <2>1, <3>1, <3>2
  <2>3. ASSUME to >= from + 2 PROVE ThreeOf(b)
    <3>1. from \in from..to /\ from + 1 \in from..to /\ from + 2 \in from..to
      BY <2>3
    <3>2. PICK x, y, z \in b : x.rank = from /\ y.rank = from + 1 /\ z.rank = from + 2
      BY <2>1, <3>1
    <3> QED BY <3>2 DEF ThreeOf
  <2>4. b \in SUBSET GinDeck
    BY <1>2, <1>9
  <2> QED BY <2>2, <2>3, <2>4, RunIs
<1>10. ASSUME NEW d \in g, NEW e \in m, d.rank = e.rank + 1 \/ e.rank = d.rank + 1
       PROVE  IsRun(m \cup {d})
  <2>1. Stretch({d, e})
    <3>1. \A x, y \in {d, e} : \A k \in x.rank..y.rank : k = d.rank \/ k = e.rank
      BY <1>2, <1>10
    <3> QED BY <1>3, <3>1 DEF Stretch
  <2>2. IsRun(m \cup {d, e})
    <3>1. {d, e} \in SUBSET GinDeck /\ m \cap {d, e} # {}
      BY <1>2
    <3> QED BY <2>1, <3>1, RunsJoin
  <2>3. m \cup {d, e} = m \cup {d}
    OBVIOUS
  <2> QED BY <2>2, <2>3
<1>11. ASSUME NEW d \in g, c.rank = d.rank \/ c.rank = d.rank + 1 \/ d.rank = c.rank + 1
       PROVE  Stretch({c, d})
  <2>1. \A x, y \in {c, d} : \A k \in x.rank..y.rank : k = d.rank \/ k = c.rank
    BY <1>2, <1>11
  <2> QED BY <1>3, <2>1 DEF Stretch
<1>12. CASE hi.rank < c.rank
  <2> DEFINE from == hi.rank + 1
             b == {x \in g : x.rank \in from..c.rank}
  <2>1. \A k \in from..c.rank : \E x \in g : x.rank = k
    BY <1>1, <1>7 DEF Stretch
  <2>2. from \in Nat /\ c.rank \in Nat /\ from <= c.rank
    BY <1>7, <1>12
  <2>3. PICK d \in g : d.rank = from
    BY <2>1, <2>2
  <2>4. Stretch(b) /\ (c.rank >= from + 2 => IsRun(b))
    BY <1>9, <2>1, <2>2, <2>3
  <2>5. c \in b /\ d \in b /\ b \in SUBSET (g \ m)
    BY <1>2, <1>6, <1>7, <2>2, <2>3
  <2>6. IsRun(m \cup {d})
    BY <1>10, <2>3
  <2>7. ~(c.rank >= from + 2) => c.rank = d.rank \/ c.rank = d.rank + 1
    BY <2>2, <2>3
  <2>8. d \in b
    BY <2>2, <2>3
  <2> HIDE DEF b
  <2>9. LeadsTo(b, d, c, m)
    BY <1>11, <2>4, <2>5, <2>6, <2>7 DEF LeadsTo
  <2> QED BY <2>5, <2>8, <2>9
<1>13. CASE c.rank < lo.rank
  <2> DEFINE to == lo.rank - 1
             b == {x \in g : x.rank \in c.rank..to}
  <2>1. \A k \in c.rank..to : \E x \in g : x.rank = k
    <3>1. \A k \in c.rank..to : k \in c.rank..lo.rank
      BY <1>7
    <3> QED BY <1>1, <1>7, <3>1 DEF Stretch
  <2>2. to \in Nat /\ c.rank \in Nat /\ c.rank <= to
    BY <1>7, <1>13
  <2>3. PICK d \in g : d.rank = to
    BY <2>1, <2>2
  <2>4. Stretch(b) /\ (to >= c.rank + 2 => IsRun(b))
    BY <1>9, <2>1, <2>2, <2>3
  <2>5. c \in b /\ d \in b /\ b \in SUBSET (g \ m)
    BY <1>2, <1>6, <1>7, <2>2, <2>3
  <2>6. IsRun(m \cup {d})
    <3>1. lo.rank = d.rank + 1
      BY <1>7, <2>3
    <3> QED BY <1>10, <3>1
  <2>7. ~(to >= c.rank + 2) => c.rank = d.rank \/ d.rank = c.rank + 1
    BY <2>2, <2>3
  <2>8. d \in b
    BY <2>2, <2>3
  <2> HIDE DEF b
  <2>9. LeadsTo(b, d, c, m)
    BY <1>11, <2>4, <2>5, <2>6, <2>7 DEF LeadsTo
  <2> QED BY <2>5, <2>8, <2>9
<1> QED BY <1>8, <1>12, <1>13

\* The runs of some cards that are part of no longer one.
LongRuns(cards) ==
  {b \in SUBSET cards : IsRun(b) /\ \A e \in SUBSET cards : IsRun(e) /\ b \cap e # {} => e \subseteq b}

\* They share no card, and every run is part of one.
LEMMA LongRunsCover ==
  ASSUME NEW cards \in SUBSET GinDeck
  PROVE  /\ Disjoint(LongRuns(cards))
         /\ \A e \in SUBSET cards : IsRun(e) => e \subseteq UNION LongRuns(cards)
<1>1. Disjoint(LongRuns(cards))
  <2> SUFFICES ASSUME NEW b \in LongRuns(cards), NEW e \in LongRuns(cards), b \cap e # {} PROVE b = e
    BY Zenon DEF Disjoint
  <2>1. e \subseteq b /\ b \subseteq e
    BY DEF LongRuns
  <2> QED BY <2>1
<1>2. ASSUME NEW e \in SUBSET cards, IsRun(e) PROVE e \subseteq UNION LongRuns(cards)
  <2>1. ThreeOf(e) /\ Stretch(e) /\ e \in SUBSET GinDeck
    BY <1>2, RunIs
  <2>2. PICK x \in e : TRUE
    BY <2>1 DEF ThreeOf
  <2>3. PICK with : with = {r \in SUBSET cards : x \in r /\ IsRun(r)}
    OBVIOUS
  <2>4. PICK b : b = UNION with
    OBVIOUS
  <2>5. /\ \A r \in with : r \in SUBSET cards /\ r \in SUBSET GinDeck /\ x \in r /\ IsRun(r) /\ Stretch(r)
        /\ e \in with /\ b \in SUBSET cards /\ b \in SUBSET GinDeck /\ e \subseteq b /\ x \in b
    BY <1>2, <2>2, <2>3, <2>4, RunIs
  <2>6. Stretch(b)
    <3> SUFFICES ASSUME NEW c \in b, NEW d \in b
                 PROVE  c.suit = d.suit /\ \A k \in c.rank..d.rank : \E f \in b : f.rank = k
      BY DEF Stretch
    <3>1. PICK r \in with : c \in r
      BY <2>4
    <3>2. PICK q \in with : d \in q
      BY <2>4
    <3>3. r \cup q \subseteq b
      BY <2>4
    <3>4. Stretch(r \cup q)
      <4>1. r \cap q # {}
        BY <2>5
      <4> QED BY <2>5, <4>1, StretchesJoin
    <3> QED BY <3>1, <3>2, <3>3, <3>4 DEF Stretch
  <2>7. IsRun(b)
    <3>1. ThreeOf(b)
      BY <2>1, <2>5 DEF ThreeOf
    <3> QED BY <2>5, <2>6, <3>1, RunIs
  <2>8. ASSUME NEW r \in SUBSET cards, IsRun(r), b \cap r # {} PROVE r \subseteq b
    <3>1. r \in SUBSET GinDeck /\ Stretch(r)
      BY <2>8, RunIs
    <3>2. IsRun(b \cup r)
      BY <2>5, <2>7, <2>8, <3>1, RunsJoin
    <3>3. b \cup r \in with
      BY <2>3, <2>5, <3>2
    <3> QED BY <2>4, <3>3
  <2>9. b \in LongRuns(cards)
    BY <2>5, <2>7, <2>8 DEF LongRuns
  <2> QED BY <2>5, <2>9
<1> QED BY <1>1, <1>2

-----------------------------------------------------------------------------
(* Gin rummy: what can be laid off *)

\* A meld attaches what leaves it a meld of its kind.
LEMMA AttachesIs ==
  ASSUME NEW m \in SUBSET GinDeck, NEW c \in GinDeck \ m
  PROVE  Attaches(c, m) <=> (IsSet(m) /\ IsSet(m \cup {c})) \/ (IsRun(m) /\ IsRun(m \cup {c}))
<1>1. m \cup {c} \in SUBSET GinDeck
  OBVIOUS
<1>2. ASSUME IsSet(m)
      PROVE  IsSet(m \cup {c}) <=> Cardinality(m) < 4 /\ \A d \in m : d.rank = c.rank
  <2>1. ThreeOf(m) /\ OneRank(m)
    BY <1>2, SetIs
  <2>2. ThreeOf(m \cup {c})
    BY <2>1 DEF ThreeOf
  <2>3. IsFiniteSet(m) /\ Cardinality(m) \in 0..4
    BY <2>1, FourOfRank
  <2>4. Cardinality(m \cup {c}) = Cardinality(m) + 1
    BY <2>3, FS_AddElement
  <2>5. ASSUME OneRank(m \cup {c}) PROVE Cardinality(m) < 4 /\ \A d \in m : d.rank = c.rank
    <3>1. Cardinality(m \cup {c}) \in 0..4
      BY <1>1, <2>5, FourOfRank
    <3> QED BY <2>3, <2>4, <2>5, <3>1 DEF OneRank
  <2>6. ASSUME \A d \in m : d.rank = c.rank PROVE OneRank(m \cup {c})
    BY <2>6 DEF OneRank
  <2> QED BY <1>1, <2>2, <2>5, <2>6, SetIs
<1> QED BY <1>2 DEF Attaches

\* Melds on the table and the cards that somebody may lay off on them.
Layable(cards, melds) ==
  /\ cards \in SUBSET GinDeck /\ melds \in SUBSET SUBSET GinDeck /\ Disjoint(melds)
  /\ \A m \in melds : (IsSet(m) \/ IsRun(m)) /\ m \cap cards = {}

\* g is m with cards laid off on it.
Extends(g, m, cards) ==
  /\ m \subseteq g /\ g \ m \subseteq cards
  /\ (IsSet(m) /\ IsSet(g)) \/ (IsRun(m) /\ IsRun(g))

\* The cards are still there or on a meld, which grew out of one that was on the table.
Grown(s, cards, melds) ==
  /\ s.left \in SUBSET cards /\ s.melds \in SUBSET SUBSET GinDeck /\ Disjoint(s.melds)
  /\ \A g \in s.melds : g \cap s.left = {} /\ \E m \in melds : Extends(g, m, cards)
  /\ \A m \in melds : \E g \in s.melds : m \subseteq g
  /\ \A c \in cards : c \in s.left \/ \E g \in s.melds : c \in g

\* Before anything is laid off.
LEMMA GrownAtFirst ==
  ASSUME NEW cards, NEW melds, Layable(cards, melds)
  PROVE  Grown([left |-> cards, melds |-> melds], cards, melds)
BY DEF Grown, Layable, Extends

\* A card laid off leaves a meld of its kind.
LEMMA GrownByOne ==
  ASSUME NEW cards, NEW melds, Layable(cards, melds), NEW s, Grown(s, cards, melds),
         NEW c \in s.left, NEW m \in Homes(c, s.melds)
  PROVE  /\ Grown(Laid(s, c, m), cards, melds)
         /\ m \in s.melds /\ (IsRun(m) => IsRun(m \cup {c})) /\ (IsSet(m) => IsSet(m \cup {c}))
<1> DEFINE n == m \cup {c}
           after == (s.melds \ {m}) \cup {n}
<1>1. m \in s.melds /\ Attaches(c, m) /\ c \in cards /\ c \in GinDeck /\ m \in SUBSET GinDeck /\ c \notin m
  BY DEF Homes, Grown, Layable
<1>2. (IsSet(m) /\ IsSet(n)) \/ (IsRun(m) /\ IsRun(n))
  BY <1>1, AttachesIs
<1>3. ~(IsSet(m) /\ IsRun(m))
  BY <1>1, NotBoth
<1>4. Laid(s, c, m).left = s.left \ {c} /\ Laid(s, c, m).melds = after
  BY DEF Laid
<1>5. s.left \ {c} \in SUBSET cards /\ after \in SUBSET SUBSET GinDeck
  BY <1>1 DEF Grown
<1>6. Disjoint(after)
  <2>1. \A g \in s.melds \ {m} : g \cap n = {}
    BY <1>1 DEF Grown, Disjoint
  <2>2. \A g, h \in s.melds \ {m} : g # h => g \cap h = {}
    BY DEF Grown, Disjoint
  <2>3. ASSUME NEW g \in after, NEW h \in after, g # h PROVE g \cap h = {}
    <3> HIDE DEF n
    <3> QED BY <2>1, <2>2, <2>3
  <2> QED BY <2>3 DEF Disjoint
<1>7. ASSUME NEW g \in after PROVE g \cap (s.left \ {c}) = {} /\ \E o \in melds : Extends(g, o, cards)
  <2>1. CASE g = n
    <3>1. PICK o \in melds : Extends(m, o, cards)
      BY <1>1 DEF Grown
    <3>2. o \in SUBSET GinDeck /\ ~(IsSet(o) /\ IsRun(o))
      BY NotBoth DEF Layable
    <3>3. (IsSet(o) /\ IsSet(n)) \/ (IsRun(o) /\ IsRun(n))
      BY <1>2, <1>3, <3>1 DEF Extends
    <3>4. o \subseteq n /\ n \ o \subseteq cards
      BY <1>1, <3>1 DEF Extends
    <3>5. n \cap (s.left \ {c}) = {}
      BY <1>1 DEF Grown
    <3> QED BY <2>1, <3>3, <3>4, <3>5 DEF Extends
  <2>2. CASE g \in s.melds
    BY <2>2 DEF Grown
  <2> QED BY <2>1, <2>2
<1>8. ASSUME NEW o \in melds PROVE \E g \in after : o \subseteq g
  <2>1. PICK g \in s.melds : o \subseteq g
    BY DEF Grown
  <2> QED BY <2>1
<1>9. ASSUME NEW d \in cards PROVE d \in s.left \ {c} \/ \E g \in after : d \in g
  <2>1. n \in after /\ \A g \in s.melds : g = m \/ g \in after
    OBVIOUS
  <2>2. d \in s.left \/ \E g \in s.melds : d \in g
    BY DEF Grown
  <2> HIDE DEF after
  <2> QED BY <2>1, <2>2
<1> HIDE DEF after
<1>10. Grown(Laid(s, c, m), cards, melds)
  BY <1>4, <1>5, <1>6, <1>7, <1>8, <1>9 DEF Grown
<1> QED BY <1>1, <1>2, <1>3, <1>10

\* Of a meld on the table there is one that grew out of it, of its kind.
LEMMA GrownFrom ==
  ASSUME NEW cards, NEW melds, Layable(cards, melds), NEW s, Grown(s, cards, melds), NEW m \in melds
  PROVE  \E g \in s.melds : Extends(g, m, cards)
<1>1. PICK g \in s.melds : m \subseteq g
  BY DEF Grown
<1>2. PICK o \in melds : Extends(g, o, cards)
  BY DEF Grown
<1>3. m # {} /\ m \cap cards = {}
  BY NotBoth DEF Layable
<1>4. m \cap o # {}
  BY <1>1, <1>2, <1>3 DEF Extends
<1>5. m = o
  BY <1>4 DEF Layable, Disjoint
<1> QED BY <1>2, <1>5

\* Some of the cards extend a meld to c.
InReach(c, cards, melds) == \E m \in melds : \E g \in SUBSET (m \cup cards) : c \in g /\ Extends(g, m, cards)

\* Whichever way cards are laid off, each of them is within reach.
LEMMA LaidIsInReach ==
  ASSUME NEW cards, NEW melds, Layable(cards, melds), NEW runsFirst \in BOOLEAN
  PROVE  /\ LayoffsBy(cards, melds, runsFirst) # {}
         /\ \A left \in LayoffsBy(cards, melds, runsFirst) :
              left \in SUBSET cards /\ \A c \in cards \ left : InReach(c, cards, melds)
<1>1. PICK S : S = {s \in [left : SUBSET cards, melds : SUBSET SUBSET GinDeck] : Grown(s, cards, melds)}
  OBVIOUS
<1>2. [left |-> cards, melds |-> melds] \in S
  BY <1>1, GrownAtFirst DEF Layable
<1>3. ASSUME NEW s \in S PROVE s.left \subseteq cards /\ LaidOff(s, runsFirst) \subseteq S
  <2>1. Grown(s, cards, melds)
    BY <1>1, <1>3
  <2>2. ASSUME NEW r \in LaidOff(s, runsFirst), r # s PROVE r \in S
    <3>1. PICK c \in s.left : \E m \in Homes(c, s.melds) : r = Laid(s, c, m)
      BY <2>2, PassIs
    <3>2. Grown(r, cards, melds)
      BY <2>1, <3>1, GrownByOne
    <3>3. r \in [left : SUBSET cards, melds : SUBSET SUBSET GinDeck]
      <4>1. r = [left |-> r.left, melds |-> r.melds]
        BY <3>1 DEF Laid
      <4>2. r.left \in SUBSET cards /\ r.melds \in SUBSET SUBSET GinDeck
        BY <3>2 DEF Grown
      <4> QED BY <4>1, <4>2
    <3> QED BY <1>1, <3>2, <3>3
  <2> QED BY <2>1, <2>2 DEF Grown
<1>4. IsFiniteSet(cards)
  BY GinAssumption, FS_Subset DEF Layable
<1>5. PICK a : ArePasses(a, cards, melds, runsFirst)
  BY <1>4, PassesExist
<1>6. /\ LayoffsBy(cards, melds, runsFirst) # {}
      /\ \A left \in LayoffsBy(cards, melds, runsFirst) : \E s \in S : left = s.left /\ NoneFits(s)
  BY <1>2, <1>3, <1>4, <1>5, LayoffsEnd
<1>7. ASSUME NEW s \in S, NEW c \in cards \ s.left PROVE InReach(c, cards, melds)
  <2>1. Grown(s, cards, melds)
    BY <1>1
  <2>2. PICK g \in s.melds : c \in g
    BY <1>7, <2>1 DEF Grown
  <2>3. PICK m \in melds : Extends(g, m, cards)
    BY <2>1 DEF Grown
  <2>4. g \in SUBSET (m \cup cards)
    BY <2>3 DEF Extends
  <2> QED BY <2>2, <2>3, <2>4 DEF InReach
<1> QED BY <1>3, <1>6, <1>7

-----------------------------------------------------------------------------
(* Gin rummy: runs first *)

\* Next to a run on the table.
Borders(c, melds) == \E m \in melds : IsRun(m) /\ IsRun(m \cup {c})

\* With runs first, a card that borders a run goes to no set.
ByRuns(s, cards, melds) ==
  \A c \in cards : Borders(c, melds) => c \in s.left \/ \E g \in s.melds : IsRun(g) /\ c \in g

\* A card that borders a run attaches to what the run has become.
LEMMA BorderAttaches ==
  ASSUME NEW cards, NEW melds, Layable(cards, melds), NEW s, Grown(s, cards, melds),
         NEW c \in s.left, Borders(c, melds)
  PROVE  \E h \in Homes(c, s.melds) : IsRun(h)
<1>1. PICK m \in melds : IsRun(m) /\ IsRun(m \cup {c})
  BY DEF Borders
<1>2. PICK h \in s.melds : Extends(h, m, cards)
  BY GrownFrom
<1>3. /\ h \in SUBSET GinDeck /\ m \in SUBSET GinDeck /\ c \in GinDeck /\ c \notin h /\ m # {}
      /\ ~(IsSet(m) /\ IsRun(m)) /\ m \subseteq h
  BY <1>1, <1>2, NotBoth DEF Layable, Grown, Extends
<1>4. IsRun(h)
  BY <1>1, <1>2, <1>3 DEF Extends
<1>5. IsRun(h \cup {c})
  <2>1. m \cup {c} \in SUBSET GinDeck /\ Stretch(m \cup {c}) /\ h \cap (m \cup {c}) # {}
    BY <1>1, <1>3, RunIs
  <2>2. IsRun(h \cup (m \cup {c}))
    BY <1>3, <1>4, <2>1, RunsJoin
  <2>3. h \cup (m \cup {c}) = h \cup {c}
    BY <1>3
  <2> QED BY <2>2, <2>3
<1>6. Attaches(c, h)
  BY <1>3, <1>4, <1>5, AttachesIs
<1> QED BY <1>2, <1>4, <1>6 DEF Homes

\* A pass with runs first keeps to it.
LEMMA ByRunsKept ==
  ASSUME NEW cards, NEW melds, Layable(cards, melds), NEW s, Grown(s, cards, melds),
         ByRuns(s, cards, melds), NEW r \in LaidOff(s, TRUE), r # s
  PROVE  Grown(r, cards, melds) /\ ByRuns(r, cards, melds)
<1>1. PICK c \in s.left : \E m \in Homes(c, s.melds) :
             r = Laid(s, c, m) /\ RunAtBest(s, c, m)
  BY PassByRuns
<1>2. PICK m \in Homes(c, s.melds) :
             r = Laid(s, c, m) /\ RunAtBest(s, c, m)
  BY <1>1
<1>3. Grown(r, cards, melds) /\ m \in s.melds /\ (IsRun(m) => IsRun(m \cup {c}))
  BY <1>2, GrownByOne
<1>4. r.left = s.left \ {c} /\ r.melds = (s.melds \ {m}) \cup {m \cup {c}}
  BY <1>2 DEF Laid
<1>5. ASSUME NEW d \in cards, Borders(d, melds)
      PROVE  d \in r.left \/ \E g \in r.melds : IsRun(g) /\ d \in g
  <2>1. CASE d \in s.left /\ d # c
    BY <1>4, <2>1
  <2>2. CASE d = c
    <3>1. IsRun(m)
      BY <1>2, <1>5, <2>2, BorderAttaches DEF RunAtBest
    <3> QED BY <1>3, <1>4, <2>2, <3>1
  <2>3. CASE d \notin s.left
    <3>1. PICK g \in s.melds : IsRun(g) /\ d \in g
      BY <1>5, <2>3 DEF ByRuns
    <3>2. CASE g = m
      BY <1>3, <1>4, <3>1, <3>2
    <3>3. CASE g # m
      BY <1>4, <3>1, <3>3
    <3> QED BY <3>2, <3>3
  <2> QED BY <2>1, <2>2, <2>3
<1> QED BY <1>3, <1>5 DEF ByRuns

\* What a player keeps back who melds every run of the cards first.
Loose(cards) == cards \ UNION LongRuns(cards)

\* Then, with runs first, no card within reach is left.
LEMMA NoneInReachLeft ==
  ASSUME NEW cards, NEW melds, Layable(cards, melds), NEW s, Grown(s, Loose(cards), melds),
         ByRuns(s, Loose(cards), melds), NoneFits(s), NEW c \in s.left
  PROVE  ~InReach(c, cards, melds)
<1> SUFFICES ASSUME InReach(c, cards, melds) PROVE FALSE
  OBVIOUS
<1>1. PICK m \in melds : \E g \in SUBSET (m \cup cards) : c \in g /\ Extends(g, m, cards)
  BY DEF InReach
<1>2. PICK g \in SUBSET (m \cup cards) : c \in g /\ Extends(g, m, cards)
  BY <1>1
<1>3. PICK rest : rest = Loose(cards)
  OBVIOUS
<1>4. /\ c \in rest /\ rest \subseteq cards /\ cards \in SUBSET GinDeck /\ m \in SUBSET GinDeck /\ g \in SUBSET GinDeck
      /\ c \in GinDeck /\ m \cap cards = {} /\ c \in g \ m
  BY <1>2, <1>3 DEF Loose, Grown, Layable
<1>5. Layable(rest, melds)
  BY <1>4 DEF Layable
<1>6. Grown(s, rest, melds) /\ ByRuns(s, rest, melds)
  BY <1>3
<1>7. \A e \in SUBSET cards : IsRun(e) => e \cap rest = {}
  BY <1>3, <1>4, LongRunsCover DEF Loose
<1>8. \A h \in s.melds : ~Attaches(c, h) /\ h \in SUBSET GinDeck /\ c \notin h
  BY <1>6 DEF NoneFits, Homes, Grown
<1>9. \A d \in s.left : ~Borders(d, melds)
  BY <1>5, <1>6, BorderAttaches DEF NoneFits
<1>10. PICK h \in s.melds : Extends(h, m, rest)
  BY <1>5, <1>6, GrownFrom
<1>11. CASE IsSet(m) /\ IsSet(g)
  <2>1. IsSet(h)
    BY <1>4, <1>10, <1>11, NotBoth DEF Extends
  <2>2. OneRank(g) /\ OneRank(h) /\ ThreeOf(h) /\ m \subseteq g /\ m \subseteq h /\ m # {}
    BY <1>2, <1>4, <1>8, <1>10, <1>11, <2>1, SetIs, NotBoth DEF Extends
  <2>3. OneRank(h \cup {c})
    <3>1. PICK x \in m : TRUE
      BY <2>2
    <3>2. \A d \in h \cup {c} : d.rank = x.rank
      BY <1>4, <2>2, <3>1 DEF OneRank
    <3> QED BY <3>2 DEF OneRank
  <2>4. ThreeOf(h \cup {c})
    BY <2>2 DEF ThreeOf
  <2>5. IsSet(h \cup {c})
    BY <1>4, <1>8, <2>3, <2>4, SetIs
  <2> QED BY <1>4, <1>8, <2>1, <2>5, AttachesIs
<1>12. CASE IsRun(m) /\ IsRun(g)
  <2>1. PICK b \in SUBSET (g \ m) : \E d \in b : LeadsTo(b, d, c, m)
    <3>1. m \in SUBSET GinDeck /\ g \in SUBSET GinDeck /\ IsRun(m) /\ IsRun(g) /\ m \subseteq g /\ c \in g \ m
      BY <1>2, <1>4, <1>12 DEF Extends
    <3> QED BY <3>1, RunReaches
  <2>2. PICK d \in b : c \in b /\ Stretch(b) /\ IsRun(m \cup {d}) /\ (IsRun(b) \/ Stretch({c, d}))
    BY <2>1 DEF LeadsTo
  <2>3. b \in SUBSET cards /\ d \in cards /\ d \in GinDeck
    BY <1>2, <1>4 DEF Extends
  <2>4. Stretch({c, d})
    BY <1>4, <1>7, <2>2, <2>3
  <2>5. d \in rest
    <3> SUFFICES ASSUME d \notin rest PROVE FALSE
      OBVIOUS
    <3>1. PICK e \in LongRuns(cards) : d \in e
      BY <1>3, <2>3 DEF Loose
    <3>2. e \in SUBSET cards /\ e \in SUBSET GinDeck /\ IsRun(e)
      BY <1>4 DEF LongRuns
    <3>3. IsRun(e \cup {c, d})
      <4>1. {c, d} \in SUBSET GinDeck /\ e \cap {c, d} # {}
        BY <1>4, <2>3, <3>1
      <4> QED BY <2>4, <3>2, <4>1, RunsJoin
    <3>4. e \cup {c, d} \in SUBSET cards
      BY <1>4, <2>3, <3>2
    <3> QED BY <1>4, <1>7, <3>3, <3>4
  <2>6. Borders(d, melds)
    BY <1>12, <2>2 DEF Borders
  <2>7. PICK k \in s.melds : IsRun(k) /\ d \in k
    BY <1>6, <1>9, <2>5, <2>6 DEF ByRuns
  <2>8. IsRun(k \cup {c, d})
    <3>1. {c, d} \in SUBSET GinDeck /\ k \cap {c, d} # {}
      BY <1>4, <2>3, <2>7
    <3> QED BY <1>8, <2>4, <2>7, <3>1, RunsJoin
  <2>9. k \cup {c, d} = k \cup {c}
    BY <2>7
  <2> QED BY <1>4, <1>8, <2>7, <2>8, <2>9, AttachesIs
<1> QED BY <1>2, <1>11, <1>12 DEF Extends

\* What the long runs leave over, laid off with runs first, leaves nothing that any layoff could reach.
LEMMA RunsFirstIsBest ==
  ASSUME NEW cards, NEW melds, Layable(cards, melds)
  PROVE  \A left \in Layoffs(Loose(cards), melds) :
           left \in SUBSET cards /\ \A c \in left : ~InReach(c, cards, melds)
<1>1. PICK rest : rest = Loose(cards)
  OBVIOUS
<1>2. rest \in SUBSET cards /\ Layable(rest, melds)
  BY <1>1 DEF Layable, Loose
<1>3. PICK S : S = {s \in [left : SUBSET rest, melds : SUBSET SUBSET GinDeck] :
                      Grown(s, rest, melds) /\ ByRuns(s, rest, melds)}
  OBVIOUS
<1>4. [left |-> rest, melds |-> melds] \in S
  BY <1>2, <1>3, GrownAtFirst DEF Layable, ByRuns
<1>5. ASSUME NEW s \in S PROVE s.left \subseteq rest /\ LaidOff(s, TRUE) \subseteq S
  <2>1. Grown(s, rest, melds) /\ ByRuns(s, rest, melds)
    BY <1>3, <1>5
  <2>2. ASSUME NEW r \in LaidOff(s, TRUE), r # s PROVE r \in S
    <3>1. Grown(r, rest, melds) /\ ByRuns(r, rest, melds)
      BY <1>2, <2>1, <2>2, ByRunsKept
    <3>2. PICK c \in s.left : \E m \in Homes(c, s.melds) : r = Laid(s, c, m)
      BY <2>2, PassByRuns
    <3>3. r \in [left : SUBSET rest, melds : SUBSET SUBSET GinDeck]
      <4>1. r = [left |-> r.left, melds |-> r.melds]
        BY <3>2 DEF Laid
      <4>2. r.left \in SUBSET rest /\ r.melds \in SUBSET SUBSET GinDeck
        BY <3>1 DEF Grown
      <4> QED BY <4>1, <4>2
    <3> QED BY <1>3, <3>1, <3>3
  <2> QED BY <2>1, <2>2 DEF Grown
<1>6. IsFiniteSet(rest)
  BY <1>2, GinAssumption, FS_Subset DEF Layable
<1>7. PICK a : ArePasses(a, rest, melds, TRUE)
  BY <1>6, PassesExist
<1>8. \A left \in LayoffsBy(rest, melds, TRUE) : \E s \in S : left = s.left /\ NoneFits(s)
  BY <1>4, <1>5, <1>6, <1>7, LayoffsEnd
<1>9. ASSUME NEW s \in S, NoneFits(s), NEW c \in s.left PROVE ~InReach(c, cards, melds)
  <2>1. Grown(s, Loose(cards), melds) /\ ByRuns(s, Loose(cards), melds)
    BY <1>1, <1>3
  <2> QED BY <1>9, <2>1, NoneInReachLeft
<1> QED BY <1>1, <1>2, <1>5, <1>8, <1>9 DEF Layoffs

-----------------------------------------------------------------------------
(* Gin rummy: what a knock settles *)

\* Fewer cards, no more pips.
LEMMA PipsOfPart ==
  ASSUME NEW cards \in SUBSET GinDeck, NEW part \in SUBSET cards
  PROVE  Pips(part) <= Pips(cards)
<1>1. PICK f : f = [c \in cards |-> PipValue(c.rank)]
  OBVIOUS
<1>2. IsFiniteSet(cards) /\ IntsOn(f, cards)
  <2>1. \A c \in cards : c.rank \in Nat
    BY GinAssumption
  <2> QED BY <1>1, <2>1, GinAssumption, FS_Subset DEF IntsOn, PipValue, RunOrder
<1>3. ASSUME NEW some \in SUBSET cards PROVE Pips(some) = SumFunctionOnSet(f, some)
  <2>1. PICK g : g = [c \in some |-> PipValue(c.rank)]
    OBVIOUS
  <2>2. Pips(some) = SumFunctionOnSet(g, some)
    <3>1. DOMAIN g = some
      BY <2>1
    <3> QED BY <2>1, <3>1, Zenon DEF Pips, SumFunction
  <2>3. \A c \in some : g[c] = f[c]
    BY <1>1, <2>1
  <2>4. IsFiniteSet(some) /\ IntsOn(f, some)
    BY <1>2, FS_Subset DEF IntsOn
  <2> QED BY <2>2, <2>3, <2>4, SumSame
<1>4. PICK others : others = cards \ part
  OBVIOUS
<1>5. SumFunctionOnSet(f, cards) = SumFunctionOnSet(f, part) + SumFunctionOnSet(f, others)
  BY <1>2, <1>4, SumOfParts
<1>6. others \in SUBSET cards /\ cards \in SUBSET cards
  BY <1>4
<1>7. Pips(cards) = Pips(part) + Pips(others)
  BY <1>3, <1>5, <1>6
<1>8. Pips(part) \in Nat /\ Pips(others) \in Nat
  <2>1. part \in SUBSET GinDeck /\ others \in SUBSET GinDeck
    BY <1>6
  <2> QED BY <2>1, PipsCount
<1> QED BY <1>7, <1>8

\* A split that melds the long runs of what it would keep is one.
LEMMA LongRunsSplit ==
  ASSUME NEW hand \in SUBSET GinDeck, NEW s \in AllSplits(hand), NEW cards, cards = Deadwood(hand, s)
  PROVE  \E t \in Splits(hand) : Deadwood(hand, t) = Loose(cards)
<1>1. PICK t : t = s \cup LongRuns(cards)
  OBVIOUS
<1>2. cards \in SUBSET GinDeck /\ cards \subseteq hand /\ \A m \in s : m \cap cards = {}
  BY DEF Deadwood
<1>3. t \subseteq AllMelds(hand)
  BY <1>1, <1>2 DEF AllSplits, AllMelds, LongRuns
<1>4. Disjoint(t)
  <2>1. \A m, n \in s : m # n => m \cap n = {}
    BY DEF AllSplits, Disjoint
  <2>2. \A m, n \in LongRuns(cards) : m # n => m \cap n = {}
    BY <1>2, LongRunsCover DEF Disjoint
  <2>3. \A m \in s, n \in LongRuns(cards) : m \cap n = {}
    BY <1>2 DEF LongRuns
  <2> QED BY <1>1, <2>1, <2>2, <2>3 DEF Disjoint
<1>5. t \in Splits(hand)
  <2>1. t \in AllSplits(hand)
    BY <1>3, <1>4 DEF AllSplits
  <2> QED BY <2>1, CandidatesAre
<1>6. Deadwood(hand, t) = Loose(cards)
  BY <1>1 DEF Deadwood, Loose
<1> QED BY <1>5, <1>6

\* A defence leaves the least that any split and any layoff could.
LEMMA DefencesLeaveLeast ==
  ASSUME NEW hand \in SUBSET GinDeck, NEW melds, Layable(hand, melds), NEW left \in Defences(hand, melds)
  PROVE  Pips(left) = LeastLeft(hand, melds)
<1> DEFINE Ends(m, runsFirst) == {Pips(l) : l \in LayoffsBy(Deadwood(hand, m), melds, runsFirst)}
           all == UNION {Ends(s, FALSE) : s \in AllSplits(hand)}
           worst == {Max(Ends(m, TRUE)) : m \in Splits(hand)}
<1>1. LeastLeft(hand, melds) = Min(all)
  BY DEF LeastLeft
<1>2. \E m \in Splits(hand) : left \in LayoffsBy(Deadwood(hand, m), melds, TRUE) /\ Pips(left) <= Min(worst)
  BY Zenon DEF Defences, Layoffs
<1>3. ASSUME NEW m, NEW runsFirst \in BOOLEAN
      PROVE  /\ Layable(Deadwood(hand, m), melds) /\ IsFiniteSet(Deadwood(hand, m))
             /\ LayoffsBy(Deadwood(hand, m), melds, runsFirst) # {}
             /\ \A l \in LayoffsBy(Deadwood(hand, m), melds, runsFirst) :
                  /\ l \in SUBSET Deadwood(hand, m) /\ l \in SUBSET GinDeck
                  /\ Pips(l) \in Nat /\ Pips(l) <= Pips(hand)
                  /\ \A c \in Deadwood(hand, m) \ l : InReach(c, Deadwood(hand, m), melds)
  <2>1. PICK cards : cards = Deadwood(hand, m)
    OBVIOUS
  <2>2. cards \in SUBSET hand /\ cards \in SUBSET GinDeck
    BY <2>1 DEF Deadwood
  <2>3. Layable(cards, melds) /\ IsFiniteSet(cards)
    BY <2>2, GinAssumption, FS_Subset DEF Layable
  <2>4. /\ LayoffsBy(cards, melds, runsFirst) # {}
        /\ \A l \in LayoffsBy(cards, melds, runsFirst) :
             l \in SUBSET cards /\ \A c \in cards \ l : InReach(c, cards, melds)
    BY <2>3, LaidIsInReach
  <2>5. \A l \in SUBSET cards : l \in SUBSET GinDeck /\ Pips(l) \in Nat /\ Pips(l) <= Pips(hand)
    BY <2>2, PipsCount, PipsOfPart
  <2> QED BY <2>1, <2>3, <2>4, <2>5
<1>4. Pips(hand) \in Nat
  BY PipsCount
<1>5. Min(all) \in all /\ \A n \in all : n \in Nat /\ Min(all) <= n
  <2>1. {} \in AllSplits(hand)
    BY DEF AllSplits, Disjoint
  <2>2. all # {} /\ all \subseteq Nat
    <3>1. \A s \in AllSplits(hand) : Ends(s, FALSE) # {} /\ Ends(s, FALSE) \subseteq Nat
      BY <1>3
    <3>2. PICK ends : ends = [s \in AllSplits(hand) |-> Ends(s, FALSE)]
      OBVIOUS
    <3>3. all = UNION {ends[s] : s \in AllSplits(hand)} /\ \A s \in AllSplits(hand) : ends[s] # {} /\ ends[s] \subseteq Nat
      <4>1. \A s \in AllSplits(hand) : ends[s] = Ends(s, FALSE)
        BY <3>2
      <4> HIDE DEF Ends
      <4> QED BY <3>1, <4>1
    <3> HIDE DEF all
    <3> QED BY <2>1, <3>3
  <2>3. \E x \in all : \A y \in all : x =< y
    <3> HIDE DEF all
    <3> QED BY <2>2, NatHasLeast
  <2>4. Min(all) \in all /\ \A y \in all : Min(all) =< y
    <3> HIDE DEF all
    <3> QED BY <2>3, Zenon DEF Min
  <2> QED BY <2>2, <2>4
<1>6. PICK s \in AllSplits(hand) : \E l \in LayoffsBy(Deadwood(hand, s), melds, FALSE) : Min(all) = Pips(l)
  BY <1>5
<1>7. PICK best \in LayoffsBy(Deadwood(hand, s), melds, FALSE) : Min(all) = Pips(best)
  BY <1>6
<1>8. PICK cards : cards = Deadwood(hand, s)
  OBVIOUS
<1>9. PICK t \in Splits(hand) : Deadwood(hand, t) = Loose(cards)
  BY <1>8, LongRunsSplit
<1>10. ASSUME NEW l \in LayoffsBy(Deadwood(hand, t), melds, TRUE) PROVE Pips(l) <= Pips(best)
  <2>1. Layable(cards, melds) /\ best \in SUBSET GinDeck
        /\ \A c \in cards \ best : InReach(c, cards, melds)
    BY <1>3, <1>7, <1>8
  <2>2. l \in SUBSET cards /\ \A c \in l : ~InReach(c, cards, melds)
    BY <1>9, <1>10, <2>1, RunsFirstIsBest DEF Layoffs
  <2>3. l \in SUBSET best
    BY <2>1, <2>2
  <2> QED BY <2>1, <2>3, PipsOfPart
<1>11. ASSUME NEW m PROVE Max(Ends(m, TRUE)) \in Ends(m, TRUE)
  <2>1. Ends(m, TRUE) # {} /\ Ends(m, TRUE) \subseteq Nat /\ \A n \in Ends(m, TRUE) : n <= Pips(hand)
    <3>1. PICK of : of = LayoffsBy(Deadwood(hand, m), melds, TRUE)
      OBVIOUS
    <3>2. of # {} /\ \A l \in of : Pips(l) \in Nat /\ Pips(l) <= Pips(hand)
      BY <1>3, <3>1
    <3>3. Ends(m, TRUE) = {Pips(l) : l \in of}
      BY <3>1
    <3> QED BY <3>2, <3>3
  <2> HIDE DEF Ends
  <2>2. \E g \in Ends(m, TRUE) : \A x \in Ends(m, TRUE) : g >= x
    <3>1. \E g \in Ends(m, TRUE) : \A x \in Ends(m, TRUE) : x <= g
      BY <1>4, <2>1, BoundedHasGreatest
    <3> QED BY <2>1, <3>1
  <2> QED BY <2>2, Zenon DEF Max
<1>12. Min(worst) \in Nat /\ Min(worst) <= Pips(best)
  <2>1. worst # {} /\ worst \subseteq Nat
    <3>1. \A o \in Splits(hand) : Max(Ends(o, TRUE)) \in Nat
      BY <1>3, <1>11
    <3> QED BY <1>9, <3>1
  <2>2. \E x \in worst : \A y \in worst : x =< y
    <3> HIDE DEF worst
    <3> QED BY <2>1, NatHasLeast
  <2>3. Min(worst) \in worst /\ \A y \in worst : Min(worst) =< y
    <3> HIDE DEF worst
    <3> QED BY <2>2, Zenon DEF Min
  <2>4. Max(Ends(t, TRUE)) \in worst
    BY <1>9
  <2>5. Max(Ends(t, TRUE)) <= Pips(best)
    BY <1>10, <1>11
  <2>6. Pips(best) \in Nat /\ Max(Ends(t, TRUE)) \in Nat
    BY <1>3, <1>7, <1>11
  <2>7. PICK low : low = Min(worst)
    OBVIOUS
  <2>8. PICK end : end = Max(Ends(t, TRUE))
    OBVIOUS
  <2>9. low \in Nat
    BY <2>1, <2>3, <2>7
  <2>10. low <= end
    BY <2>3, <2>4, <2>7, <2>8
  <2>11. end <= Pips(best) /\ end \in Nat /\ Pips(best) \in Nat
    BY <2>5, <2>6, <2>8
  <2>12. low <= Pips(best)
    BY <2>9, <2>10, <2>11
  <2> QED BY <2>7, <2>9, <2>12
<1>13. PICK m \in Splits(hand) : left \in LayoffsBy(Deadwood(hand, m), melds, TRUE) /\ Pips(left) <= Min(worst)
  BY <1>2
<1>14. Pips(left) \in Nat /\ Pips(left) \in all
  <2>1. PICK dead : dead = Deadwood(hand, m)
    OBVIOUS
  <2>2. IsFiniteSet(dead)
    BY <1>3, <2>1
  <2>3. PICK a : ArePasses(a, dead, melds, TRUE)
    BY <2>2, PassesExist
  <2>4. PICK b : ArePasses(b, dead, melds, FALSE)
    BY <2>2, PassesExist
  <2>5. left \in LayoffsBy(dead, melds, FALSE)
    BY <1>13, <2>1, <2>2, <2>3, <2>4, RunsFirstIsOne
  <2>6. m \in AllSplits(hand)
    BY <1>13, CandidatesAre
  <2>7. Pips(left) \in Ends(m, FALSE)
    BY <2>1, <2>5
  <2>8. Pips(left) \in Nat
    BY <1>3, <1>13
  <2> HIDE DEF Ends
  <2> QED BY <2>6, <2>7, <2>8
<1>15. Min(all) <= Pips(left) /\ Min(all) \in Nat
  BY <1>5, <1>14
<1> HIDE DEF all, worst
<1> QED BY <1>1, <1>7, <1>12, <1>13, <1>14, <1>15

\* At a table for two the knocker's opponent is the other one.
LEMMA TheOther ==
  ASSUME GinInv, phase = "Playing", NEW p \in Player, MayAct(p)
  PROVE  /\ Opponent(p) \in Player /\ Opponent(p) # p /\ EverDealtIn = {p, Opponent(p)}
<1>1. players \in Seq(Player) /\ Len(players) = 2 /\ currentTurn \in 0..1 /\ IsInjective(players) /\ leftPlayers = <<>>
  BY DEF GinInv, SeatsOk
<1>2. DOMAIN players = 1..2 /\ players[1] \in Player /\ players[2] \in Player /\ players[1] # players[2]
  BY <1>1 DEF IsInjective
<1>3. ToSet(players) = {players[1], players[2]} /\ ToSet(leftPlayers) = {}
  <2>1. \A i \in 1..2 : i = 1 \/ i = 2
    OBVIOUS
  <2> QED BY <1>1, <1>2, <2>1 DEF ToSet
<1>4. p = players[currentTurn + 1] /\ SeatOf(p) = currentTurn
  BY GinOnTurn DEF MayAct, OnTurn, SeatAt
<1>5. Opponent(p) = players[(1 - currentTurn) + 1]
  BY <1>4 DEF Opponent, SeatAt
<1>6. CASE currentTurn = 0
  BY <1>2, <1>3, <1>4, <1>5, <1>6 DEF EverDealtIn
<1>7. CASE currentTurn = 1
  BY <1>2, <1>3, <1>4, <1>5, <1>7 DEF EverDealtIn
<1> QED BY <1>1, <1>6, <1>7

\* A knock is settled fairly (computeKnockOutcome).
LEMMA KnockSettlesFairly ==
  ASSUME GinInv, NEW p \in Player, NEW c \in GinDeck, Knock(p, c)
  PROVE  KnockIsFair'
<1> DEFINE rest == hands[p] \ {c}
           mine == LeastDeadwood(rest)
           theirs == hands[Opponent(p)]
           settled(r) == [extra EXCEPT !.taken = None, !.result = r, !.totals[r.winner] = @ + r.delta]
<1>1. /\ MayAct(p) /\ c \in hands[p] /\ hands' = [hands EXCEPT ![p] = rest]
      /\ \E melds \in BestSplits(rest) :
           \/ mine = 0 /\ HandEnds(settled(GinOutcome(p, melds)))
           \/ mine > 0 /\ \E left \in Defences(theirs, melds) :
                HandEnds(settled(LayoffOutcome(p, melds, mine, Pips(left))))
  BY DEF Knock
<1>2. phase = "Playing" /\ extra \in GinState /\ GinApart(hands, deck, discard, top)
  BY <1>1 DEF MayAct, GinInv
<1>3. Opponent(p) \in Player /\ Opponent(p) # p /\ EverDealtIn = {p, Opponent(p)}
  BY <1>1, <1>2, TheOther
<1>4. PICK melds \in BestSplits(rest) :
           \/ mine = 0 /\ HandEnds(settled(GinOutcome(p, melds)))
           \/ mine > 0 /\ \E left \in Defences(theirs, melds) :
                HandEnds(settled(LayoffOutcome(p, melds, mine, Pips(left))))
  BY <1>1
<1>5. /\ rest \in SUBSET GinDeck /\ theirs \in SUBSET GinDeck /\ rest \cap theirs = {}
      /\ hands'[p] = rest /\ hands'[Opponent(p)] = theirs
  BY <1>1, <1>2, <1>3 DEF GinApart
<1> HIDE DEF rest, theirs
<1>6. mine = LeastBare(rest) /\ LeastDeadwood(theirs) = LeastBare(theirs)
  BY <1>5, CandidatesAre
<1>7. Layable(theirs, melds)
  <2>1. melds \in AllSplits(rest)
    BY <1>4, <1>5, CandidatesAre DEF BestSplits
  <2> QED BY <1>5, <2>1 DEF AllSplits, AllMelds, Layable
<1> HIDE DEF mine
<1>8. ASSUME NEW r, HandEnds(settled(r)), r.knocker = p, r.gin = (mine = 0),
             r.left = IF mine = 0 THEN LeastBare(theirs) ELSE LeastLeft(theirs, r.melds)
      PROVE  KnockIsFair'
  <2>1. extra'.result = r
    <3>1. extra'.result = settled(r).result
      BY <1>2, <1>8 DEF HandEnds, GinState
    <3>2. settled(r).result = r
      BY <1>2 DEF GinState
    <3> QED BY <3>1, <3>2
  <2>2. EverDealtIn' = {p, Opponent(p)}
    <3>1. players' = players /\ leftPlayers' = leftPlayers
      BY <1>8 DEF HandEnds, AfterMove
    <3> QED BY <1>3, <3>1 DEF EverDealtIn
  <2> HIDE DEF settled
  <2>3. PICK defender : defender = CHOOSE q \in EverDealtIn' : q # extra'.result.knocker
    OBVIOUS
  <2>4. defender = Opponent(p)
    <3>1. \E q \in EverDealtIn' : q # extra'.result.knocker
      BY <1>3, <1>8, <2>1, <2>2
    <3>2. defender \in EverDealtIn' /\ defender # extra'.result.knocker
      BY <2>3, <3>1
    <3> QED BY <1>8, <2>1, <2>2, <3>2
  <2>5. hands'[r.knocker] = rest /\ hands'[defender] = theirs
    BY <1>5, <1>8, <2>4
  <2>6. /\ r.gin = (LeastBare(hands'[r.knocker]) = 0)
        /\ r.left = IF r.gin THEN LeastBare(hands'[defender]) ELSE LeastLeft(hands'[defender], r.melds)
    BY <1>6, <1>8, <2>5
  <2> QED BY <2>1, <2>3, <2>6, Zenon DEF KnockIsFair
<1>9. CASE mine = 0 /\ HandEnds(settled(GinOutcome(p, melds)))
  <2>1. PICK r : r = GinOutcome(p, melds)
    OBVIOUS
  <2>2. r.knocker = p /\ r.gin = TRUE /\ r.left = LeastDeadwood(theirs)
    BY <2>1 DEF GinOutcome, theirs
  <2>3. HandEnds(settled(r))
    BY <1>9, <2>1
  <2> HIDE DEF settled
  <2> QED BY <1>6, <1>8, <1>9, <2>2, <2>3
<1>10. ASSUME mine > 0, NEW left \in Defences(theirs, melds),
              HandEnds(settled(LayoffOutcome(p, melds, mine, Pips(left))))
       PROVE  KnockIsFair'
  <2>1. PICK r : r = LayoffOutcome(p, melds, mine, Pips(left))
    OBVIOUS
  <2>2. r.knocker = p /\ r.gin = FALSE /\ r.melds = melds /\ r.left = Pips(left)
    BY <2>1 DEF LayoffOutcome
  <2>3. Pips(left) = LeastLeft(theirs, melds)
    BY <1>5, <1>7, DefencesLeaveLeast
  <2>4. HandEnds(settled(r))
    BY <1>10, <2>1
  <2>5. mine # 0
    BY <1>10
  <2> HIDE DEF settled
  <2> QED BY <1>8, <2>2, <2>3, <2>4, <2>5
<1> QED BY <1>4, <1>9, <1>10

\* The settlement stands until the next hand, and a leaver does not touch it.
LEMMA KnockStaysFair ==
  ASSUME GinInv, GinInv', KnockIsFair, GinNext
  PROVE  KnockIsFair'
<1>1. ASSUME ~extra'.handComplete \/ extra'.result = WallResult PROVE KnockIsFair'
  BY <1>1 DEF KnockIsFair
<1>2. extra \in GinState
  BY DEF GinInv
<1>3. ASSUME phase = "Playing", extra.handPhase # "Over" PROVE ~extra.handComplete
  BY <1>3 DEF GinInv, GinHand
<1>4. ASSUME NEW i \in 0..(Len(players) - 1), GinStart(i) PROVE KnockIsFair'
  <2>1. ~extra'.handComplete
    BY <1>2, <1>4 DEF GinStart, GinBeginHand, GinState
  <2> QED BY <1>1, <2>1
<1>5. ASSUME NEW p \in Player, NextGinHand(p) PROVE KnockIsFair'
  <2>1. ~extra'.handComplete
    BY <1>2, <1>5 DEF NextGinHand, GinBeginHand, GinState
  <2> QED BY <1>1, <2>1
<1>6. ASSUME NEW p \in Player, DrawStock(p) \/ DrawDiscard(p) PROVE KnockIsFair'
  <2>1. phase = "Playing" /\ extra.handPhase = "Draw" /\ extra'.handComplete = extra.handComplete
    BY <1>2, <1>6 DEF DrawStock, DrawDiscard, MayAct, GinState
  <2> QED BY <1>1, <1>3, <2>1
<1>7. ASSUME NEW p \in Player, NEW c \in GinDeck, DiscardCard(p, c) PROVE KnockIsFair'
  <2> DEFINE x == [extra EXCEPT !.taken = None, !.turns = @ + 1, !.handPhase = "Draw"]
             y == [x EXCEPT !.result = WallResult]
  <2>1. phase = "Playing" /\ extra.handPhase = "Discard" /\ (extra' = x \/ HandEnds(y))
    BY <1>7 DEF DiscardCard, MayAct
  <2>2. x.handComplete = extra.handComplete /\ y.result = WallResult
    BY <1>2 DEF GinState
  <2>3. HandEnds(y) => extra'.result = WallResult
    BY <1>2, <2>2 DEF HandEnds, GinState
  <2> HIDE DEF x, y
  <2> QED BY <1>1, <1>3, <2>1, <2>2, <2>3
<1>8. ASSUME NEW p \in Player, GinLeave(p) PROVE KnockIsFair'
  <2>1. /\ Seated(p) /\ hands' = hands /\ extra' = extra /\ game' = game
        /\ players' = SeatsWithout(p) /\ leftPlayers' = Append(leftPlayers, p)
    BY <1>8 DEF GinLeave, AfterLeave
  <2>2. EverDealtIn' = EverDealtIn
    <3>1. /\ ToSet(players') = ToSet(players) \ {p} /\ p \in ToSet(players)
          /\ ToSet(leftPlayers') = ToSet(leftPlayers) \cup {p}
      BY <2>1, SeatsAfterLeave DEF GinInv
    <3> QED BY <3>1 DEF EverDealtIn
  <2> QED BY <2>1, <2>2 DEF KnockIsFair
<1>9. ASSUME NEW p \in Player, NEW c \in GinDeck, Knock(p, c) PROVE KnockIsFair'
  BY <1>9, KnockSettlesFairly
<1> QED BY <1>4, <1>5, <1>6, <1>7, <1>8, <1>9 DEF GinNext

\* Every split of the hands and every way to lay off, in whatever order: the split and the
\* layoffs the rules find leave no more.
THEOREM GinKnockIsFair == GinSpec => []KnockIsFair
<1>1. /\ NewTable
      /\ \E seats \in Seq(Player) :
           IsInjective(seats) /\ Len(seats) = 2 /\ DealsReach(seats) /\ GinInit(seats)
      => KnockIsFair
  BY DEF GinInit, KnockIsFair
<1>2. GinInv /\ GinInv' /\ KnockIsFair /\ [GamesNext]_tvars => KnockIsFair'
  <2> SUFFICES ASSUME GinInv, GinInv', KnockIsFair, [GamesNext]_tvars PROVE KnockIsFair'
    OBVIOUS
  <2>1. CASE UNCHANGED tvars
    BY <2>1 DEF tvars, seating, piles, KnockIsFair, EverDealtIn
  <2>2. CASE GamesNext
    BY <2>2, GinStep, KnockStaysFair
  <2> QED BY <2>1, <2>2
<1> QED BY <1>1, <1>2, GinCorrect, PTL DEF GinSpec

-----------------------------------------------------------------------------
(* The standings of gin rummy *)

GinKey == [p \in Player |-> -GinScore(p)]

\* The standings of gin rummy go by the totals, the higher first.
LEMMA GinStandingsAre ==
  ASSUME GinInv
  PROVE  GinKey \in [Player -> Int] /\ ByScoreIs(GinStandings, players, GinKey)
<1>1. players \in Seq(Player) /\ IsInjective(players) /\ extra.totals \in [Player -> Int]
  BY DEF GinInv, SeatsOk, GinState
<1>2. GinKey \in [Player -> Int]
  BY <1>1 DEF GinKey, GinScore
<1>3. IntsFor(GinKey, players)
  BY <1>1, <1>2 DEF IntsFor
<1>4. GinStandings = ByScore(players, GinKey)
  BY DEF GinStandings, GinKey
<1> QED BY <1>1, <1>2, <1>3, <1>4, ByScoreLists

\* The first of the standings is seated.
GinWinnerSeated == players # <<>> => GinStandings[1] \in ToSet(players)

\* The first of the standings of gin rummy is seated.
LEMMA GinFirstSeated ==
  ASSUME GinInv PROVE GinWinnerSeated
<1> SUFFICES ASSUME players # <<>> PROVE GinStandings[1] \in ToSet(players)
  BY DEF GinWinnerSeated
<1>1. /\ GinStandings \in Seq(Player) /\ Len(GinStandings) = Len(players)
      /\ ToSet(GinStandings) = ToSet(players) /\ players \in Seq(Player)
  BY GinStandingsAre DEF ByScoreIs, GinInv, SeatsOk
<1>2. 1 \in DOMAIN GinStandings
  BY <1>1
<1> QED BY <1>1, <1>2 DEF ToSet

\* Both of a gin rummy match get one place, a leaver the lower one, and they share one only
\* on equal scores (standingsLocked, placesLocked, ginrummy's Standings).
THEOREM GinPlacesRight == GinSpec => []PlacesRight
<1>1. GinInv => PlacesRight
  <2> SUFFICES ASSUME GinInv, phase = "Finished" PROVE PlacesRight
    BY DEF PlacesRight
  <2>1. SeatsOk /\ game = "gin_rummy" /\ Len(leftPlayers) <= 1 /\ extra.totals \in [Player -> Int]
    BY DEF GinInv, GinState
  <2>2. Standings = WithLeavers(GinStandings) /\ \A p : Score(p) = GinScore(p)
    BY <2>1 DEF Standings, Score
  <2>3. \A p, q \in Player : Score(p) = Score(q) <=> GinKey[p] = GinKey[q]
    BY <2>1, <2>2 DEF GinKey, GinScore
  <2>4. \A p, q \in ToSet(leftPlayers) : p = q
    <3>1. leftPlayers \in Seq(Player) /\ Len(leftPlayers) \in Nat
      BY <2>1 DEF SeatsOk
    <3>2. \A i, j \in DOMAIN leftPlayers : i = j
      BY <2>1, <3>1
    <3> QED BY <3>2 DEF ToSet
  <2> QED BY <2>1, <2>2, <2>3, <2>4, GinStandingsAre, PlacesByScore
<1> QED BY <1>1, GinCorrect, PTL

\* Gin rummy never loses a card and never has one twice: the hands, the stock and the pile
\* are apart, and while a hand is played they share out the deck (beginHand, ApplyAction,
\* applyKnock).
THEOREM GinCardsAreKept == GinSpec => []CardsKept
<1>1. GinInv => CardsKept
  <2> SUFFICES ASSUME GinInv PROVE CardsKept
    OBVIOUS
  <2>1. GinApart(hands, deck, discard, top) /\ game = "gin_rummy" /\ ~SheddingGame
    BY DEF GinInv, SheddingGame
  <2>2. HandsApart
    BY <2>1 DEF HandsApart, Apart, GinApart
  <2>3. ASSUME phase = "Playing" PROVE GinCardsKept
    <3>1. \A c : c \in Held(hands) <=> \E p \in Player : c \in hands[p]
      BY <2>1 DEF Held, Range, GinApart
    <3>2. ASSUME ~extra.handComplete PROVE Held(hands) \cup deck \cup discard = GinDeck
      <4>1. GinWhole(hands, deck, discard)
        BY <2>3, <3>2 DEF GinInv
      <4> QED BY <2>1, <3>1, <4>1 DEF GinWhole, GinApart
    <3> QED BY <2>1, <3>2 DEF GinCardsKept, GinApart
  <2> QED BY <2>1, <2>2, <2>3 DEF CardsKept
<1> QED BY <1>1, GinCorrect, PTL

\* The clock of a gin rummy table can always play: there is a card to draw, there is one to
\* discard that was not just taken off the pile, and a hand that is over has a next one
\* (TimeoutAction, autoDiscard).
THEOREM GinClockCanPlay == GinSpec => []ClockCanPlay
<1>1. GinInv => ClockCanPlay
  <2> SUFFICES ASSUME GinInv, phase = "Playing" PROVE GinClock
    BY DEF ClockCanPlay, GinInv
  <2>1. GinHand(extra, hands, ToSet(players), top, OnTurn) /\ hands \in [Player -> SUBSET GinDeck]
    BY DEF GinInv, GinApart
  <2>2. ASSUME extra.handPhase = "Discard"
        PROVE  LET cards == AutoDiscards(hands[OnTurn], extra.taken)
               IN  cards # {} /\ cards \subseteq hands[OnTurn] \ {extra.taken}
    <3>1. hands[OnTurn] \in SUBSET GinDeck /\ hands[OnTurn] \ {extra.taken} # {}
      BY <2>1, <2>2, GinOnTurn DEF GinHand, MayDiscard
    <3> QED BY <3>1, DiscardExists
  <2>3. /\ extra.handPhase = "Draw" => top # None
        /\ ~extra.matchComplete
    BY <2>1 DEF GinHand
  <2>4. extra.handPhase \in {"Draw", "Discard", "Over"}
    BY <2>1 DEF GinHand
  <2>5. CASE extra.handPhase = "Draw"
    BY <2>3, <2>5 DEF GinClock
  <2>6. CASE extra.handPhase = "Discard"
    BY <2>2, <2>6 DEF GinClock
  <2>7. CASE extra.handPhase = "Over"
    BY <2>3, <2>7 DEF GinClock
  <2> QED BY <2>4, <2>5, <2>6, <2>7
<1> QED BY <1>1, GinCorrect, PTL

\* Every step of gin rummy opens the table, moves or gives up a seat.
LEMMA GinKeepsMatchStep ==
  ASSUME GinInv, GinWinnerSeated', GinNext
  PROVE  [TheMatch!MatchNext]_(TheMatch!mvars)
<1>1. ASSUME NEW i \in 0..(Len(players) - 1), GinStart(i) PROVE [TheMatch!MatchNext]_(TheMatch!mvars)
  <2>1. /\ phase = "Waiting" /\ phase' = "Playing" /\ Len(players) = 2 /\ players \in Seq(Player)
        /\ players' = players /\ UNCHANGED <<reason, winner>>
    BY <1>1 DEF GinStart, Opened, GinInv, SeatsOk
  <2>2. ToSet(players) # {}
    <3>1. 1 \in DOMAIN players
      BY <2>1
    <3> QED BY <3>1 DEF ToSet
  <2>3. TheMatch!Begin
    BY <2>1, <2>2 DEF TheMatch!Begin, TheMatch!Becomes, TheMatch!Now
  <2> QED BY <2>3 DEF TheMatch!MatchNext
<1>2. ASSUME phase = "Playing", NEW won, NEW order, NEW over, AfterMove(won, order, over),
             won => order = GinStandings'
      PROVE  [TheMatch!MatchNext]_(TheMatch!mvars)
  <2>1. players' = players /\ players # <<>>
    BY <1>2 DEF AfterMove, GinInv
  <2>2. won => order[1] \in ToSet(players)
    BY <1>2, <2>1 DEF GinWinnerSeated
  <2> QED BY <1>2, <2>2, MoveMatches
<1>3. ASSUME NEW p \in Player, GinLeave(p) PROVE [TheMatch!MatchNext]_(TheMatch!mvars)
  <2>1. phase = "Playing" /\ Seated(p) /\ AfterLeave(p, extra.matchComplete, GinStandings', None)
    BY <1>3 DEF GinLeave
  <2>2. extra.matchComplete /\ players' # <<>> => GinStandings'[1] \in ToSet(players')
    BY DEF GinWinnerSeated
  <2>3. SeatsOk
    BY DEF GinInv
  <2> QED BY <2>1, <2>2, <2>3, LeaveMatches
<1>4. ASSUME NEW p \in Player, DrawStock(p) \/ DrawDiscard(p) \/ NextGinHand(p)
      PROVE  [TheMatch!MatchNext]_(TheMatch!mvars)
  <2>1. phase = "Playing" /\ \E over : AfterMove(FALSE, GinStandings, over)
    BY <1>4 DEF DrawStock, DrawDiscard, NextGinHand, MayAct
  <2> QED BY <1>2, <2>1
<1>5. ASSUME phase = "Playing", NEW x, HandEnds(x) PROVE [TheMatch!MatchNext]_(TheMatch!mvars)
  <2>1. \E won, over : AfterMove(won, GinStandings', over)
    BY <1>5 DEF HandEnds
  <2> QED BY <1>2, <1>5, <2>1
<1>6. ASSUME NEW p \in Player, NEW c \in GinDeck, DiscardCard(p, c) \/ Knock(p, c)
      PROVE  [TheMatch!MatchNext]_(TheMatch!mvars)
  <2>1. phase = "Playing"
    BY <1>6 DEF DiscardCard, Knock, MayAct
  <2>2. AfterMove(FALSE, GinStandings, None) \/ \E x : HandEnds(x)
    BY <1>6 DEF DiscardCard, Knock
  <2> QED BY <1>2, <1>5, <2>1, <2>2
<1> QED BY <1>1, <1>3, <1>4, <1>6 DEF GinNext

\* With the rules of gin rummy a table keeps what the abstract match promises the lobby: it
\* ends once, for a reason that fits its seats, and with a winner still seated.
THEOREM GinKeepsMatch == GinSpec => KeepsMatch
<1>1. GinInv => GinWinnerSeated
  BY GinFirstSeated
<1>2. GinInv /\ GinWinnerSeated' /\ [GamesNext]_tvars => [TheMatch!MatchNext]_(TheMatch!mvars)
  <2> SUFFICES ASSUME GinInv, GinWinnerSeated', [GamesNext]_tvars
               PROVE  [TheMatch!MatchNext]_(TheMatch!mvars)
    OBVIOUS
  <2>1. CASE UNCHANGED tvars
    BY <2>1 DEF tvars, seating, TheMatch!mvars
  <2>2. CASE GamesNext
    BY <2>2, GinStep, GinKeepsMatchStep
  <2> QED BY <2>1, <2>2
<1> QED BY <1>1, <1>2, GinCorrect, PTL DEF GinSpec, KeepsMatch

-----------------------------------------------------------------------------
(* Hearts: the cards, the turns and the seats *)

\* Every deal shares the whole deck out, to those who sit at the table only.
DealsShared(seats) ==
  \A hand \in Nat : \A d \in HeartsDeals(hand) :
    /\ d \in [Player -> SUBSET HeartsDeck] /\ Held(d) = HeartsDeck
    /\ \A p, q \in Player : p # q => d[p] \cap d[q] = {}
    /\ \A p \in Player : Cardinality(d[p]) = IF p \in ToSet(seats) THEN CardsPerHand ELSE 0

\* A table for four that is opened with hearts.
HeartsSpec ==
  /\ NewTable
  /\ \E seats \in Seq(Player) :
       IsInjective(seats) /\ Len(seats) = 4 /\ DealsShared(seats) /\ HeartsInit(seats)
  /\ [][GamesNext]_tvars

\* Functions on some of the players.
Partly(S) == UNION {[T -> S] : T \in SUBSET Player}

HeartsState ==
  [stage : {"Passing", "TrickPlay", "HandOver"}, pending : Partly(SUBSET HeartsDeck),
   ledSuit : {c.suit : c \in HeartsDeck} \cup {None}, trick : Partly(HeartsDeck),
   trickComplete : BOOLEAN, trickLeader : Int, heartsBroken : BOOLEAN, tricksPlayed : Nat,
   points : [Player -> Nat], totals : [Player -> Int], handNumber : Nat, dealer : Int,
   handComplete : BOOLEAN, matchComplete : BOOLEAN]

\* Who has a card in the trick that is being played.
InTrick(x) == IF x.trickComplete THEN {} ELSE DOMAIN x.trick

\* Nobody holds a card of somebody else.
HeartsApart(s, h) ==
  /\ h \in [Player -> SUBSET HeartsDeck]
  /\ \A p, q \in Player : p # q => h[p] \cap h[q] = {}
  /\ \A p \in Player \ ToSet(s) : h[p] = {}

\* While cards are passed, every card is in one hand or on its way out of one.
OnTheWay(s, h, pending) ==
  /\ DOMAIN pending \subseteq ToSet(s)
  /\ \A p \in ToSet(s) :
       Cardinality(h[p]) = CardsPerHand - IF p \in DOMAIN pending THEN CardsToPass ELSE 0
  /\ \A p \in DOMAIN pending :
       /\ pending[p] \in SUBSET HeartsDeck /\ Cardinality(pending[p]) = CardsToPass
       /\ \A q \in Player : pending[p] \cap h[q] = {}
       /\ \A q \in DOMAIN pending : q # p => pending[p] \cap pending[q] = {}
  /\ \A c \in HeartsDeck : (\E p \in Player : c \in h[p]) \/ \E p \in DOMAIN pending : c \in pending[p]

\* No card has been played.
BeforeTricks(x) == x.trick = NoTrick /\ ~x.trickComplete /\ x.tricksPlayed = 0 /\ x.points = NoPoints

\* Whoever is on turn has not passed yet.
HeartsPassing(s, h, x, who) ==
  /\ DirectionOf(x.handNumber) # "hold" /\ BeforeTricks(x)
  /\ OnTheWay(s, h, x.pending) /\ who \notin DOMAIN x.pending

\* The seats behind the one on turn have played, as many as there are cards on the table.
InSeatOrder(s, played, turn) ==
  \E j \in 0..3 : \A i \in 0..3 : s[i + 1] \in played <=> (turn - i) % 4 \in 1..j

\* Everybody holds the cards of the tricks to come.
HandsEven(s, h, played, tricks) ==
  \A p \in ToSet(s) : Cardinality(h[p]) = CardsPerHand - tricks - IF p \in played THEN 1 ELSE 0

\* The points charged are those of the cards that are out of play.
Charged(h, x) ==
  SumFunction(x.points) = Points(HeartsDeck \ (Held(h) \cup {x.trick[p] : p \in InTrick(x)}))

\* While tricks are played: the led suit is somebody's, and the 2 of clubs leads the first.
HeartsTrick(s, h, x, turn) ==
  /\ DOMAIN x.pending = {} /\ x.tricksPlayed < CardsPerHand
  /\ InTrick(x) \subseteq ToSet(s) /\ InSeatOrder(s, InTrick(x), turn)
  /\ HandsEven(s, h, InTrick(x), x.tricksPlayed)
  /\ \A p \in InTrick(x), q \in Player : x.trick[p] \notin h[q]
  /\ InTrick(x) # {} => \E p \in InTrick(x) : x.trick[p].suit = x.ledSuit
  /\ x.tricksPlayed = 0 =>
       IF InTrick(x) = {} THEN twoOfClubs \in h[s[turn + 1]] ELSE x.ledSuit = "Clubs"
  /\ Charged(h, x)

HeartsHand(s, h, x, turn) ==
  /\ HeartsApart(s, h)
  /\ ~x.matchComplete /\ (x.handComplete <=> x.stage = "HandOver")
  /\ x.stage = "Passing" => HeartsPassing(s, h, x, s[turn + 1])
  /\ x.stage = "TrickPlay" => HeartsTrick(s, h, x, turn)

HeartsInv ==
  /\ game = "hearts" /\ phase \in {"Waiting", "Playing", "Finished"}
  /\ SeatsOk /\ extra \in HeartsState /\ deck = {} /\ discard = {}
  /\ phase # "Finished" => Len(players) = 4 /\ leftPlayers = <<>> /\ DealsShared(players)
  /\ phase = "Finished" => Len(leftPlayers) <= 1
  /\ phase = "Playing" => currentTurn \in 0..3 /\ HeartsHand(players, hands, extra, currentTurn)

-----------------------------------------------------------------------------
(* Hearts: points, and functions on some players *)

\* The points of cards that are apart add up.
LEMMA PointsAdd ==
  ASSUME NEW A \in SUBSET HeartsDeck, NEW B \in SUBSET HeartsDeck, A \cap B = {}
  PROVE  Points(A) \in Nat /\ Points(A \cup B) = Points(A) + Points(B) /\ Points({}) = 0
<1> DEFINE H(S) == {c \in S : c.suit = "Hearts"}
<1>1. \A S \in SUBSET HeartsDeck : IsFiniteSet(H(S)) /\ Cardinality(H(S)) \in Nat
  BY HeartsAssumption, FS_Subset, FS_CardinalityType
<1>2. PICK X, Y, Z : X = H(A) /\ Y = H(B) /\ Z = H(A \cup B)
  OBVIOUS
<1>3. Z = X \cup Y /\ X \cap Y = {}
  BY <1>2
<1>4. IsFiniteSet(X) /\ IsFiniteSet(Y) /\ Cardinality(X) \in Nat /\ Cardinality(Y) \in Nat
  BY <1>1, <1>2
<1>5. Cardinality(Z) = Cardinality(X) + Cardinality(Y)
  <2>1. Cardinality(X \cup Y) = Cardinality(X) + Cardinality(Y) - Cardinality(X \cap Y)
    BY <1>4, FS_Union
  <2>2. Cardinality(X \cap Y) = 0 /\ Cardinality(Z) = Cardinality(X \cup Y)
    BY <1>3, FS_EmptySet
  <2> QED BY <1>4, <2>1, <2>2
<1>6. /\ Points(A) = Cardinality(X) + IF queenOfSpades \in A THEN 13 ELSE 0
      /\ Points(B) = Cardinality(Y) + IF queenOfSpades \in B THEN 13 ELSE 0
      /\ Points(A \cup B) = Cardinality(Z) + IF queenOfSpades \in A \cup B THEN 13 ELSE 0
  BY <1>2 DEF Points
<1>7. Points({}) = 0
  <2>1. {c \in {} : c.suit = "Hearts"} = {}
    OBVIOUS
  <2> QED BY <2>1, FS_EmptySet DEF Points
<1> QED BY <1>4, <1>5, <1>6, <1>7

\* A trick is charged to its winner, on top of what there was.
LEMMA ChargedToWinner ==
  ASSUME NEW points \in [Player -> Nat], NEW w \in Player, NEW n \in Nat
  PROVE  /\ [points EXCEPT ![w] = @ + n] \in [Player -> Nat]
         /\ SumFunction([points EXCEPT ![w] = @ + n]) = SumFunction(points) + n
         /\ SumFunction(points) \in Int
<1> DEFINE more == [points EXCEPT ![w] = @ + n]
<1>1. more \in [Player -> Nat] /\ more[w] = points[w] + n /\ \A q \in Player \ {w} : more[q] = points[q]
  OBVIOUS
<1>2. SumFunction(more) = SumFunctionOnSet(more, Player) /\ SumFunction(points) = SumFunctionOnSet(points, Player)
  <2>1. DOMAIN more = Player /\ DOMAIN points = Player
    OBVIOUS
  <2> HIDE DEF more
  <2> QED BY <2>1, Zenon DEF SumFunction
<1> HIDE DEF more
<1>3. IsFiniteSet(Player) /\ IntsOn(points, Player) /\ SameBut(more, points, Player, w)
  BY <1>1, PokerAssumption DEF IntsOn, SameBut
<1>4. SumFunctionOnSet(points, Player) \in Int
  BY <1>3, SumType
<1>5. SumFunctionOnSet(more, Player) = SumFunctionOnSet(points, Player) + (more[w] - points[w])
  BY <1>3, SumChange
<1>6. points[w] \in Nat /\ more[w] - points[w] = n
  BY <1>1
<1> QED BY <1>1, <1>2, <1>4, <1>5, <1>6 DEF more

\* Before the first trick nobody was charged.
LEMMA NoPointsYet == NoPoints \in [Player -> Nat] /\ SumFunction(NoPoints) = 0
<1>1. NoPoints \in [Player -> Nat] /\ DOMAIN NoPoints = Player
  BY DEF NoPoints
<1>2. SumFunction(NoPoints) = SumFunctionOnSet(NoPoints, Player)
  BY <1>1, Zenon DEF SumFunction
<1>3. SumFunctionOnSet(NoPoints, Player) = 0
  BY PokerAssumption, SumOfNothing DEF NoPoints
<1> QED BY <1>1, <1>2, <1>3

\* What it means to be a function on some of the players.
LEMMA PartlyIs ==
  ASSUME NEW S, NEW f
  PROVE  f \in Partly(S) <=> /\ f = [p \in DOMAIN f |-> f[p]] /\ DOMAIN f \subseteq Player
                             /\ \A p \in DOMAIN f : f[p] \in S
BY DEF Partly

-----------------------------------------------------------------------------
(* Hearts: the seats *)

\* The four seats of a table and who sits there.
LEMMA FourSeats ==
  ASSUME SeatsOk, Len(players) = 4
  PROVE  /\ players \in Seq(Player) /\ ToSet(players) \subseteq Player
         /\ IsFiniteSet(ToSet(players)) /\ Cardinality(ToSet(players)) = 4
         /\ \A i \in 0..3 : SeatAt(i) = players[i + 1] /\ SeatAt(i) \in ToSet(players) /\ SeatOf(SeatAt(i)) = i
         /\ \A p \in ToSet(players) : SeatOf(p) \in 0..3 /\ SeatAt(SeatOf(p)) = p
         /\ \A i, j \in 0..3 : SeatAt(i) = SeatAt(j) => i = j
         /\ \A p : Seated(p) <=> p \in ToSet(players)
<1>1. players \in Seq(Player) /\ DOMAIN players = 1..4 /\ IsInjective(players) /\ \A i \in 1..4 : players[i] \in Player
  <2>1. players \in Seq(Player) /\ IsInjective(players)
    BY DEF SeatsOk
  <2> QED BY <2>1
<1>2. ToSet(players) = {players[i] : i \in 1..4}
  BY <1>1 DEF ToSet
<1>3. IsFiniteSet(ToSet(players)) /\ Cardinality(ToSet(players)) = 4
  <2>1. IsFiniteSet(ToSet(players))
    BY <1>1, <1>2, PokerAssumption, FS_Subset
  <2> QED BY <1>1, <2>1, LengthIsCount
<1>4. \A i, j \in 1..4 : players[i] = players[j] => i = j
  BY <1>1 DEF IsInjective
<1>5. \A p \in ToSet(players) : \E i \in 1..4 : players[i] = p /\ SeatOf(p) = i - 1
  <2> SUFFICES ASSUME NEW p \in ToSet(players) PROVE \E i \in 1..4 : players[i] = p /\ SeatOf(p) = i - 1
    OBVIOUS
  <2>1. \E i \in 1..Len(players) : players[i] = p
    BY <1>2
  <2>2. PICK k : k = CHOOSE i \in 1..Len(players) : players[i] = p
    OBVIOUS
  <2>3. k \in 1..Len(players) /\ players[k] = p
    BY <2>1, <2>2
  <2> QED BY <2>2, <2>3 DEF SeatOf
<1>6. \A i \in 0..3 : SeatAt(i) = players[i + 1] /\ SeatAt(i) \in ToSet(players)
  BY <1>2 DEF SeatAt
<1>7. \A p \in ToSet(players) : SeatOf(p) \in 0..3 /\ SeatAt(SeatOf(p)) = p
  <2> SUFFICES ASSUME NEW p \in ToSet(players) PROVE SeatOf(p) \in 0..3 /\ SeatAt(SeatOf(p)) = p
    OBVIOUS
  <2>1. PICK i \in 1..4 : players[i] = p /\ SeatOf(p) = i - 1
    BY <1>5
  <2>2. i - 1 \in 0..3 /\ (i - 1) + 1 = i
    OBVIOUS
  <2> QED BY <2>1, <2>2 DEF SeatAt
<1>8. \A i, j \in 0..3 : SeatAt(i) = SeatAt(j) => i = j
  <2> SUFFICES ASSUME NEW i \in 0..3, NEW j \in 0..3, SeatAt(i) = SeatAt(j) PROVE i = j
    OBVIOUS
  <2>1. i + 1 \in 1..4 /\ j + 1 \in 1..4
    OBVIOUS
  <2>2. i + 1 = j + 1
    BY <1>4, <2>1 DEF SeatAt
  <2> QED BY <2>2
<1>9. \A i \in 0..3 : SeatOf(SeatAt(i)) = i
  BY <1>6, <1>7, <1>8
<1>10. \A p : Seated(p) <=> p \in ToSet(players)
  BY <1>2 DEF Seated
<1> QED BY <1>1, <1>2, <1>3, <1>6, <1>7, <1>8, <1>9, <1>10

\* What a move leaves of the seats (submitActionLocked, applyNextTurnLocked).
LEMMA HeartsMoved ==
  ASSUME HeartsInv, phase = "Playing", NEW won, NEW order, NEW over \in (0..3) \cup {None},
         AfterMove(won, order, over)
  PROVE  /\ game' = game /\ players' = players /\ leftPlayers' = leftPlayers /\ SeatsOk'
         /\ won => phase' = "Finished"
         /\ ~won => /\ phase' = "Playing" /\ currentTurn' \in 0..3
                    /\ currentTurn' = IF over = None THEN (currentTurn + 1) % 4 ELSE over
<1>1. game' = game /\ players' = players /\ leftPlayers' = leftPlayers
  BY DEF AfterMove
<1>2. currentTurn \in 0..3 /\ Len(players) = 4 /\ None \notin 0..3
  BY TableAssumption DEF HeartsInv
<1>3. ASSUME ~won
      PROVE  /\ phase' = "Playing" /\ currentTurn' \in 0..3
             /\ currentTurn' = IF over = None THEN (currentTurn + 1) % 4 ELSE over
  <2>1. PlayOn(currentTurn + 1, over, 4)
    BY <1>2, <1>3 DEF AfterMove
  <2>2. phase' = phase /\ currentTurn' = (IF over = None THEN currentTurn + 1 ELSE over) % 4
    BY <2>1 DEF PlayOn, Clamp
  <2>3. CASE over = None
    BY <1>2, <2>2, <2>3
  <2>4. CASE over # None
    BY <1>2, <2>2, <2>4
  <2> QED BY <2>3, <2>4
<1>4. won => phase' = "Finished"
  BY DEF AfterMove, Finish
<1> QED BY <1>1, <1>3, <1>4 DEF SeatsOk, HeartsInv

\* A move keeps the invariant if it leaves the hand in a state that may follow.
LEMMA HeartsMoveKeepsInv ==
  ASSUME HeartsInv, phase = "Playing", NEW won, NEW order, NEW over \in (0..3) \cup {None},
         AfterMove(won, order, over), UNCHANGED piles, extra' \in HeartsState,
         ~won => HeartsHand(players, hands', extra', IF over = None THEN (currentTurn + 1) % 4 ELSE over)
  PROVE  HeartsInv'
<1>1. /\ game' = game /\ players' = players /\ leftPlayers' = leftPlayers /\ SeatsOk'
      /\ won => phase' = "Finished"
      /\ ~won => /\ phase' = "Playing" /\ currentTurn' \in 0..3
                 /\ currentTurn' = IF over = None THEN (currentTurn + 1) % 4 ELSE over
  BY HeartsMoved
<1>2. /\ Len(players) = 4 /\ leftPlayers = <<>> /\ DealsShared(players) /\ game = "hearts"
      /\ deck = {} /\ discard = {}
  BY DEF HeartsInv
<1>3. DealsShared(players') /\ deck' = {} /\ discard' = {} /\ Len(leftPlayers') <= 1
  BY <1>1, <1>2 DEF piles
<1>4. ~won => HeartsHand(players', hands', extra', currentTurn')
  BY <1>1
<1> QED BY <1>1, <1>2, <1>3, <1>4 DEF HeartsInv

-----------------------------------------------------------------------------
(* Hearts: the deal and the pass *)

\* The pass goes left, right, across or not at all (PassDirection).
LEMMA DirectionIs ==
  ASSUME NEW hand \in Nat
  PROVE  DirectionOf(hand) \in {"left", "right", "across", "hold"}
<1>1. (hand - 1) % 4 \in 0..3
  OBVIOUS
<1>2. PICK i \in 0..3 : i = (hand - 1) % 4
  BY <1>1
<1> QED BY <1>2 DEF DirectionOf, PassDirections

\* Somebody seated leads the 2 of clubs.
LEMMA TwoOfClubsHeld ==
  ASSUME SeatsOk, Len(players) = 4, NEW hs, \E p \in ToSet(players) : twoOfClubs \in hs[p]
  PROVE  /\ TwoOfClubsSeat(hs) \in 0..3
         /\ twoOfClubs \in hs[players[TwoOfClubsSeat(hs) + 1]]
<1>1. PICK p : p = CHOOSE q \in ToSet(players) : twoOfClubs \in hs[q]
  OBVIOUS
<1>2. p \in ToSet(players) /\ twoOfClubs \in hs[p]
  BY <1>1
<1>3. TwoOfClubsSeat(hs) = SeatOf(p)
  BY <1>1 DEF TwoOfClubsSeat
<1> QED BY <1>2, <1>3, FourSeats DEF SeatAt

\* Nobody has played yet, and everybody has a full hand.
LEMMA TricksBegin ==
  ASSUME SeatsOk, Len(players) = 4, NEW h, HeartsApart(players, h), NEW x, x \in HeartsState,
         BeforeTricks(x), DOMAIN x.pending = {}, NEW turn \in 0..3,
         \A p \in ToSet(players) : Cardinality(h[p]) = CardsPerHand,
         \A c \in HeartsDeck : \E p \in Player : c \in h[p],
         twoOfClubs \in h[players[turn + 1]]
  PROVE  HeartsTrick(players, h, x, turn)
<1>1. InTrick(x) = {} /\ x.tricksPlayed = 0 /\ x.points = NoPoints
  BY DEF InTrick, BeforeTricks, NoTrick
<1>2. CardsPerHand \in Nat /\ 0 < CardsPerHand
  BY HeartsAssumption
<1>3. InSeatOrder(players, {}, turn)
  <2>1. \A i \in 0..3 : players[i + 1] \in {} <=> (turn - i) % 4 \in 1..0
    OBVIOUS
  <2>2. 0 \in 0..3
    OBVIOUS
  <2> QED BY <2>1, <2>2 DEF InSeatOrder
<1>4. HandsEven(players, h, {}, 0)
  BY <1>2 DEF HandsEven
<1>5. Charged(h, x)
  <2>1. HeartsDeck \ (Held(h) \cup {x.trick[p] : p \in InTrick(x)}) = {}
    BY <1>1 DEF Held, Range, HeartsApart
  <2>2. Points({}) = 0
    <3>1. {} \in SUBSET HeartsDeck /\ {} \cap {} = {}
      OBVIOUS
    <3> QED BY <3>1, PointsAdd
  <2> QED BY <1>1, <2>1, <2>2, NoPointsYet DEF Charged
<1> QED BY <1>1, <1>2, <1>3, <1>4, <1>5 DEF HeartsTrick

\* The state of a new hand (resetHandState).
LEMMA FreshIs ==
  ASSUME NEW hand \in Nat, NEW dealer \in Int, NEW totals \in [Player -> Int]
  PROVE  FreshHand(hand, dealer, totals) \in HeartsState
<1>1. [q \in {} |-> {}] \in Partly(SUBSET HeartsDeck) /\ NoTrick \in Partly(HeartsDeck)
  BY PartlyIs DEF NoTrick
<1>2. NoPoints \in [Player -> Nat]
  BY NoPointsYet
<1>3. PICK stage : /\ stage = IF DirectionOf(hand) = "hold" THEN "TrickPlay" ELSE "Passing"
                   /\ stage \in {"Passing", "TrickPlay", "HandOver"}
  OBVIOUS
<1>4. FreshHand(hand, dealer, totals)
        = [stage |-> stage, pending |-> [q \in {} |-> {}], ledSuit |-> None,
           trick |-> NoTrick, trickComplete |-> FALSE, trickLeader |-> 0,
           heartsBroken |-> FALSE, tricksPlayed |-> 0, points |-> NoPoints,
           totals |-> totals, handNumber |-> hand, dealer |-> dealer,
           handComplete |-> FALSE, matchComplete |-> FALSE]
  BY <1>3 DEF FreshHand
<1> HIDE <1>3
<1> QED BY <1>1, <1>2, <1>3, <1>4 DEF HeartsState

\* A hand begins with a deal that leaves no card over (beginHand).
LEMMA HeartsDealt ==
  ASSUME SeatsOk, Len(players) = 4, DealsShared(players), NEW hand \in Nat, NEW dealer \in 0..3,
         NEW totals \in [Player -> Int], HeartsBeginHand(hand, dealer, totals)
  PROVE  /\ extra' \in HeartsState /\ FirstSeat(hand, dealer, hands') \in 0..3
         /\ HeartsHand(players, hands', extra', FirstSeat(hand, dealer, hands'))
<1>1. hands' \in HeartsDeals(hand) /\ extra' = FreshHand(hand, dealer, totals)
  BY DEF HeartsBeginHand
<1>2. /\ hands' \in [Player -> SUBSET HeartsDeck] /\ Held(hands') = HeartsDeck
      /\ \A p, q \in Player : p # q => hands'[p] \cap hands'[q] = {}
      /\ \A p \in Player : Cardinality(hands'[p]) = IF p \in ToSet(players) THEN CardsPerHand ELSE 0
  BY <1>1 DEF DealsShared
<1>3. HeartsApart(players, hands')
  <2>1. \A p \in Player \ ToSet(players) : hands'[p] = {}
    <3>1. \A p \in Player : IsFiniteSet(hands'[p])
      BY <1>2, HeartsAssumption, FS_Subset
    <3> QED BY <1>2, <3>1, FS_EmptySet
  <2> QED BY <1>2, <2>1 DEF HeartsApart
<1>4. \A c \in HeartsDeck : \E p \in Player : c \in hands'[p]
  BY <1>2 DEF Held, Range
<1>5. /\ extra'.pending = [q \in {} |-> {}] /\ DOMAIN extra'.pending = {} /\ BeforeTricks(extra')
      /\ ~extra'.matchComplete /\ ~extra'.handComplete /\ extra'.handNumber = hand
      /\ extra'.stage = IF DirectionOf(hand) = "hold" THEN "TrickPlay" ELSE "Passing"
  BY <1>1 DEF FreshHand, BeforeTricks
<1>6. extra' \in HeartsState
  BY <1>1, FreshIs
<1>7. /\ TwoOfClubsSeat(hands') \in 0..3
      /\ twoOfClubs \in hands'[players[TwoOfClubsSeat(hands') + 1]]
  <2>1. \E p \in ToSet(players) : twoOfClubs \in hands'[p]
    BY <1>3, <1>4, HeartsAssumption DEF HeartsApart
  <2> QED BY <2>1, TwoOfClubsHeld
<1>8. CASE DirectionOf(hand) = "hold"
  <2>1. FirstSeat(hand, dealer, hands') = TwoOfClubsSeat(hands')
    BY <1>8 DEF FirstSeat
  <2>2. \A p \in ToSet(players) : Cardinality(hands'[p]) = CardsPerHand
    BY <1>2, FourSeats
  <2>3. HeartsTrick(players, hands', extra', TwoOfClubsSeat(hands'))
    BY <1>3, <1>4, <1>5, <1>6, <1>7, <2>2, TricksBegin
  <2> QED BY <1>3, <1>5, <1>6, <1>7, <1>8, <2>1, <2>3 DEF HeartsHand
<1>9. CASE DirectionOf(hand) # "hold"
  <2>1. FirstSeat(hand, dealer, hands') = dealer
    BY <1>9 DEF FirstSeat
  <2>2. OnTheWay(players, hands', extra'.pending)
    <3>1. \A p \in ToSet(players) : Cardinality(hands'[p]) = CardsPerHand /\ CardsPerHand - 0 = CardsPerHand
      BY <1>2, FourSeats, HeartsAssumption
    <3> QED BY <1>4, <1>5, <3>1 DEF OnTheWay
  <2>3. HeartsPassing(players, hands', extra', players[dealer + 1])
    BY <1>5, <1>9, <2>2 DEF HeartsPassing
  <2> QED BY <1>3, <1>5, <1>6, <1>9, <2>1, <2>3 DEF HeartsHand
<1> QED BY <1>8, <1>9

\* Somebody's cards are put aside for another.
LEMMA PutAside ==
  ASSUME SeatsOk, Len(players) = 4, NEW h, HeartsApart(players, h), NEW pending,
         OnTheWay(players, h, pending), NEW p \in ToSet(players), p \notin DOMAIN pending,
         NEW cards \in kSubset(CardsToPass, h[p]), NEW rest \in [Player -> SUBSET HeartsDeck],
         \A q \in Player : rest[q] = IF q = p THEN h[p] \ cards ELSE h[q],
         NEW more, DOMAIN more = DOMAIN pending \cup {p}, more[p] = cards,
         \A q \in DOMAIN pending : more[q] = pending[q]
  PROVE  HeartsApart(players, rest) /\ OnTheWay(players, rest, more)
<1>1. /\ p \in Player /\ ToSet(players) \subseteq Player /\ h \in [Player -> SUBSET HeartsDeck]
      /\ cards \subseteq h[p] /\ Cardinality(cards) = CardsToPass
  BY FourSeats DEF HeartsApart, kSubset
<1>2. \A q \in Player : rest[q] = IF q = p THEN h[p] \ cards ELSE h[q]
  OBVIOUS
<1>3. /\ DOMAIN more = DOMAIN pending \cup {p} /\ more[p] = cards
      /\ \A q \in DOMAIN pending : more[q] = pending[q]
  OBVIOUS
<1>4. HeartsApart(players, rest)
  <2>1. rest \in [Player -> SUBSET HeartsDeck]
    BY <1>1
  <2>2. \A q, r \in Player : q # r => rest[q] \cap rest[r] = {}
    BY <1>1, <1>2 DEF HeartsApart
  <2>3. \A q \in Player \ ToSet(players) : rest[q] = {}
    BY <1>2 DEF HeartsApart
  <2> QED BY <2>1, <2>2, <2>3 DEF HeartsApart
<1>5. Cardinality(rest[p]) = CardsPerHand - CardsToPass
  <2>1. IsFiniteSet(h[p]) /\ IsFiniteSet(cards)
    BY <1>1, HeartsAssumption, FS_Subset
  <2>2. Cardinality(h[p] \ cards) = Cardinality(h[p]) - Cardinality(h[p] \cap cards)
    BY <2>1, FS_Difference
  <2>3. h[p] \cap cards = cards
    BY <1>1
  <2>4. Cardinality(h[p]) = CardsPerHand /\ CardsPerHand \in Nat /\ CardsToPass \in Nat
    <3>1. Cardinality(h[p]) = CardsPerHand - 0
      BY DEF OnTheWay
    <3> QED BY <3>1, HeartsAssumption
  <2> QED BY <1>1, <1>2, <2>2, <2>3, <2>4
<1>6. ASSUME NEW q \in ToSet(players)
      PROVE  Cardinality(rest[q]) = CardsPerHand - IF q \in DOMAIN more THEN CardsToPass ELSE 0
  <2>1. CASE q = p
    BY <1>3, <1>5, <2>1
  <2>2. CASE q # p
    <3>1. rest[q] = h[q] /\ (q \in DOMAIN more <=> q \in DOMAIN pending)
      BY <1>1, <1>2, <1>3, <2>2
    <3> QED BY <3>1 DEF OnTheWay
  <2> QED BY <2>1, <2>2
<1>7. ASSUME NEW q \in DOMAIN more
      PROVE  /\ more[q] \in SUBSET HeartsDeck /\ Cardinality(more[q]) = CardsToPass
             /\ \A r \in Player : more[q] \cap rest[r] = {}
             /\ \A r \in DOMAIN more : r # q => more[q] \cap more[r] = {}
  <2>1. \A r \in Player : rest[r] \subseteq h[r]
    BY <1>2
  <2>2. CASE q = p
    <3>1. \A r \in Player : cards \cap rest[r] = {}
      BY <1>1, <1>2 DEF HeartsApart
    <3>2. \A r \in DOMAIN pending : cards \cap pending[r] = {}
      BY <1>1 DEF OnTheWay
    <3> QED BY <1>1, <1>3, <2>2, <3>1, <3>2
  <2>3. CASE q # p
    <3>1. q \in DOMAIN pending
      BY <1>3, <2>3
    <3>2. \A r \in Player : pending[q] \cap h[r] = {}
      BY <3>1 DEF OnTheWay
    <3> QED BY <1>1, <1>3, <2>1, <3>1, <3>2 DEF OnTheWay
  <2> QED BY <2>2, <2>3
<1>8. ASSUME NEW c \in HeartsDeck
      PROVE  (\E q \in Player : c \in rest[q]) \/ \E q \in DOMAIN more : c \in more[q]
  BY <1>1, <1>2, <1>3 DEF OnTheWay
<1>9. DOMAIN more \subseteq ToSet(players)
  BY <1>3 DEF OnTheWay
<1> QED BY <1>3, <1>4, <1>6, <1>7, <1>8, <1>9 DEF OnTheWay

\* The next to pass has not passed yet.
LEMMA NextMayPass ==
  ASSUME SeatsOk, Len(players) = 4, currentTurn \in 0..3, NEW pending,
         \E p \in ToSet(players) : p \notin DOMAIN pending
  PROVE  NextUnpassed(pending) \in 0..3 /\ players[NextUnpassed(pending) + 1] \notin DOMAIN pending
<1> DEFINE open == {k \in 1..4 : SeatAt((currentTurn + k) % 4) \notin DOMAIN pending}
<1>1. PICK i \in 0..3 : SeatAt(i) \notin DOMAIN pending
  BY FourSeats
<1>2. \E k \in 1..4 : (currentTurn + k) % 4 = i
  <2>1. CASE i > currentTurn
    <3>1. i - currentTurn \in 1..4 /\ (currentTurn + (i - currentTurn)) % 4 = i
      BY <2>1
    <3> QED BY <3>1
  <2>2. CASE i <= currentTurn
    <3>1. (i + 4) - currentTurn \in 1..4 /\ (currentTurn + ((i + 4) - currentTurn)) % 4 = i
      BY <2>2
    <3> QED BY <3>1
  <2> QED BY <2>1, <2>2
<1>3. open # {} /\ open \subseteq Nat
  <2>1. PICK k \in 1..4 : (currentTurn + k) % 4 = i
    BY <1>2
  <2>2. k \in open
    BY <1>1, <2>1
  <2>3. open \subseteq Nat
    OBVIOUS
  <2> HIDE DEF open
  <2> QED BY <2>2, <2>3
<1>4. NextUnpassed(pending) = (currentTurn + Min(open)) % 4
  BY DEF NextUnpassed
<1>5. Min(open) \in open
  <2> HIDE DEF open
  <2>1. \E x \in open : \A y \in open : x =< y
    BY <1>3, NatHasLeast
  <2> QED BY <2>1, Zenon DEF Min
<1>6. PICK k \in 1..4 : k = Min(open) /\ SeatAt((currentTurn + k) % 4) \notin DOMAIN pending
  BY <1>5
<1>7. NextUnpassed(pending) = (currentTurn + k) % 4
  BY <1>4, <1>6
<1>8. (currentTurn + k) % 4 \in 0..3
  OBVIOUS
<1> QED BY <1>6, <1>7, <1>8 DEF SeatAt

\* Each hand has one giver, and each giver one hand to give to (passRecipient).
LEMMA GiversAre ==
  ASSUME SeatsOk, Len(players) = 4, DirectionOf(extra.handNumber) \in {"left", "right", "across"},
         NEW h, NEW pending
  PROVE  \E g \in [ToSet(players) -> ToSet(players)] :
           /\ \A p, q \in ToSet(players) : g[p] = g[q] => p = q
           /\ \A q \in ToSet(players) : \E p \in ToSet(players) : g[p] = q
           /\ AfterAllPasses(h, pending)
                = [p \in Player |-> IF p \in ToSet(players) THEN h[p] \cup pending[g[p]] ELSE h[p]]
<1> DEFINE S == ToSet(players)
           dir == DirectionOf(extra.handNumber)
           Reach(i) == Recipient(i, dir)
           Back(i) == IF dir = "left" THEN (i + 3) % 4 ELSE IF dir = "right" THEN (i + 1) % 4 ELSE (i + 2) % 4
           giver(p) == CHOOSE q \in S : SeatAt(Reach(SeatOf(q))) = p
           g == [p \in S |-> SeatAt(Back(SeatOf(p)))]
<1>1. \A i \in 0..3 : Reach(i) \in 0..3 /\ Back(i) \in 0..3 /\ Reach(Back(i)) = i /\ Back(Reach(i)) = i
  <2>1. CASE dir = "left"
    BY <2>1 DEF Recipient
  <2>2. CASE dir = "right"
    BY <2>2 DEF Recipient
  <2>3. CASE dir = "across"
    BY <2>3 DEF Recipient
  <2> QED BY <2>1, <2>2, <2>3
<1> HIDE DEF Reach, Back
<1>2. /\ \A p \in S : SeatOf(p) \in 0..3 /\ SeatAt(SeatOf(p)) = p
      /\ \A i \in 0..3 : SeatAt(i) \in S /\ SeatOf(SeatAt(i)) = i
      /\ \A p : Seated(p) <=> p \in S
  BY FourSeats
<1>3. g \in [S -> S]
  BY <1>1, <1>2
<1>4. ASSUME NEW p \in S PROVE giver(p) = g[p]
  <2>1. g[p] \in S /\ SeatAt(Reach(SeatOf(g[p]))) = p
    BY <1>1, <1>2
  <2>2. ASSUME NEW q \in S, SeatAt(Reach(SeatOf(q))) = p PROVE q = g[p]
    <3>1. SeatOf(p) = Reach(SeatOf(q))
      BY <1>1, <1>2, <2>2
    <3>2. SeatAt(Back(SeatOf(p))) = q
      BY <1>1, <1>2, <3>1
    <3> QED BY <3>2
  <2> HIDE DEF g, S
  <2> QED BY <2>1, <2>2
<1>5. \A p, q \in S : g[p] = g[q] => p = q
  BY <1>1, <1>2
<1>6. ASSUME NEW q \in S PROVE \E p \in S : g[p] = q
  <2>1. SeatAt(Reach(SeatOf(q))) \in S /\ g[SeatAt(Reach(SeatOf(q)))] = q
    BY <1>1, <1>2
  <2> QED BY <2>1
<1>7. AfterAllPasses(h, pending) = [p \in Player |-> IF p \in S THEN h[p] \cup pending[giver(p)] ELSE h[p]]
  BY <1>2 DEF AfterAllPasses, Reach
<1> HIDE DEF giver, g, S
<1>8. AfterAllPasses(h, pending) = [p \in Player |-> IF p \in S THEN h[p] \cup pending[g[p]] ELSE h[p]]
  BY <1>4, <1>7
<1> QED BY <1>3, <1>5, <1>6, <1>8 DEF S

\* Once everybody has passed, every card is in one hand again, and hands are full.
LEMMA AllPassed ==
  ASSUME SeatsOk, Len(players) = 4, DirectionOf(extra.handNumber) \in {"left", "right", "across"},
         NEW h, HeartsApart(players, h), NEW pending, OnTheWay(players, h, pending),
         ToSet(players) \subseteq DOMAIN pending, NEW hs, hs = AfterAllPasses(h, pending)
  PROVE  /\ HeartsApart(players, hs)
         /\ \A p \in ToSet(players) : Cardinality(hs[p]) = CardsPerHand
         /\ \A c \in HeartsDeck : \E p \in Player : c \in hs[p]
<1> DEFINE S == ToSet(players)
<1>1. PICK g \in [S -> S] :
           /\ \A p, q \in S : g[p] = g[q] => p = q
           /\ \A q \in S : \E p \in S : g[p] = q
           /\ hs = [p \in Player |-> IF p \in S THEN h[p] \cup pending[g[p]] ELSE h[p]]
  BY GiversAre
<1>2. S \subseteq Player /\ DOMAIN pending = S /\ h \in [Player -> SUBSET HeartsDeck]
  BY FourSeats DEF OnTheWay, HeartsApart
<1>3. /\ \A p \in S : /\ pending[p] \in SUBSET HeartsDeck /\ Cardinality(pending[p]) = CardsToPass
                      /\ \A q \in Player : pending[p] \cap h[q] = {}
                      /\ \A q \in S : q # p => pending[p] \cap pending[q] = {}
                      /\ Cardinality(h[p]) = CardsPerHand - CardsToPass
      /\ \A c \in HeartsDeck : (\E p \in Player : c \in h[p]) \/ \E p \in S : c \in pending[p]
  BY <1>2 DEF OnTheWay
<1> HIDE DEF S
<1>4. \A p \in S : g[p] \in S /\ hs[p] = h[p] \cup pending[g[p]]
  BY <1>1, <1>2
<1>5. \A p \in Player \ S : hs[p] = h[p] /\ h[p] = {}
  BY <1>1 DEF HeartsApart, S
<1>6. hs \in [Player -> SUBSET HeartsDeck]
  BY <1>1, <1>2, <1>3
<1>7. ASSUME NEW p \in Player, NEW q \in Player, p # q PROVE hs[p] \cap hs[q] = {}
  <2>1. CASE p \in S /\ q \in S
    <3>1. g[p] # g[q]
      BY <1>1, <1>7, <2>1
    <3>2. h[p] \cap h[q] = {} /\ pending[g[p]] \cap pending[g[q]] = {}
      BY <1>3, <1>4, <1>7, <2>1, <3>1 DEF HeartsApart
    <3>3. pending[g[p]] \cap h[q] = {} /\ pending[g[q]] \cap h[p] = {}
      BY <1>3, <1>4, <2>1
    <3> QED BY <1>4, <2>1, <3>2, <3>3
  <2>2. CASE p \notin S \/ q \notin S
    BY <1>5, <2>2
  <2> QED BY <2>1, <2>2
<1>8. ASSUME NEW p \in S PROVE Cardinality(hs[p]) = CardsPerHand
  <2>1. PICK A, B : A = h[p] /\ B = pending[g[p]]
    OBVIOUS
  <2>2. /\ A \in SUBSET HeartsDeck /\ B \in SUBSET HeartsDeck /\ A \cap B = {}
        /\ Cardinality(A) = CardsPerHand - CardsToPass /\ Cardinality(B) = CardsToPass
    BY <1>2, <1>3, <1>4, <2>1
  <2>3. IsFiniteSet(A) /\ IsFiniteSet(B)
    BY <2>2, HeartsAssumption, FS_Subset
  <2>4. Cardinality(A \cup B) = Cardinality(A) + Cardinality(B) - Cardinality(A \cap B)
    BY <2>3, FS_Union
  <2>5. Cardinality(A \cap B) = 0
    BY <2>2, FS_EmptySet
  <2>6. CardsPerHand \in Nat /\ CardsToPass \in Nat
    BY HeartsAssumption
  <2>7. Cardinality(A \cup B) = CardsPerHand
    BY <2>2, <2>4, <2>5, <2>6
  <2>8. hs[p] = A \cup B
    BY <1>4, <2>1
  <2> QED BY <2>7, <2>8
<1>9. ASSUME NEW c \in HeartsDeck PROVE \E p \in Player : c \in hs[p]
  <2>1. CASE \E p \in Player : c \in h[p]
    BY <1>4, <1>5, <2>1
  <2>2. CASE \E p \in S : c \in pending[p]
    <3>1. PICK q \in S : c \in pending[q]
      BY <2>2
    <3>2. PICK p \in S : g[p] = q
      BY <1>1
    <3> QED BY <1>2, <1>4, <3>1, <3>2
  <2> QED BY <1>3, <2>1, <2>2
<1> QED BY <1>5, <1>6, <1>7, <1>8, <1>9 DEF HeartsApart, S

-----------------------------------------------------------------------------
(* Hearts: the steps around the tricks *)

\* What is known of a table in play, and of whoever is on turn.
LEMMA HeartsOnTurn ==
  ASSUME HeartsInv, phase = "Playing"
  PROVE  /\ SeatsOk /\ Len(players) = 4 /\ DealsShared(players) /\ extra \in HeartsState
         /\ currentTurn \in 0..3 /\ OnTurn = players[currentTurn + 1] /\ OnTurn \in ToSet(players)
         /\ OnTurn \in Player /\ HeartsApart(players, hands)
         /\ HeartsHand(players, hands, extra, currentTurn)
<1>1. /\ SeatsOk /\ Len(players) = 4 /\ DealsShared(players) /\ extra \in HeartsState
      /\ currentTurn \in 0..3 /\ HeartsHand(players, hands, extra, currentTurn)
  BY DEF HeartsInv
<1>2. OnTurn = players[currentTurn + 1] /\ OnTurn \in ToSet(players) /\ ToSet(players) \subseteq Player
  BY <1>1, FourSeats DEF OnTurn
<1> QED BY <1>1, <1>2 DEF HeartsHand

\* Cards are put aside; the last to pass has all of them handed over (ApplyAction, afterPass).
LEMMA HeartsPassStep ==
  ASSUME HeartsInv, NEW p \in Player, NEW cards \in kSubset(CardsToPass, hands[p]), PassCards(p, cards)
  PROVE  HeartsInv'
<1> DEFINE rest == [hands EXCEPT ![p] = @ \ cards]
           pending == [q \in DOMAIN extra.pending \cup {p} |-> IF q = p THEN cards ELSE extra.pending[q]]
           swapped == AfterAllPasses(rest, pending)
<1>1. /\ phase = "Playing" /\ OnTurn = p /\ extra.stage = "Passing" /\ UNCHANGED piles
      /\ \/ /\ Cardinality(DOMAIN pending) < Len(players)
            /\ hands' = rest
            /\ extra' = [extra EXCEPT !.pending = pending]
            /\ AfterMove(FALSE, HeartsStandings, NextUnpassed(pending))
         \/ /\ Cardinality(DOMAIN pending) = Len(players)
            /\ hands' = swapped
            /\ extra' = [extra EXCEPT !.stage = "TrickPlay", !.pending = [q \in {} |-> {}]]
            /\ AfterMove(FALSE, HeartsStandings, TwoOfClubsSeat(swapped))
  BY DEF PassCards, MayAct
<1>2. /\ SeatsOk /\ Len(players) = 4 /\ extra \in HeartsState /\ currentTurn \in 0..3
      /\ p = players[currentTurn + 1] /\ p \in ToSet(players) /\ HeartsApart(players, hands)
      /\ ~extra.matchComplete /\ (extra.handComplete <=> extra.stage = "HandOver")
      /\ HeartsPassing(players, hands, extra, p)
  BY <1>1, HeartsOnTurn DEF HeartsHand
<1>3. /\ BeforeTricks(extra) /\ OnTheWay(players, hands, extra.pending) /\ p \notin DOMAIN extra.pending
      /\ DirectionOf(extra.handNumber) # "hold"
  BY <1>2 DEF HeartsPassing
<1>4. /\ HeartsApart(players, rest) /\ OnTheWay(players, rest, pending)
      /\ DOMAIN pending = DOMAIN extra.pending \cup {p}
  <2>1. /\ p \in Player /\ hands \in [Player -> SUBSET HeartsDeck]
        /\ cards \subseteq hands[p]
    BY <1>2 DEF HeartsApart, kSubset
  <2>2. /\ rest \in [Player -> SUBSET HeartsDeck]
        /\ \A q \in Player : rest[q] = IF q = p THEN hands[p] \ cards ELSE hands[q]
    BY <2>1
  <2>3. /\ DOMAIN pending = DOMAIN extra.pending \cup {p} /\ pending[p] = cards
        /\ \A q \in DOMAIN extra.pending : pending[q] = extra.pending[q]
    BY <1>3
  <2> HIDE DEF rest, pending, swapped
  <2>4. HeartsApart(players, rest) /\ OnTheWay(players, rest, pending)
    BY <1>2, <1>3, <2>2, <2>3, PutAside
  <2> QED BY <2>3, <2>4
<1> HIDE DEF rest, pending, swapped
<1>5. DOMAIN pending \subseteq ToSet(players) /\ IsFiniteSet(ToSet(players)) /\ Cardinality(ToSet(players)) = 4
  BY <1>2, <1>4, FourSeats DEF OnTheWay
<1>6. DOMAIN extra.pending \subseteq Player /\ extra.handNumber \in Nat
  BY <1>2, <1>3, FourSeats DEF OnTheWay, HeartsState
<1>7. CASE Cardinality(DOMAIN pending) < Len(players)
  <2>1. /\ hands' = rest /\ extra' = [extra EXCEPT !.pending = pending]
        /\ AfterMove(FALSE, HeartsStandings, NextUnpassed(pending))
    <3>1. Cardinality(DOMAIN pending) # Len(players)
      BY <1>2, <1>7
    <3> QED BY <1>1, <3>1, Zenon
  <2>2. \E q \in ToSet(players) : q \notin DOMAIN pending
    BY <1>2, <1>5, <1>7
  <2>3. /\ NextUnpassed(pending) \in 0..3
        /\ players[NextUnpassed(pending) + 1] \notin DOMAIN pending
    BY <1>2, <2>2, NextMayPass
  <2>4. pending \in Partly(SUBSET HeartsDeck)
    <3>1. \A q \in DOMAIN pending : pending[q] \in SUBSET HeartsDeck
      BY <1>4 DEF OnTheWay
    <3>2. pending = [q \in DOMAIN pending |-> pending[q]]
      BY DEF pending
    <3>3. DOMAIN pending \subseteq Player
      BY <1>4, <1>6
    <3> QED BY <3>1, <3>2, <3>3, PartlyIs
  <2>5. /\ extra' \in HeartsState /\ extra'.pending = pending /\ extra'.stage = "Passing"
        /\ ~extra'.matchComplete /\ extra'.handComplete = extra.handComplete
        /\ extra'.handNumber = extra.handNumber /\ BeforeTricks(extra')
    BY <1>1, <1>2, <1>3, <2>1, <2>4 DEF HeartsState, BeforeTricks
  <2>6. HeartsPassing(players, hands', extra', players[NextUnpassed(pending) + 1])
    BY <1>3, <1>4, <2>1, <2>3, <2>5 DEF HeartsPassing
  <2>7. HeartsHand(players, hands', extra', NextUnpassed(pending))
    BY <1>1, <1>2, <1>4, <2>1, <2>5, <2>6 DEF HeartsHand
  <2>8. NextUnpassed(pending) # None
    BY <2>3, TableAssumption
  <2> QED BY <1>1, <2>1, <2>3, <2>5, <2>7, <2>8, HeartsMoveKeepsInv
<1>8. CASE Cardinality(DOMAIN pending) = Len(players)
  <2>1. /\ hands' = swapped
        /\ extra' = [extra EXCEPT !.stage = "TrickPlay", !.pending = [q \in {} |-> {}]]
        /\ AfterMove(FALSE, HeartsStandings, TwoOfClubsSeat(swapped))
    <3>1. ~(Cardinality(DOMAIN pending) < Len(players))
      BY <1>2, <1>8
    <3> QED BY <1>1, <3>1, Zenon
  <2>2. DOMAIN pending = ToSet(players)
    BY <1>2, <1>5, <1>8, FS_Subset
  <2>3. DirectionOf(extra.handNumber) \in {"left", "right", "across"}
    BY <1>3, <1>6, DirectionIs
  <2>4. /\ HeartsApart(players, swapped)
        /\ \A q \in ToSet(players) : Cardinality(swapped[q]) = CardsPerHand
        /\ \A c \in HeartsDeck : \E q \in Player : c \in swapped[q]
    BY <1>2, <1>4, <2>2, <2>3, AllPassed DEF swapped
  <2>5. /\ TwoOfClubsSeat(swapped) \in 0..3
        /\ twoOfClubs \in swapped[players[TwoOfClubsSeat(swapped) + 1]]
    <3>1. \E q \in ToSet(players) : twoOfClubs \in swapped[q]
      BY <2>4, HeartsAssumption DEF HeartsApart
    <3> QED BY <1>2, <3>1, TwoOfClubsHeld
  <2>6. /\ extra' \in HeartsState /\ DOMAIN extra'.pending = {} /\ extra'.stage = "TrickPlay"
        /\ ~extra'.matchComplete /\ extra'.handComplete = extra.handComplete /\ BeforeTricks(extra')
    <3>1. [q \in {} |-> {}] \in Partly(SUBSET HeartsDeck)
      BY PartlyIs
    <3> QED BY <1>1, <1>2, <1>3, <2>1, <3>1 DEF HeartsState, BeforeTricks
  <2>7. HeartsTrick(players, swapped, extra', TwoOfClubsSeat(swapped))
    BY <1>2, <2>4, <2>5, <2>6, TricksBegin
  <2>8. HeartsHand(players, hands', extra', TwoOfClubsSeat(swapped))
    BY <1>1, <1>2, <2>1, <2>4, <2>6, <2>7 DEF HeartsHand
  <2>9. TwoOfClubsSeat(swapped) # None
    BY <2>5, TableAssumption
  <2> QED BY <1>1, <2>1, <2>5, <2>6, <2>8, <2>9, HeartsMoveKeepsInv
<1> QED BY <1>1, <1>7, <1>8

\* The first hand of hearts is dealt (OnGameStart).
LEMMA HeartsStartStep ==
  ASSUME HeartsInv, NEW i \in 0..(Len(players) - 1), HeartsStart(i)
  PROVE  HeartsInv'
<1>1. /\ phase = "Waiting" /\ HeartsBeginHand(1, i, NoPoints)
      /\ Opened(FirstSeat(1, i, hands')) /\ UNCHANGED piles
  BY DEF HeartsStart
<1>2. /\ SeatsOk /\ Len(players) = 4 /\ leftPlayers = <<>> /\ DealsShared(players) /\ game = "hearts"
      /\ deck = {} /\ discard = {}
  BY <1>1 DEF HeartsInv
<1>3. i \in 0..3 /\ NoPoints \in [Player -> Int] /\ 1 \in Nat
  BY <1>2 DEF NoPoints
<1>4. /\ extra' \in HeartsState /\ FirstSeat(1, i, hands') \in 0..3
      /\ HeartsHand(players, hands', extra', FirstSeat(1, i, hands'))
  BY <1>1, <1>2, <1>3, HeartsDealt
<1>5. /\ phase' = "Playing" /\ players' = players /\ leftPlayers' = leftPlayers /\ game' = game
      /\ currentTurn' = FirstSeat(1, i, hands') % 4
  BY <1>1, <1>2 DEF Opened, Clamp
<1>6. currentTurn' = FirstSeat(1, i, hands')
  BY <1>4, <1>5
<1>7. SeatsOk' /\ DealsShared(players') /\ deck' = {} /\ discard' = {}
  BY <1>1, <1>2, <1>5 DEF SeatsOk, piles
<1>8. HeartsHand(players', hands', extra', currentTurn')
  BY <1>4, <1>5, <1>6
<1> QED BY <1>2, <1>4, <1>5, <1>6, <1>7, <1>8 DEF HeartsInv

\* The seat after the last dealer deals the next hand (beginHand).
LEMMA NextHeartsHandStep ==
  ASSUME HeartsInv, NEW p \in Player, NextHeartsHand(p)
  PROVE  HeartsInv'
<1>1. /\ phase = "Playing" /\ HeartsBeginHand(extra.handNumber + 1, currentTurn, extra.totals)
      /\ AfterMove(FALSE, HeartsStandings, FirstSeat(extra.handNumber + 1, currentTurn, hands'))
      /\ UNCHANGED piles
  BY DEF NextHeartsHand, MayAct
<1>2. /\ SeatsOk /\ Len(players) = 4 /\ DealsShared(players) /\ currentTurn \in 0..3
      /\ extra.handNumber + 1 \in Nat /\ extra.totals \in [Player -> Int]
  BY <1>1, HeartsOnTurn DEF HeartsState
<1>3. PICK n : n = extra.handNumber + 1
  OBVIOUS
<1>4. /\ extra' \in HeartsState /\ FirstSeat(n, currentTurn, hands') \in 0..3
      /\ HeartsHand(players, hands', extra', FirstSeat(n, currentTurn, hands'))
  BY <1>1, <1>2, <1>3, HeartsDealt
<1>5. FirstSeat(n, currentTurn, hands') # None
  BY <1>4, TableAssumption
<1> QED BY <1>1, <1>3, <1>4, <1>5, HeartsMoveKeepsInv

\* Any leaver ends the match (OnPlayerLeave).
LEMMA HeartsLeaveStep ==
  ASSUME HeartsInv, NEW p \in Player, HeartsLeave(p)
  PROVE  HeartsInv'
<1>1. /\ phase = "Playing" /\ Seated(p) /\ extra' = [extra EXCEPT !.matchComplete = TRUE]
      /\ AfterLeave(p, extra'.matchComplete, HeartsStandings', None) /\ UNCHANGED <<hands, deck, discard, top>>
  BY DEF HeartsLeave, piles
<1>2. players' = SeatsWithout(p) /\ leftPlayers' = Append(leftPlayers, p) /\ game' = game
  BY <1>1 DEF AfterLeave
<1>3. SeatsOk' /\ Len(players') = Len(players) - 1
  BY <1>1, <1>2, SeatsAfterLeave DEF HeartsInv
<1>4. Len(players) = 4 /\ leftPlayers = <<>> /\ extra \in HeartsState
  BY <1>1 DEF HeartsInv
<1>5. extra' \in HeartsState /\ extra'.matchComplete
  BY <1>1, <1>4 DEF HeartsState
<1>6. phase' = "Finished"
  <2>1. Len(SeatsWithout(p)) = 3
    BY <1>2, <1>3, <1>4
  <2> QED BY <1>1, <1>5, <2>1 DEF AfterLeave, Finish
<1>7. Len(leftPlayers') <= 1
  BY <1>2, <1>4
<1> QED BY <1>1, <1>2, <1>3, <1>5, <1>6, <1>7 DEF HeartsInv

-----------------------------------------------------------------------------
(* Hearts: the tricks *)

\* Nobody is in the trick exactly when the next card leads.
LEMMA LeadingIs ==
  ASSUME extra \in HeartsState
  PROVE  /\ LeadingTrick <=> InTrick(extra) = {}
         /\ InTrick(extra) \subseteq Player /\ \A q \in InTrick(extra) : extra.trick[q] \in HeartsDeck
<1>1. extra.trick \in Partly(HeartsDeck) /\ extra.trickComplete \in BOOLEAN
  BY DEF HeartsState
<1>2. PICK f : f = extra.trick
  OBVIOUS
<1>3. f = [q \in DOMAIN f |-> f[q]] /\ DOMAIN f \subseteq Player /\ \A q \in DOMAIN f : f[q] \in HeartsDeck
  BY <1>1, <1>2, PartlyIs
<1>4. f = NoTrick <=> DOMAIN f = {}
  BY <1>3 DEF NoTrick
<1> QED BY <1>1, <1>2, <1>3, <1>4 DEF LeadingTrick, InTrick

\* Whoever is on turn has not played to the trick.
LEMMA NotPlayedYet ==
  ASSUME NEW s, NEW played, NEW turn \in 0..3, InSeatOrder(s, played, turn)
  PROVE  s[turn + 1] \notin played
<1>1. PICK j \in 0..3 : \A i \in 0..3 : s[i + 1] \in played <=> (turn - i) % 4 \in 1..j
  BY DEF InSeatOrder
<1>2. (turn - turn) % 4 = 0
  OBVIOUS
<1> QED BY <1>1, <1>2

\* The turn goes round until everybody has played.
LEMMA TurnGoesRound ==
  ASSUME NEW s, Len(s) = 4, NEW played, NEW turn \in 0..3, InSeatOrder(s, played, turn),
         \A i, j \in 0..3 : s[i + 1] = s[j + 1] => i = j,
         NEW more, more = played \cup {s[turn + 1]}, \E i \in 0..3 : s[i + 1] \notin more
  PROVE  InSeatOrder(s, more, (turn + 1) % 4)
<1>1. PICK j \in 0..3 : \A i \in 0..3 : s[i + 1] \in played <=> (turn - i) % 4 \in 1..j
  BY DEF InSeatOrder
<1>2. \A i \in 0..3 : s[i + 1] \in more <=> (turn - i) % 4 \in 1..j \/ i = turn
  BY <1>1
<1>3. j # 3
  <2>1. \A i \in 0..3 : (turn - i) % 4 \in 1..3 \/ i = turn
    OBVIOUS
  <2> QED BY <1>2, <2>1
<1>4. \A i \in 0..3 : (((turn + 1) % 4) - i) % 4 \in 1..(j + 1) <=> (turn - i) % 4 \in 1..j \/ i = turn
  <2>1. \A i \in 0..3 : (turn - i) % 4 = IF i <= turn THEN turn - i ELSE turn - i + 4
    OBVIOUS
  <2>2. (turn + 1) % 4 = IF turn = 3 THEN 0 ELSE turn + 1
    OBVIOUS
  <2>3. ASSUME NEW i \in 0..3, NEW t \in 0..3
        PROVE  (t - i) % 4 = IF i <= t THEN t - i ELSE t - i + 4
    OBVIOUS
  <2> QED BY <1>3, <2>1, <2>2, <2>3
<1>5. j + 1 \in 0..3
  BY <1>3
<1> QED BY <1>2, <1>4, <1>5 DEF InSeatOrder

\* What holds of the trick, the hands and the points while a card lies on the table.
TrickInOrder(s, h, y) ==
  /\ HandsEven(s, h, DOMAIN y.trick, y.tricksPlayed)
  /\ \A q \in DOMAIN y.trick, r \in Player : y.trick[q] \notin h[r]
  /\ \E q \in DOMAIN y.trick : y.trick[q].suit = y.ledSuit
  /\ y.tricksPlayed = 0 => y.ledSuit = "Clubs"
  /\ Charged(h, y)

\* A card goes from a hand to the trick (startTrick, ApplyAction).
LEMMA CardPlayed ==
  ASSUME HeartsInv, phase = "Playing", extra.stage = "TrickPlay", NEW p \in Player, OnTurn = p,
         NEW c \in HeartsDeck, Playable(hands[p], c), NEW h \in [Player -> SUBSET HeartsDeck],
         \A q \in Player : h[q] = IF q = p THEN hands[p] \ {c} ELSE hands[q],
         NEW y, y = WithCard(p, c)
  PROVE  /\ y \in HeartsState /\ ~y.trickComplete /\ DOMAIN y.trick = InTrick(extra) \cup {p}
         /\ y.pending = extra.pending /\ y.tricksPlayed = extra.tricksPlayed /\ y.points = extra.points
         /\ y.totals = extra.totals /\ y.stage = extra.stage /\ y.handComplete = extra.handComplete
         /\ y.matchComplete = extra.matchComplete /\ y.dealer = extra.dealer
         /\ HeartsApart(players, h) /\ TrickInOrder(players, h, y)
<1> DEFINE T == InTrick(extra)
<1>1. /\ SeatsOk /\ Len(players) = 4 /\ extra \in HeartsState /\ currentTurn \in 0..3
      /\ p = players[currentTurn + 1] /\ p \in ToSet(players) /\ HeartsApart(players, hands)
      /\ HeartsTrick(players, hands, extra, currentTurn)
  BY HeartsOnTurn DEF HeartsHand
<1>2. /\ LeadingTrick <=> T = {}
      /\ T \subseteq Player /\ \A q \in T : extra.trick[q] \in HeartsDeck
  BY <1>1, LeadingIs
<1>3. p \notin T
  BY <1>1, NotPlayedYet DEF HeartsTrick
<1>4. c \in hands[p] /\ hands \in [Player -> SUBSET HeartsDeck]
  BY <1>1 DEF Playable, HeartsApart
<1>5. /\ DOMAIN y.trick = T \cup {p} /\ y.trick[p] = c /\ \A q \in T : y.trick[q] = extra.trick[q]
      /\ y.trick = [q \in T \cup {p} |-> y.trick[q]]
  <2>1. PICK table : table = IF LeadingTrick THEN NoTrick ELSE extra.trick
    OBVIOUS
  <2>2. DOMAIN table = T /\ \A q \in T : table[q] = extra.trick[q]
    BY <1>2, <2>1 DEF NoTrick, LeadingTrick, InTrick
  <2>3. y.trick = [q \in DOMAIN table \cup {p} |-> IF q = p THEN c ELSE table[q]]
    BY <1>1, <2>1 DEF WithCard, HeartsState
  <2> HIDE DEF T
  <2> QED BY <1>3, <2>2, <2>3
<1>6. /\ ~y.trickComplete /\ y.ledSuit = IF T = {} THEN c.suit ELSE extra.ledSuit
      /\ y.pending = extra.pending /\ y.tricksPlayed = extra.tricksPlayed /\ y.points = extra.points
      /\ y.totals = extra.totals /\ y.stage = extra.stage /\ y.handComplete = extra.handComplete
      /\ y.matchComplete = extra.matchComplete /\ y.dealer = extra.dealer
  BY <1>1, <1>2 DEF WithCard, HeartsState
<1>7. y \in HeartsState
  <2>1. y.trick \in Partly(HeartsDeck)
    BY <1>2, <1>5, PartlyIs
  <2>2. y.ledSuit \in {d.suit : d \in HeartsDeck} \cup {None}
    BY <1>1, <1>6 DEF HeartsState
  <2>3. y = [extra EXCEPT !.trick = y.trick, !.trickComplete = FALSE, !.ledSuit = y.ledSuit,
                          !.trickLeader = y.trickLeader, !.heartsBroken = y.heartsBroken]
    BY <1>1 DEF WithCard, HeartsState
  <2>4. y.trickLeader \in Int /\ y.heartsBroken \in BOOLEAN
    BY <1>1 DEF WithCard, HeartsState
  <2> QED BY <1>1, <2>1, <2>2, <2>3, <2>4 DEF HeartsState
<1>8. HeartsApart(players, h)
  <2>1. \A q \in Player : h[q] \subseteq hands[q]
    OBVIOUS
  <2> QED BY <1>1, <2>1 DEF HeartsApart
<1>9. HandsEven(players, h, T \cup {p}, y.tricksPlayed)
  <2>1. ASSUME NEW q \in ToSet(players)
        PROVE  Cardinality(h[q]) = CardsPerHand - y.tricksPlayed - IF q \in T \cup {p} THEN 1 ELSE 0
    <3>1. Cardinality(hands[q]) = CardsPerHand - extra.tricksPlayed - IF q \in T THEN 1 ELSE 0
      BY <1>1 DEF HeartsTrick, HandsEven
    <3>2. CASE q # p
      <4>1. h[q] = hands[q]
        BY <1>1, <3>2, FourSeats
      <4>2. q \in T \cup {p} <=> q \in T
        BY <3>2
      <4> HIDE DEF T
      <4> QED BY <1>6, <3>1, <4>1, <4>2
    <3>3. CASE q = p
      <4>1. IsFiniteSet(hands[p])
        BY <1>4, HeartsAssumption, FS_Subset
      <4>2. Cardinality(hands[p] \ {c}) = Cardinality(hands[p]) - 1
        BY <1>4, <4>1, FS_RemoveElement
      <4>3. CardsPerHand \in Nat /\ extra.tricksPlayed \in Nat
        BY <1>1, HeartsAssumption DEF HeartsState
      <4>4. Cardinality(hands[p]) = CardsPerHand - extra.tricksPlayed - 0
        BY <1>3, <3>1, <3>3
      <4>5. Cardinality(h[p]) = CardsPerHand - extra.tricksPlayed - 1
        <5>1. PICK n, t : n = Cardinality(hands[p]) /\ t = extra.tricksPlayed
          OBVIOUS
        <5>2. Cardinality(h[p]) = n - 1
          BY <4>2, <5>1
        <5>3. n = CardsPerHand - t - 0 /\ t \in Nat /\ CardsPerHand \in Nat
          BY <4>3, <4>4, <5>1
        <5>4. n - 1 = CardsPerHand - t - 1
          BY <5>3
        <5> QED BY <5>1, <5>2, <5>4
      <4>6. q \in T \cup {p}
        BY <3>3
      <4> HIDE DEF T
      <4> QED BY <1>6, <3>3, <4>5, <4>6
    <3> QED BY <3>2, <3>3
  <2> QED BY <2>1 DEF HandsEven
<1>10. ASSUME NEW q \in DOMAIN y.trick, NEW r \in Player PROVE y.trick[q] \notin h[r]
  <2>1. CASE q = p
    BY <1>1, <1>4, <1>5, <2>1 DEF HeartsApart
  <2>2. CASE q # p
    BY <1>1, <1>5, <2>2 DEF HeartsTrick
  <2> QED BY <2>1, <2>2
<1>11. \E q \in DOMAIN y.trick : y.trick[q].suit = y.ledSuit
  BY <1>1, <1>5, <1>6 DEF HeartsTrick
<1>12. y.tricksPlayed = 0 => y.ledSuit = "Clubs"
  BY <1>1, <1>2, <1>6 DEF HeartsTrick, Playable, twoOfClubs
<1>13. Charged(h, y)
  <2>1. InTrick(y) = T \cup {p}
    BY <1>5, <1>6 DEF InTrick
  <2>2. \A e : e \in Held(h) <=> \E q \in Player : e \in h[q]
    BY DEF Held, Range
  <2>3. \A e : e \in Held(hands) <=> \E q \in Player : e \in hands[q]
    BY <1>4 DEF Held, Range
  <2> HIDE DEF T
  <2>4. Held(h) \cup {y.trick[q] : q \in InTrick(y)} = Held(hands) \cup {extra.trick[q] : q \in T}
    <3>1. \A e : e \in Held(h) \/ e = c <=> e \in Held(hands)
      BY <1>4, <2>2, <2>3
    <3>2. {y.trick[q] : q \in InTrick(y)} = {extra.trick[q] : q \in T} \cup {c}
      BY <1>3, <1>5, <2>1
    <3> QED BY <3>1, <3>2
  <2>5. Charged(hands, extra)
    BY <1>1 DEF HeartsTrick
  <2> QED BY <1>6, <2>4, <2>5 DEF Charged, T
<1>14. TrickInOrder(players, h, y)
  BY <1>5, <1>9, <1>10, <1>11, <1>12, <1>13 DEF TrickInOrder
<1> QED BY <1>5, <1>6, <1>7, <1>8, <1>14

\* A trick that has a card of the led suit is won by one of those who played to it.
LEMMA WinnerPlayed ==
  ASSUME NEW trick, IsFiniteSet(DOMAIN trick), NEW led, \A q \in DOMAIN trick : trick[q] \in HeartsDeck,
         \E q \in DOMAIN trick : trick[q].suit = led
  PROVE  TrickWinner(trick, led) \in DOMAIN trick
<1> DEFINE D == {q \in DOMAIN trick : trick[q].suit = led}
<1>1. PICK value : value = [q \in D |-> RankValue(trick[q].rank)]
  OBVIOUS
<1>2. \A q \in D : RankValue(trick[q].rank) \in Int
  BY HeartsAssumption DEF RankValue
<1>3. IsFiniteSet(D) /\ D # {} /\ IntsOn(value, D)
  <2>1. IsFiniteSet(D)
    BY FS_Subset
  <2> QED BY <1>1, <1>2, <2>1 DEF IntsOn
<1>4. PICK p \in D : \A q \in D : value[q] <= value[p]
  BY <1>3, SomeoneGreatest
<1>5. \A q \in D : RankValue(trick[q].rank) <= RankValue(trick[p].rank)
  BY <1>1, <1>4
<1>6. \E x \in DOMAIN trick :
        /\ trick[x].suit = led
        /\ \A q \in DOMAIN trick : trick[q].suit = led => RankValue(trick[q].rank) <= RankValue(trick[x].rank)
  BY <1>4, <1>5
<1> QED BY <1>6, Zenon DEF TrickWinner

\* The trick goes to the highest card of its suit, with the points in it (trickWinner, afterPlay).
LEMMA TrickWon ==
  ASSUME SeatsOk, Len(players) = 4, NEW y \in HeartsState, ~y.trickComplete,
         DOMAIN y.trick = ToSet(players), NEW h, HeartsApart(players, h),
         TrickInOrder(players, h, y), NEW z, z = WithTrickWon(y)
  PROVE  /\ z \in HeartsState /\ z.trickComplete /\ z.tricksPlayed = y.tricksPlayed + 1
         /\ z.stage = y.stage /\ z.pending = y.pending /\ z.totals = y.totals
         /\ z.handComplete = y.handComplete /\ z.matchComplete = y.matchComplete /\ z.dealer = y.dealer
         /\ TrickWinner(y.trick, y.ledSuit) \in ToSet(players)
         /\ HandsEven(players, h, {}, z.tricksPlayed) /\ Charged(h, z)
<1> DEFINE w == TrickWinner(y.trick, y.ledSuit)
           R == Range(y.trick)
           Out == HeartsDeck \ (Held(h) \cup R)
<1>1. /\ ToSet(players) \subseteq Player /\ IsFiniteSet(ToSet(players))
      /\ y.trick \in Partly(HeartsDeck) /\ y.points \in [Player -> Nat] /\ y.tricksPlayed \in Nat
  BY FourSeats DEF HeartsState
<1>2. PICK f : f = y.trick
  OBVIOUS
<1>3. \A q \in DOMAIN f : f[q] \in HeartsDeck
  BY <1>1, <1>2, PartlyIs
<1>4. w \in ToSet(players)
  BY <1>1, <1>2, <1>3, WinnerPlayed DEF TrickInOrder
<1>5. R \in SUBSET HeartsDeck /\ R \cap Held(h) = {}
  <2>1. \A e \in Held(h) : \E q \in Player : e \in h[q]
    BY DEF Held, Range, HeartsApart
  <2> QED BY <1>2, <1>3, <2>1 DEF Range, TrickInOrder
<1>6. Points(R) \in Nat /\ Points(Out \cup R) = Points(Out) + Points(R)
  <2>1. Out \in SUBSET HeartsDeck /\ Out \cap R = {}
    OBVIOUS
  <2> HIDE DEF Out, R
  <2> QED BY <1>5, <2>1, PointsAdd
<1>7. PICK more : more = [y.points EXCEPT ![w] = @ + Points(R)]
  OBVIOUS
<1> HIDE DEF w
<1>8. more \in [Player -> Nat] /\ SumFunction(more) = SumFunction(y.points) + Points(R)
  <2> HIDE DEF R, Out
  <2> QED BY <1>1, <1>4, <1>6, <1>7, ChargedToWinner
<1>9. z = [y EXCEPT !.points = more, !.tricksPlayed = y.tricksPlayed + 1, !.trickComplete = TRUE]
  BY <1>7 DEF WithTrickWon, HeartsState, w
<1>10. /\ z \in HeartsState /\ z.trickComplete /\ z.tricksPlayed = y.tricksPlayed + 1
       /\ z.stage = y.stage /\ z.pending = y.pending /\ z.totals = y.totals /\ z.points = more
       /\ z.handComplete = y.handComplete /\ z.matchComplete = y.matchComplete /\ z.dealer = y.dealer
       /\ z.trick = y.trick
  <2>1. PICK t : t = y.tricksPlayed + 1 /\ t \in Nat
    BY <1>1
  <2>2. z = [y EXCEPT !.points = more, !.tricksPlayed = t, !.trickComplete = TRUE]
    BY <1>9, <2>1
  <2>3. z \in HeartsState
    BY <1>8, <2>1, <2>2 DEF HeartsState
  <2> QED BY <2>1, <2>2, <2>3 DEF HeartsState
<1>11. HandsEven(players, h, {}, z.tricksPlayed)
  <2>1. ASSUME NEW q \in ToSet(players)
        PROVE  Cardinality(h[q]) = CardsPerHand - z.tricksPlayed - 0
    <3>1. Cardinality(h[q]) = CardsPerHand - y.tricksPlayed - 1
      BY DEF HandsEven, TrickInOrder
    <3>2. PICK t : t = y.tricksPlayed /\ t \in Nat /\ CardsPerHand \in Nat
      BY <1>1, HeartsAssumption
    <3>3. CardsPerHand - t - 1 = CardsPerHand - (t + 1) - 0
      BY <3>2
    <3> QED BY <1>10, <3>1, <3>2, <3>3
  <2> QED BY <2>1 DEF HandsEven
<1>12. Charged(h, z)
  <2>1. InTrick(y) = DOMAIN y.trick /\ InTrick(z) = {}
    BY <1>10 DEF InTrick
  <2>2. {y.trick[q] : q \in InTrick(y)} = R /\ {z.trick[q] : q \in InTrick(z)} = {}
    BY <2>1 DEF Range
  <2>3. SumFunction(y.points) = Points(Out)
    BY <2>2 DEF Charged, TrickInOrder
  <2>4. HeartsDeck \ (Held(h) \cup {}) = Out \cup R
    BY <1>5
  <2> HIDE DEF Out, R
  <2> QED BY <1>6, <1>8, <1>10, <2>2, <2>3, <2>4 DEF Charged
<1> QED BY <1>4, <1>10, <1>11, <1>12 DEF w

\* A card is played: the trick goes on, is won, or closes the hand (ApplyAction, afterPlay, scoreHand).
LEMMA HeartsPlayStep ==
  ASSUME HeartsInv, NEW p \in Player, NEW c \in HeartsDeck, PlayCard(p, c)
  PROVE  HeartsInv'
<1>1. PICK y, z, x : y = WithCard(p, c) /\ z = WithTrickWon(y) /\ x = WithHandScored(z)
  OBVIOUS
<1>2. /\ phase = "Playing" /\ OnTurn = p /\ extra.stage = "TrickPlay" /\ UNCHANGED piles
      /\ Playable(hands[p], c) /\ hands' = [hands EXCEPT ![p] = @ \ {c}]
  BY DEF PlayCard, MayAct
<1>3. \/ /\ Cardinality(DOMAIN y.trick) < Len(players)
         /\ extra' = y
         /\ AfterMove(FALSE, HeartsStandings, None)
      \/ /\ Cardinality(DOMAIN y.trick) = Len(players)
         /\ z.tricksPlayed < CardsPerHand
         /\ extra' = z
         /\ AfterMove(FALSE, HeartsStandings, SeatOf(TrickWinner(y.trick, y.ledSuit)))
      \/ /\ Cardinality(DOMAIN y.trick) = Len(players)
         /\ z.tricksPlayed = CardsPerHand
         /\ extra' = x
         /\ AfterMove(x.matchComplete, HeartsStandings', (extra.dealer + 1) % Len(players))
  BY <1>1 DEF PlayCard
<1>4. /\ SeatsOk /\ Len(players) = 4 /\ extra \in HeartsState /\ currentTurn \in 0..3
      /\ p = players[currentTurn + 1] /\ p \in ToSet(players) /\ HeartsApart(players, hands)
      /\ HeartsTrick(players, hands, extra, currentTurn) /\ ~extra.matchComplete /\ ~extra.handComplete
  BY <1>2, HeartsOnTurn DEF HeartsHand
<1>5. /\ hands' \in [Player -> SUBSET HeartsDeck]
      /\ \A q \in Player : hands'[q] = IF q = p THEN hands[p] \ {c} ELSE hands[q]
  BY <1>2, <1>4 DEF HeartsApart
<1>6. /\ y \in HeartsState /\ ~y.trickComplete /\ DOMAIN y.trick = InTrick(extra) \cup {p}
      /\ y.pending = extra.pending /\ y.tricksPlayed = extra.tricksPlayed /\ y.points = extra.points
      /\ y.totals = extra.totals /\ y.stage = extra.stage /\ y.handComplete = extra.handComplete
      /\ y.matchComplete = extra.matchComplete /\ y.dealer = extra.dealer
      /\ HeartsApart(players, hands') /\ TrickInOrder(players, hands', y)
  <2>1. PICK h : h = hands'
    OBVIOUS
  <2>2. /\ h \in [Player -> SUBSET HeartsDeck]
        /\ \A q \in Player : h[q] = IF q = p THEN hands[p] \ {c} ELSE hands[q]
    BY <1>5, <2>1
  <2>3. y = WithCard(p, c)
    BY <1>1
  <2>4. /\ y \in HeartsState /\ ~y.trickComplete /\ DOMAIN y.trick = InTrick(extra) \cup {p}
        /\ y.pending = extra.pending /\ y.tricksPlayed = extra.tricksPlayed /\ y.points = extra.points
        /\ y.totals = extra.totals /\ y.stage = extra.stage /\ y.handComplete = extra.handComplete
        /\ y.matchComplete = extra.matchComplete /\ y.dealer = extra.dealer
    BY <1>2, <2>2, <2>3, CardPlayed
  <2>5. HeartsApart(players, h) /\ TrickInOrder(players, h, y)
    BY <1>2, <2>2, <2>3, CardPlayed
  <2> QED BY <2>1, <2>4, <2>5
<1>7. /\ DOMAIN extra.pending = {} /\ extra.tricksPlayed < CardsPerHand
      /\ InTrick(extra) \subseteq ToSet(players) /\ InSeatOrder(players, InTrick(extra), currentTurn)
  BY <1>4 DEF HeartsTrick
<1>8. /\ IsFiniteSet(ToSet(players)) /\ Cardinality(ToSet(players)) = 4
      /\ \A i \in 0..3 : players[i + 1] \in ToSet(players)
      /\ \A i, j \in 0..3 : players[i + 1] = players[j + 1] => i = j
      /\ \A q \in ToSet(players) : \E i \in 0..3 : players[i + 1] = q
      /\ \A q \in ToSet(players) : SeatOf(q) \in 0..3
  BY <1>4, FourSeats DEF SeatAt
<1>9. CASE Cardinality(DOMAIN y.trick) < Len(players)
  <2>1. extra' = y /\ AfterMove(FALSE, HeartsStandings, None)
    <3>1. Cardinality(DOMAIN y.trick) # Len(players)
      BY <1>4, <1>9
    <3> QED BY <1>3, <3>1, Zenon
  <2>2. \E i \in 0..3 : players[i + 1] \notin DOMAIN y.trick
    <3>1. DOMAIN y.trick # ToSet(players)
      BY <1>4, <1>8, <1>9
    <3> QED BY <1>4, <1>6, <1>7, <1>8, <3>1
  <2>3. InSeatOrder(players, DOMAIN y.trick, (currentTurn + 1) % 4)
    BY <1>4, <1>6, <1>7, <1>8, <2>2, TurnGoesRound
  <2>4. InTrick(y) = DOMAIN y.trick /\ InTrick(y) # {} /\ InTrick(y) \subseteq ToSet(players)
    BY <1>4, <1>6, <1>7 DEF InTrick
  <2>5. HeartsTrick(players, hands', y, (currentTurn + 1) % 4)
    BY <1>6, <1>7, <2>3, <2>4 DEF HeartsTrick, TrickInOrder
  <2>6. HeartsHand(players, hands', extra', (currentTurn + 1) % 4)
    BY <1>2, <1>4, <1>6, <2>1, <2>5 DEF HeartsHand
  <2>7. extra' \in HeartsState
    BY <1>6, <2>1
  <2> QED BY <1>2, <2>1, <2>6, <2>7, HeartsMoveKeepsInv
<1>10. ASSUME Cardinality(DOMAIN y.trick) = Len(players)
       PROVE  /\ z \in HeartsState /\ z.trickComplete /\ z.tricksPlayed = y.tricksPlayed + 1
              /\ z.stage = y.stage /\ z.pending = y.pending /\ z.totals = y.totals
              /\ z.handComplete = y.handComplete /\ z.matchComplete = y.matchComplete /\ z.dealer = y.dealer
              /\ TrickWinner(y.trick, y.ledSuit) \in ToSet(players)
              /\ HandsEven(players, hands', {}, z.tricksPlayed) /\ Charged(hands', z)
  <2>1. DOMAIN y.trick \in SUBSET ToSet(players)
    BY <1>4, <1>6, <1>7
  <2>2. DOMAIN y.trick = ToSet(players)
    BY <1>4, <1>8, <1>10, <2>1, FS_Subset
  <2> QED BY <1>1, <1>4, <1>6, <2>2, TrickWon
<1>11. CASE Cardinality(DOMAIN y.trick) = Len(players) /\ z.tricksPlayed < CardsPerHand
  <2> DEFINE won == SeatOf(TrickWinner(y.trick, y.ledSuit))
  <2>1. extra' = z /\ AfterMove(FALSE, HeartsStandings, won)
    <3>1. /\ ~(Cardinality(DOMAIN y.trick) < Len(players)) /\ z.tricksPlayed # CardsPerHand
      <4>1. CardsPerHand \in Nat /\ z.tricksPlayed \in Nat
        BY <1>10, <1>11, HeartsAssumption DEF HeartsState
      <4> QED BY <1>4, <1>11, <4>1
    <3> QED BY <1>3, <3>1, Zenon
  <2>2. won \in 0..3
    BY <1>8, <1>10, <1>11
  <2> HIDE DEF won
  <2>3. InTrick(z) = {} /\ z.tricksPlayed # 0
    <3>1. y.tricksPlayed \in Nat
      BY <1>6 DEF HeartsState
    <3> QED BY <1>10, <1>11, <3>1 DEF InTrick
  <2>4. InSeatOrder(players, {}, won)
    <3>1. 0 \in 0..3 /\ \A i \in 0..3 : ~((won - i) % 4 \in 1..0)
      OBVIOUS
    <3> QED BY <3>1 DEF InSeatOrder
  <2>5. HeartsTrick(players, hands', z, won)
    BY <1>6, <1>7, <1>10, <1>11, <2>3, <2>4 DEF HeartsTrick
  <2>6. HeartsHand(players, hands', extra', won)
    BY <1>2, <1>4, <1>6, <1>10, <1>11, <2>1, <2>5 DEF HeartsHand
  <2>7. won # None /\ extra' \in HeartsState
    BY <1>10, <1>11, <2>1, <2>2, TableAssumption
  <2> QED BY <1>2, <2>1, <2>2, <2>6, <2>7, HeartsMoveKeepsInv
<1>12. CASE Cardinality(DOMAIN y.trick) = Len(players) /\ z.tricksPlayed = CardsPerHand
  <2> DEFINE next == (extra.dealer + 1) % 4
  <2>1. extra' = x /\ AfterMove(x.matchComplete, HeartsStandings', next)
    <3>1. ~(Cardinality(DOMAIN y.trick) < Len(players)) /\ ~(z.tricksPlayed < CardsPerHand)
      BY <1>4, <1>12, HeartsAssumption
    <3> QED BY <1>3, <1>4, <3>1
  <2>2. next \in 0..3
    BY <1>4 DEF HeartsState
  <2> HIDE DEF next
  <2>3. PICK totals : totals = Scored(z.points, z.totals)
    OBVIOUS
  <2>4. totals \in [Player -> Int]
    <3>1. z.points \in [Player -> Nat] /\ z.totals \in [Player -> Int] /\ PenaltyTotal \in Nat
      BY <1>10, <1>12, HeartsAssumption DEF HeartsState
    <3> QED BY <2>3, <3>1 DEF Scored
  <2>5. PICK over : over = AnyScoreAtLeast(totals, TargetScore)
    OBVIOUS
  <2>6. over \in BOOLEAN
    BY <2>5 DEF AnyScoreAtLeast
  <2>7. x = [z EXCEPT !.totals = totals, !.stage = "HandOver", !.handComplete = TRUE, !.matchComplete = over]
    BY <1>1, <2>3, <2>5 DEF WithHandScored
  <2>8. /\ x \in HeartsState /\ x.handComplete /\ x.stage = "HandOver" /\ x.matchComplete = over
    BY <1>10, <1>12, <2>4, <2>6, <2>7 DEF HeartsState
  <2>9. ~x.matchComplete => HeartsHand(players, hands', extra', next)
    BY <1>6, <2>1, <2>8 DEF HeartsHand
  <2>10. next # None /\ extra' \in HeartsState
    BY <2>1, <2>2, <2>8, TableAssumption
  <2> QED BY <1>2, <2>1, <2>2, <2>9, <2>10, HeartsMoveKeepsInv
<1> QED BY <1>3, <1>9, <1>11, <1>12

\* Every step of hearts keeps the invariant.
LEMMA HeartsStep ==
  ASSUME HeartsInv, GamesNext
  PROVE  HeartsInv' /\ HeartsNext
<1>1. HeartsNext
  <2>1. game = "hearts"
    BY DEF HeartsInv
  <2>2. ~UnoNext /\ ~EightsNext /\ ~GinNext /\ ~PokerNext
    BY <2>1 DEF UnoNext, EightsNext, GinNext, PokerNext
  <2> QED BY <2>2 DEF GamesNext
<1>2. \/ \E i \in 0..(Len(players) - 1) : HeartsStart(i)
      \/ \E p \in Player : NextHeartsHand(p) \/ HeartsLeave(p)
      \/ \E p \in Player : \E cards \in kSubset(CardsToPass, hands[p]) : PassCards(p, cards)
      \/ \E p \in Player, c \in HeartsDeck : PlayCard(p, c)
  BY <1>1 DEF HeartsNext
<1> QED BY <1>1, <1>2, HeartsStartStep, NextHeartsHandStep, HeartsPassStep, HeartsPlayStep, HeartsLeaveStep

\* The inductive invariant of hearts.
THEOREM HeartsCorrect == HeartsSpec => []HeartsInv
<1>1. /\ NewTable
      /\ \E seats \in Seq(Player) :
           IsInjective(seats) /\ Len(seats) = 4 /\ DealsShared(seats) /\ HeartsInit(seats)
      => HeartsInv
  <2> SUFFICES ASSUME NewTable, NEW seats \in Seq(Player), IsInjective(seats), Len(seats) = 4,
                      DealsShared(seats), HeartsInit(seats)
               PROVE  HeartsInv
    OBVIOUS
  <2>1. players = seats /\ leftPlayers = <<>> /\ phase = "Waiting" /\ game = "hearts" /\ deck = {} /\ discard = {}
    BY DEF NewTable, HeartsInit
  <2>2. SeatsOk
    <3>1. leftPlayers \in Seq(Player) /\ IsInjective(leftPlayers) /\ ToSet(leftPlayers) = {}
      BY <2>1 DEF IsInjective, ToSet
    <3> QED BY <2>1, <3>1 DEF SeatsOk
  <2>3. extra \in HeartsState
    <3>1. extra = FreshHand(0, 0, NoPoints)
      BY DEF HeartsInit
    <3>2. NoPoints \in [Player -> Int] /\ 0 \in Nat
      BY DEF NoPoints
    <3> QED BY <3>1, <3>2, FreshIs
  <2> QED BY <2>1, <2>2, <2>3 DEF HeartsInv
<1>2. HeartsInv /\ [GamesNext]_tvars => HeartsInv'
  <2> SUFFICES ASSUME HeartsInv, [GamesNext]_tvars PROVE HeartsInv'
    OBVIOUS
  <2>1. CASE UNCHANGED tvars
    BY <2>1 DEF tvars, seating, piles, HeartsInv, SeatsOk
  <2> QED BY <2>1, HeartsStep
<1> QED BY <1>1, <1>2, PTL DEF HeartsSpec

\* In hearts the cards are never in two places, and the points charged are those of the
\* cards that have left the table, whatever is passed, played or dealt again (applyAllPasses,
\* ApplyAction, afterPlay).
THEOREM HeartsCardsAreKept == HeartsSpec => []CardsKept
<1>1. HeartsInv => CardsKept
  <2> SUFFICES ASSUME HeartsInv, phase = "Playing" PROVE HandsApart /\ PointsCharged
    BY DEF CardsKept, SheddingGame, HeartsInv
  <2>1. /\ HeartsApart(players, hands) /\ HeartsHand(players, hands, extra, currentTurn)
        /\ extra \in HeartsState /\ SeatsOk /\ Len(players) = 4 /\ deck = {} /\ discard = {}
    BY HeartsOnTurn DEF HeartsInv
  <2>2. HandsApart
    BY <2>1 DEF HandsApart, Apart, HeartsApart
  <2>3. \A c : c \in Held(hands) <=> \E p \in Player : c \in hands[p]
    BY <2>1 DEF Held, Range, HeartsApart
  <2>4. CASE extra.stage = "Passing"
    <3>1. /\ extra.points = NoPoints /\ OnTheWay(players, hands, extra.pending)
      BY <2>1, <2>4 DEF HeartsHand, HeartsPassing, BeforeTricks
    <3>2. HeartsDeck \ InPlay = {}
      BY <2>3, <3>1 DEF InPlay, OnTheWay, Range
    <3>3. Points({}) = 0
      <4>1. {} \in SUBSET HeartsDeck /\ {} \cap {} = {}
        OBVIOUS
      <4> QED BY <4>1, PointsAdd
    <3> QED BY <2>2, <3>1, <3>2, <3>3, NoPointsYet DEF PointsCharged
  <2>5. CASE extra.stage = "TrickPlay"
    <3>1. DOMAIN extra.pending = {} /\ Charged(hands, extra)
      BY <2>1, <2>5 DEF HeartsHand, HeartsTrick
    <3>2. UNION Range(extra.pending) = {}
      BY <3>1 DEF Range
    <3>3. {extra.trick[p] : p \in InTrick(extra)} = IF extra.trickComplete THEN {} ELSE OnTable
      BY DEF InTrick, OnTable, Range
    <3>4. InPlay = Held(hands) \cup {extra.trick[p] : p \in InTrick(extra)}
      <4>1. PICK A, B : /\ A = UNION Range(extra.pending)
                        /\ B = IF extra.trickComplete THEN {} ELSE OnTable
        OBVIOUS
      <4>2. InPlay = Held(hands) \cup A \cup B
        BY <4>1 DEF InPlay
      <4>3. A = {} /\ B = {extra.trick[p] : p \in InTrick(extra)}
        BY <3>2, <3>3, <4>1
      <4> QED BY <4>2, <4>3
    <3> QED BY <2>2, <3>1, <3>4 DEF PointsCharged, Charged
  <2>6. CASE extra.stage = "HandOver"
    BY <2>1, <2>2, <2>6 DEF HeartsHand, PointsCharged
  <2>7. extra.stage \in {"Passing", "TrickPlay", "HandOver"}
    BY <2>1 DEF HeartsState
  <2> QED BY <2>4, <2>5, <2>6, <2>7
<1> QED BY <1>1, HeartsCorrect, PTL

-----------------------------------------------------------------------------
(* What the clock plays in hearts *)

\* Some n of the cards are no higher than the others.
LowestN(s, n, hand) ==
  /\ s \in kSubset(n, hand)
  /\ \A c \in s, d \in hand \ s : RankValue(c.rank) <= RankValue(d.rank)

\* A hand holds its n lowest cards, for every n up to its size.
LEMMA LowestExist ==
  ASSUME NEW hand \in SUBSET HeartsDeck
  PROVE  \A n \in Nat : n <= Cardinality(hand) => \E s : LowestN(s, n, hand)
<1> DEFINE value == [c \in hand |-> -RankValue(c.rank)]
           K == {n \in Nat : n <= Cardinality(hand) => \E s : LowestN(s, n, hand)}
<1>1. IsFiniteSet(hand) /\ Cardinality(hand) \in Nat
  BY HeartsAssumption, FS_Subset, FS_CardinalityType
<1>2. \A c \in hand : RankValue(c.rank) \in Nat
  BY HeartsAssumption DEF RankValue
<1>3. 0 \in K
  <2>1. LowestN({}, 0, hand)
    BY FS_EmptySet DEF LowestN, kSubset
  <2> QED BY <2>1
<1>4. ASSUME NEW n \in Nat, n \in K PROVE n + 1 \in K
  <2> SUFFICES ASSUME n + 1 <= Cardinality(hand) PROVE \E s : LowestN(s, n + 1, hand)
    OBVIOUS
  <2>1. PICK s : LowestN(s, n, hand)
    BY <1>1, <1>4
  <2>2. s \in SUBSET hand /\ IsFiniteSet(s) /\ Cardinality(s) = n
    BY <1>1, <2>1, FS_Subset DEF LowestN, kSubset
  <2> DEFINE rest == hand \ s
  <2>3. rest # {} /\ IsFiniteSet(rest)
    <3>1. s # hand
      BY <1>1, <2>2
    <3> QED BY <1>1, <2>2, <3>1, FS_Subset
  <2>4. IntsOn(value, rest)
    BY <1>2 DEF IntsOn
  <2>5. PICK d \in rest : \A e \in rest : value[e] <= value[d]
    <3> HIDE DEF rest, value
    <3> QED BY <2>3, <2>4, SomeoneGreatest
  <2>6. \A e \in rest : RankValue(d.rank) <= RankValue(e.rank)
    BY <1>2, <2>5
  <2>7. Cardinality(s \cup {d}) = n + 1
    BY <2>2, <2>5, FS_AddElement
  <2>8. LowestN(s \cup {d}, n + 1, hand)
    BY <2>1, <2>2, <2>5, <2>6, <2>7 DEF LowestN, kSubset
  <2> QED BY <2>8
<1> HIDE DEF K
<1>5. \A n \in Nat : n \in K
  BY <1>3, <1>4, CountsOn
<1> QED BY <1>5 DEF K

\* A hand that follows suit whenever it can, and is only asked for the 2 of clubs when it has
\* it, always holds a card that may be played (validatePlayCard).
LEMMA SomethingPlayable ==
  ASSUME NEW hand, hand # {}, LeadingTrick /\ extra.tricksPlayed = 0 => twoOfClubs \in hand,
         ~LeadingTrick /\ extra.tricksPlayed = 0 => extra.ledSuit = "Clubs"
  PROVE  \E c \in hand : Playable(hand, c)
<1>1. ~IsPenalty(twoOfClubs) /\ twoOfClubs.suit = "Clubs"
  BY DEF IsPenalty, twoOfClubs, queenOfSpades
<1>2. \A c : c.suit = "Clubs" => ~IsPenalty(c)
  BY DEF IsPenalty, queenOfSpades
<1>3. CASE LeadingTrick /\ extra.tricksPlayed = 0
  <2>1. Playable(hand, twoOfClubs)
    BY <1>1, <1>3 DEF Playable, LeadsHeartsEarly, Revokes, DumpsOnTrickOne
  <2> QED BY <1>3, <2>1
<1>4. CASE LeadingTrick /\ extra.tricksPlayed # 0
  <2>1. CASE \E d \in hand : d.suit # "Hearts"
    BY <1>4, <2>1 DEF Playable, LeadsHeartsEarly, Revokes, DumpsOnTrickOne
  <2>2. CASE ~\E d \in hand : d.suit # "Hearts"
    BY <1>4, <2>2 DEF Playable, LeadsHeartsEarly, Revokes, DumpsOnTrickOne
  <2> QED BY <2>1, <2>2
<1>5. CASE ~LeadingTrick /\ HasSuit(hand, extra.ledSuit)
  <2>1. PICK c \in hand : c.suit = extra.ledSuit
    BY <1>5 DEF HasSuit
  <2>2. extra.tricksPlayed = 0 => ~IsPenalty(c)
    BY <1>2, <1>5, <2>1
  <2>3. Playable(hand, c)
    BY <1>5, <2>1, <2>2 DEF Playable, LeadsHeartsEarly, Revokes, DumpsOnTrickOne
  <2> QED BY <2>3
<1>6. CASE ~LeadingTrick /\ ~HasSuit(hand, extra.ledSuit)
  <2>1. CASE \E d \in hand : ~IsPenalty(d)
    <3>1. PICK d \in hand : ~IsPenalty(d)
      BY <2>1
    <3>2. Playable(hand, d)
      BY <1>6, <3>1 DEF Playable, LeadsHeartsEarly, Revokes, DumpsOnTrickOne
    <3> QED BY <3>2
  <2>2. CASE ~\E d \in hand : ~IsPenalty(d)
    BY <1>6, <2>2 DEF Playable, LeadsHeartsEarly, Revokes, DumpsOnTrickOne
  <2> QED BY <2>1, <2>2
<1> QED BY <1>3, <1>4, <1>5, <1>6

\* The clock of a hearts table can always play: three cards to pass, a legal card, or the
\* next hand (TimeoutAction, threeLowestCards, validatePlayCard).
THEOREM HeartsClockCanPlay == HeartsSpec => []ClockCanPlay
<1>1. HeartsInv => ClockCanPlay
  <2> SUFFICES ASSUME HeartsInv, phase = "Playing" PROVE HeartsClock
    BY DEF ClockCanPlay, HeartsInv
  <2>1. /\ SeatsOk /\ Len(players) = 4 /\ extra \in HeartsState /\ currentTurn \in 0..3
        /\ OnTurn = players[currentTurn + 1] /\ OnTurn \in ToSet(players) /\ OnTurn \in Player
        /\ HeartsHand(players, hands, extra, currentTurn)
        /\ hands[OnTurn] \in SUBSET HeartsDeck
    BY HeartsOnTurn DEF HeartsApart
  <2>2. CardsPerHand \in Nat /\ CardsToPass \in 1..CardsPerHand
    BY HeartsAssumption
  <2>3. CASE extra.stage = "Passing"
    <3>1. OnTheWay(players, hands, extra.pending) /\ OnTurn \notin DOMAIN extra.pending
      BY <2>1, <2>3 DEF HeartsHand, HeartsPassing
    <3>2. Cardinality(hands[OnTurn]) = CardsPerHand - 0
      BY <2>1, <3>1 DEF OnTheWay
    <3>3. CardsToPass \in Nat /\ CardsToPass <= Cardinality(hands[OnTurn])
      BY <2>2, <3>2
    <3>4. \E s : LowestN(s, CardsToPass, hands[OnTurn])
      BY <2>1, <3>3, LowestExist
    <3>5. LowestCards(hands[OnTurn]) \in kSubset(CardsToPass, hands[OnTurn])
      BY <3>4, Zenon DEF LowestN, LowestCards
    <3>6. LowestCards(hands[OnTurn]) \subseteq hands[OnTurn]
      BY <3>5 DEF kSubset
    <3> QED BY <2>3, <3>1, <3>6 DEF HeartsClock, Passed
  <2>4. CASE extra.stage = "TrickPlay"
    <3>1. /\ InTrick(extra) \subseteq ToSet(players) /\ InSeatOrder(players, InTrick(extra), currentTurn)
          /\ HandsEven(players, hands, InTrick(extra), extra.tricksPlayed)
          /\ extra.tricksPlayed < CardsPerHand /\ extra.tricksPlayed \in Nat
          /\ extra.tricksPlayed = 0 =>
               IF InTrick(extra) = {} THEN twoOfClubs \in hands[OnTurn] ELSE extra.ledSuit = "Clubs"
      BY <2>1, <2>4 DEF HeartsHand, HeartsTrick, HeartsState
    <3>2. OnTurn \notin InTrick(extra)
      BY <2>1, <3>1, NotPlayedYet
    <3>3. Cardinality(hands[OnTurn]) = CardsPerHand - extra.tricksPlayed - 0
      BY <2>1, <3>1, <3>2 DEF HandsEven
    <3>4. hands[OnTurn] # {}
      BY <2>2, <3>1, <3>3, FS_EmptySet
    <3>5. LeadingTrick <=> InTrick(extra) = {}
      BY <2>1, LeadingIs
    <3>6. \E c \in hands[OnTurn] : Playable(hands[OnTurn], c)
      BY <3>1, <3>4, <3>5, SomethingPlayable
    <3> QED BY <2>4, <3>6 DEF HeartsClock
  <2>5. CASE extra.stage = "HandOver"
    BY <2>1, <2>5 DEF HeartsHand, HeartsClock
  <2>6. extra.stage \in {"Passing", "TrickPlay", "HandOver"}
    BY <2>1 DEF HeartsState
  <2> QED BY <2>3, <2>4, <2>5, <2>6
<1> QED BY <1>1, HeartsCorrect, PTL

-----------------------------------------------------------------------------
(* The standings of hearts *)

HeartsKey == [p \in Player |-> HeartsScore(p)]

\* The first of the standings is seated.
HeartsWinnerSeated == players # <<>> => HeartsStandings[1] \in ToSet(players)

\* The standings of hearts go by the scores, and the first of them is seated.
LEMMA HeartsStandingsAre ==
  ASSUME HeartsInv
  PROVE  /\ HeartsKey \in [Player -> Int] /\ ByScoreIs(HeartsStandings, players, HeartsKey)
         /\ HeartsWinnerSeated
<1>1. /\ players \in Seq(Player) /\ IsInjective(players)
      /\ extra.totals \in [Player -> Int] /\ extra.points \in [Player -> Nat]
  BY DEF HeartsInv, SeatsOk, HeartsState
<1>2. HeartsKey \in [Player -> Int]
  BY <1>1 DEF HeartsKey, HeartsScore
<1>3. IntsFor(HeartsKey, players)
  BY <1>1, <1>2 DEF IntsFor
<1>4. HeartsStandings = ByScore(players, HeartsKey)
  BY DEF HeartsStandings, HeartsKey
<1>5. ByScoreIs(HeartsStandings, players, HeartsKey)
  BY <1>1, <1>3, <1>4, ByScoreLists
<1>6. ASSUME players # <<>> PROVE HeartsStandings[1] \in ToSet(players)
  <2>1. /\ HeartsStandings \in Seq(Player) /\ Len(HeartsStandings) = Len(players)
        /\ ToSet(HeartsStandings) = ToSet(players)
    BY <1>5 DEF ByScoreIs
  <2>2. 1 \in DOMAIN HeartsStandings
    BY <1>1, <1>6, <2>1
  <2> QED BY <2>1, <2>2 DEF ToSet
<1> QED BY <1>2, <1>5, <1>6 DEF HeartsWinnerSeated

\* All four of a hearts match get one place, a leaver the last one, and they share one only
\* on equal scores, those of a hand that was cut short included (standingsLocked,
\* placesLocked, hearts' Standings).
THEOREM HeartsPlacesRight == HeartsSpec => []PlacesRight
<1>1. HeartsInv => PlacesRight
  <2> SUFFICES ASSUME HeartsInv, phase = "Finished" PROVE PlacesRight
    BY DEF PlacesRight
  <2>1. SeatsOk /\ game = "hearts" /\ Len(leftPlayers) <= 1
    BY DEF HeartsInv
  <2>2. Standings = WithLeavers(HeartsStandings) /\ \A p : Score(p) = HeartsScore(p)
    BY <2>1 DEF Standings, Score
  <2>3. \A p, q \in Player : Score(p) = Score(q) <=> HeartsKey[p] = HeartsKey[q]
    BY <2>2 DEF HeartsKey
  <2>4. \A p, q \in ToSet(leftPlayers) : p = q
    <3>1. leftPlayers \in Seq(Player) /\ Len(leftPlayers) \in Nat
      BY <2>1 DEF SeatsOk
    <3>2. \A i, j \in DOMAIN leftPlayers : i = j
      BY <2>1, <3>1
    <3> QED BY <3>2 DEF ToSet
  <2> QED BY <2>1, <2>2, <2>3, <2>4, HeartsStandingsAre, PlacesByScore
<1> QED BY <1>1, HeartsCorrect, PTL

\* Every step of hearts opens the table, moves or gives up a seat.
LEMMA HeartsKeepsMatchStep ==
  ASSUME HeartsInv, HeartsWinnerSeated', HeartsNext
  PROVE  [TheMatch!MatchNext]_(TheMatch!mvars)
<1>1. ASSUME NEW i \in 0..(Len(players) - 1), HeartsStart(i) PROVE [TheMatch!MatchNext]_(TheMatch!mvars)
  <2>1. /\ phase = "Waiting" /\ phase' = "Playing" /\ Len(players) = 4 /\ players \in Seq(Player)
        /\ players' = players /\ UNCHANGED <<reason, winner>>
    BY <1>1 DEF HeartsStart, Opened, HeartsInv, SeatsOk
  <2>2. ToSet(players) # {}
    <3>1. 1 \in DOMAIN players
      BY <2>1
    <3> QED BY <3>1 DEF ToSet
  <2>3. TheMatch!Begin
    BY <2>1, <2>2 DEF TheMatch!Begin, TheMatch!Becomes, TheMatch!Now
  <2> QED BY <2>3 DEF TheMatch!MatchNext
<1>2. ASSUME phase = "Playing", NEW won, NEW order, NEW over, AfterMove(won, order, over),
             won => order = HeartsStandings'
      PROVE  [TheMatch!MatchNext]_(TheMatch!mvars)
  <2>1. players' = players /\ players # <<>>
    BY <1>2 DEF AfterMove, HeartsInv
  <2>2. won => order[1] \in ToSet(players)
    BY <1>2, <2>1 DEF HeartsWinnerSeated
  <2> QED BY <1>2, <2>2, MoveMatches
<1>3. ASSUME NEW p \in Player, HeartsLeave(p) PROVE [TheMatch!MatchNext]_(TheMatch!mvars)
  <2>1. phase = "Playing" /\ Seated(p) /\ AfterLeave(p, extra'.matchComplete, HeartsStandings', None)
    BY <1>3 DEF HeartsLeave
  <2>2. extra'.matchComplete /\ players' # <<>> => HeartsStandings'[1] \in ToSet(players')
    BY DEF HeartsWinnerSeated
  <2>3. SeatsOk
    BY DEF HeartsInv
  <2> QED BY <2>1, <2>2, <2>3, LeaveMatches
<1>4. ASSUME NEW p \in Player, NextHeartsHand(p) PROVE [TheMatch!MatchNext]_(TheMatch!mvars)
  <2>1. phase = "Playing" /\ \E over : AfterMove(FALSE, HeartsStandings, over)
    BY <1>4 DEF NextHeartsHand, MayAct
  <2> QED BY <1>2, <2>1
<1>5. ASSUME NEW p \in Player, NEW cards, PassCards(p, cards) PROVE [TheMatch!MatchNext]_(TheMatch!mvars)
  <2>1. phase = "Playing" /\ \E over : AfterMove(FALSE, HeartsStandings, over)
    BY <1>5 DEF PassCards, MayAct
  <2> QED BY <1>2, <2>1
<1>6. ASSUME NEW p \in Player, NEW c, PlayCard(p, c) PROVE [TheMatch!MatchNext]_(TheMatch!mvars)
  <2>1. phase = "Playing"
    BY <1>6 DEF PlayCard, MayAct
  <2>2. \E won, order, over : AfterMove(won, order, over) /\ (won => order = HeartsStandings')
    BY <1>6 DEF PlayCard
  <2> QED BY <1>2, <2>1, <2>2
<1> QED BY <1>1, <1>3, <1>4, <1>5, <1>6 DEF HeartsNext

\* With the rules of hearts a table keeps what the abstract match promises the lobby: it ends
\* once, for a reason that fits its seats, and with a winner still seated.
THEOREM HeartsKeepsMatch == HeartsSpec => KeepsMatch
<1>1. HeartsInv => HeartsWinnerSeated
  BY HeartsStandingsAre
<1>2. HeartsInv /\ HeartsWinnerSeated' /\ [GamesNext]_tvars => [TheMatch!MatchNext]_(TheMatch!mvars)
  <2> SUFFICES ASSUME HeartsInv, HeartsWinnerSeated', [GamesNext]_tvars
               PROVE  [TheMatch!MatchNext]_(TheMatch!mvars)
    OBVIOUS
  <2>1. CASE UNCHANGED tvars
    BY <2>1 DEF tvars, seating, TheMatch!mvars
  <2>2. CASE GamesNext
    BY <2>2, HeartsStep, HeartsKeepsMatchStep
  <2> QED BY <2>1, <2>2
<1> QED BY <1>1, <1>2, HeartsCorrect, PTL DEF HeartsSpec, KeepsMatch
=============================================================================
