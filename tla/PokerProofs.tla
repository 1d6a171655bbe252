---------------------------- MODULE PokerProofs -----------------------------
(***************************************************************************)
(* Proofs about poker, for any number of players, stacks, blinds and       *)
(* hands: chips are neither made nor lost, a hand takes no more from an    *)
(* opponent than its owner risked, and the turn is always with somebody    *)
(* who owes an action, whatever the bets, the all-ins, the folds and the   *)
(* leavers.                                                                *)
(***************************************************************************)
EXTENDS GamesProofs

-----------------------------------------------------------------------------
(* The invariant *)

\* An amount of chips for each player.
Purse == [Player -> Nat]

BettingStreets == {"PreFlop", "Flop", "Turn", "River"}

\* What the fields of the rules' state may be (PokerState).
PokerState ==
  [dealer : Int, sb : Int, bb : Int, pool : Nat, currentBet : Nat, minRaise : Nat,
   street : BettingStreets \cup {"Showdown", None},
   folded : SUBSET Player, allIn : SUBSET Player, acted : SUBSET Player,
   chips : Purse, bets : Purse, contributed : Purse,
   boardOut : BOOLEAN, shown : BOOLEAN, strength : Purse,
   handNumber : Nat, handComplete : BOOLEAN, matchComplete : BOOLEAN, bustedAt : Purse]

\* All the chips of a table.
Bank(x) == SumFunctionOnSet(x.chips, Player) + x.pool
PutIn(x) == SumFunctionOnSet(x.contributed, Player)


\* At least two.
Two(S) == \E a, b \in S : a # b

\* Who may still bet, and who has yet to.
CanBet(x, seats) == {p \in ToSet(seats) : ~CannotAct(x, p)}
ToAct(x, seats) == {p \in ToSet(seats) : ~CannotAct(x, p) /\ Owes(x, p)}

\* How far seat i is from seat t, clockwise: t itself comes first, or last.
Off(t, i, n) == IF i >= t THEN i - t ELSE i - t + n
Ahead(t, i, n) == IF i > t THEN i - t ELSE i - t + n

\* From seat t on, those who owe an action come before those who may act and owe none.
Run(x, seats, t) ==
  \A i, j \in 0..(Len(seats) - 1) :
    /\ Off(t, i, Len(seats)) < Off(t, j, Len(seats))
    /\ Who(seats, j) \in ToAct(x, seats) /\ Who(seats, i) \in CanBet(x, seats)
    => Who(seats, i) \in ToAct(x, seats)

\* The same from the seat after t, with t itself the last.
RunAfter(x, seats, t) ==
  \A i, j \in 0..(Len(seats) - 1) :
    /\ Ahead(t, i, Len(seats)) < Ahead(t, j, Len(seats))
    /\ Who(seats, j) \in ToAct(x, seats) /\ Who(seats, i) \in CanBet(x, seats)
    => Who(seats, i) \in ToAct(x, seats)

\* A seat the turn may be at.
GoodTurn(x, seats, t) ==
  /\ t \in 0..(Len(seats) - 1)
  /\ Who(seats, t) \in ToAct(x, seats)
  /\ Run(x, seats, t)

\* What holds of the chips and the bets in the middle of a hand.
Betting(x, seats, left, total) ==
  /\ x \in PokerState /\ Bank(x) = total /\ PutIn(x) = x.pool
  /\ ~x.handComplete /\ ~x.matchComplete /\ x.street \in BettingStreets
  /\ x.dealer \in 0..(Len(seats) - 1)
  /\ \A p \in Player : x.bets[p] <= x.contributed[p]
  /\ \A p \in ToSet(seats) : x.bets[p] <= x.currentBet
  /\ \A p \in ToSet(seats) : x.chips[p] = 0 /\ p \notin x.folded => p \in x.allIn
  /\ \A p \in x.allIn : x.contributed[p] > 0
  /\ x.currentBet = 0 => \A p \in Contenders(x, seats, left) : x.contributed[p] > 0

\* A hand that is being played: at least two contest the pot.
MidHand(x, seats, left, total) ==
  Betting(x, seats, left, total) /\ Two(Contenders(x, seats, left))

\* A hand that is over: the pool is shared out, and who would play on can.
HandOver(x, seats, total) ==
  /\ x \in PokerState /\ Bank(x) = total /\ x.pool = 0 /\ x.handComplete
  /\ x.dealer \in 0..(Len(seats) - 1)
  /\ ~x.matchComplete => Two(Funded(x, seats))

\* What was dealt in at a table: a stack for each who sat down.
Stakes(ps, ls) == DefaultStack * Cardinality(ToSet(ps) \cup ToSet(ls))

\* Whoever was dealt in is seated or left, once, and the chips are those they brought.
TableOk(ps, ls, x) ==
  /\ ps \in Seq(Player) /\ ls \in Seq(Player)
  /\ IsInjective(ps) /\ IsInjective(ls) /\ ToSet(ps) \cap ToSet(ls) = {}
  /\ x \in PokerState /\ Bank(x) = Stakes(ps, ls)

\* What holds in each phase of the table.
WaitingOk(ps, ls, x) ==
  /\ Len(ps) >= 2 /\ ls = <<>>
  /\ x.pool = 0 /\ ~x.matchComplete /\ ~x.handComplete
  /\ \A p \in ToSet(ps) : x.chips[p] = DefaultStack

PlayingOk(ps, ls, x, t) ==
  /\ t \in 0..(Len(ps) - 1) /\ ~x.matchComplete
  /\ x.handComplete => HandOver(x, ps, Stakes(ps, ls))
  /\ ~x.handComplete => MidHand(x, ps, ls, Stakes(ps, ls)) /\ GoodTurn(x, ps, t)

FinishedOk(x, why) ==
  /\ x.handComplete => x.pool = 0
  /\ why # "Abandoned" => x.handComplete

\* The invariant.  In mid-hand it says more than the properties do: that those who owe an
\* action sit before those who do not, from whoever is on turn, is what keeps a turn right that
\* a leaver hands on; that bets never exceed what was put in, and that whoever is all in put
\* something in, is what lets the pots of a showdown hold exactly the pool.
PokerInv ==
  /\ game = "poker" /\ phase \in {"Waiting", "Playing", "Finished"}
  /\ TableOk(players, leftPlayers, extra)
  /\ phase = "Waiting" => WaitingOk(players, leftPlayers, extra)
  /\ phase = "Playing" => PlayingOk(players, leftPlayers, extra, currentTurn)
  /\ phase = "Finished" => FinishedOk(extra, reason)

-----------------------------------------------------------------------------
(* Splitting a pot *)

\* As many members of a set of numbers are among its r least as r says.
LEMMA RanksCount ==
  ASSUME NEW ids, ids \subseteq Nat, IsFiniteSet(ids), NEW r \in 0..Cardinality(ids)
  PROVE  Cardinality({p \in ids : Cardinality({q \in ids : q < p}) < r}) = r
<1>1. PICK k \in Nat : k = Cardinality(ids)
  BY FS_CardinalityType
<1> DEFINE Below(p) == {q \in ids : q < p}
<1>2. PICK rank : rank = [p \in ids |-> Cardinality(Below(p))]
  OBVIOUS
<1>3. ASSUME NEW p \in ids
      PROVE  IsFiniteSet(Below(p)) /\ Cardinality(Below(p)) \in 0..(k - 1)
  <2>1. Below(p) \in SUBSET (ids \ {p})
    OBVIOUS
  <2>2. IsFiniteSet(ids \ {p}) /\ Cardinality(ids \ {p}) = k - 1
    BY <1>1, FS_RemoveElement
  <2>3. IsFiniteSet(Below(p)) /\ Cardinality(Below(p)) <= k - 1
    <3> HIDE DEF Below
    <3> QED BY <2>1, <2>2, FS_Subset
  <2>4. Cardinality(Below(p)) \in Nat
    <3> HIDE DEF Below
    <3> QED BY <2>3, FS_CardinalityType
  <2> QED BY <1>1, <2>3, <2>4
<1>4. ASSUME NEW p \in ids, NEW q \in ids, p < q PROVE rank[p] < rank[q]
  <2>0. \A x \in ids : x \in Nat
    OBVIOUS
  <2>1. Below(p) \in SUBSET Below(q) /\ p \in Below(q) /\ p \notin Below(p)
    <3>1. \A x \in ids : x < p => x < q
      BY <1>4, <2>0
    <3>2. ~(p < p)
      BY <2>0
    <3> QED BY <1>4, <3>1, <3>2
  <2> HIDE DEF Below
  <2>2. Cardinality(Below(p)) <= Cardinality(Below(q)) /\ Cardinality(Below(p)) # Cardinality(Below(q))
    BY <1>3, <2>1, FS_Subset
  <2>3. Cardinality(Below(p)) \in Int /\ Cardinality(Below(q)) \in Int
    BY <1>3
  <2> QED BY <1>2, <2>2, <2>3
<1> HIDE DEF Below
<1>5. rank \in [ids -> 0..(k - 1)] /\ \A p, q \in ids : rank[p] = rank[q] => p = q
  <2>1. rank \in [ids -> 0..(k - 1)]
    BY <1>2, <1>3
  <2>2. ASSUME NEW p \in ids, NEW q \in ids, rank[p] = rank[q] PROVE p = q
    <3>1. p \in Int /\ q \in Int /\ rank[p] \in Int
      BY <2>1
    <3>2. ~(p < q) /\ ~(q < p)
      BY <1>4, <2>2, <3>1
    <3> QED BY <3>1, <3>2
  <2> QED BY <2>1, <2>2
<1>6. rank \in Injection(ids, 0..(k - 1))
  BY <1>5 DEF Injection, IsInjective
<1>7. IsFiniteSet(0..(k - 1)) /\ Cardinality(0..(k - 1)) = k
  <2>1. k - 1 \in Int /\ (0 > k - 1 => k = 0) /\ (k - 1) - 0 + 1 = k
    OBVIOUS
  <2> QED BY <2>1, FS_Interval
<1>8. rank \in Surjection(ids, 0..(k - 1))
  BY <1>1, <1>6, <1>7, FS_Injection
<1>9. PICK A : A = {p \in ids : Cardinality(Below(p)) < r}
  OBVIOUS
<1>10. PICK cut : cut = [p \in A |-> rank[p]]
  OBVIOUS
<1>11. cut \in Bijection(A, 0..(r - 1))
  <2>1. \A p \in A : p \in ids /\ rank[p] \in 0..(k - 1) /\ rank[p] < r
    BY <1>2, <1>5, <1>9
  <2>2. cut \in [A -> 0..(r - 1)]
    BY <1>10, <2>1
  <2>3. \A p, q \in A : cut[p] = cut[q] => p = q
    BY <1>5, <1>10, <2>1
  <2>4. \A i \in 0..(r - 1) : \E p \in A : cut[p] = i
    <3> SUFFICES ASSUME NEW i \in 0..(r - 1) PROVE \E p \in A : cut[p] = i
      OBVIOUS
    <3>1. i \in 0..(k - 1) /\ i < r
      BY <1>1
    <3>2. PICK p \in ids : rank[p] = i
      BY <1>8, <3>1 DEF Surjection
    <3>3. p \in A
      BY <1>2, <1>9, <3>1, <3>2
    <3> QED BY <1>10, <3>2, <3>3
  <2> QED BY <2>2, <2>3, <2>4 DEF Bijection, Injection, IsInjective, Surjection
<1>12. IsFiniteSet(A) /\ ExistsBijection(A, 0..(r - 1))
  <2>1. A \in SUBSET ids
    BY <1>9
  <2> QED BY <1>11, <2>1, FS_Subset DEF ExistsBijection
<1>13. Cardinality(0..(r - 1)) = r
  <2>1. r \in Nat /\ r - 1 \in Int /\ (0 > r - 1 => r = 0) /\ (r - 1) - 0 + 1 = r
    BY <1>1
  <2> QED BY <2>1, FS_Interval
<1>14. Cardinality(A) = r
  BY <1>12, <1>13, FS_Bijection
<1> QED BY <1>9, <1>14 DEF Below

LEMMA DivideOut ==
  ASSUME NEW a \in Nat, NEW k \in Nat \ {0}
  PROVE  a \div k \in Nat /\ a % k \in 0..(k - 1) /\ (a \div k) * k + (a % k) = a
OBVIOUS

\* A pot that is split evenly, with odd chips, is shared out to the last chip (Share).
LEMMA SharesAddUp ==
  ASSUME NEW ids, ids \subseteq Nat, IsFiniteSet(ids), ids # {}, NEW amount \in Nat, NEW f,
         \A p \in ids : f[p] = Share(p, ids, amount)
  PROVE  (\A p \in ids : f[p] \in Nat) /\ SumFunctionOnSet(f, ids) = amount
<1>1. PICK k \in Nat \ {0} : k = Cardinality(ids)
  BY FS_CardinalityType, FS_EmptySet
<1>2. PICK d, m : d = amount \div k /\ m = amount % k
  OBVIOUS
<1>3. d \in Nat /\ m \in 0..(k - 1) /\ d * k + m = amount
  BY <1>1, <1>2, DivideOut
<1>4. PICK A : A = {p \in ids : Cardinality({q \in ids : q < p}) < m}
  OBVIOUS
<1>5. A \in SUBSET ids /\ Cardinality(A) = m
  <2>1. m \in 0..Cardinality(ids)
    BY <1>1, <1>3
  <2> QED BY <1>4, <2>1, RanksCount
<1>6. PICK g : g = [p \in ids |-> IF p \in ids THEN d ELSE 0]
  OBVIOUS
<1>7. PICK h : h = [p \in ids |-> IF p \in A THEN 1 ELSE 0]
  OBVIOUS
<1>8. \A p \in ids : f[p] = g[p] + h[p]
  BY <1>1, <1>2, <1>4, <1>6, <1>7 DEF Share
<1>9. (\A p \in ids : f[p] \in Nat) /\ IntsOn(g, ids) /\ IntsOn(h, ids)
  BY <1>3, <1>6, <1>7, <1>8 DEF IntsOn
<1>10. SumFunctionOnSet(f, ids) = SumFunctionOnSet(g, ids) + SumFunctionOnSet(h, ids)
  BY <1>8, <1>9, SumPlus
<1>11. SumFunctionOnSet(g, ids) = d * k
  <2>1. \A p \in ids : g[p] = IF p \in ids THEN d ELSE 0
    BY <1>6
  <2>2. ids \in SUBSET ids /\ d \in Int
    BY <1>3
  <2> QED BY <1>1, <2>1, <2>2, SumOfEqual
<1>12. SumFunctionOnSet(h, ids) = 1 * m
  <2>1. \A p \in ids : h[p] = IF p \in A THEN 1 ELSE 0
    BY <1>7
  <2>2. 1 \in Int
    OBVIOUS
  <2> QED BY <1>5, <2>1, <2>2, SumOfEqual
<1>13. d * k + 1 * m = amount
  BY <1>3
<1> QED BY <1>9, <1>10, <1>11, <1>12, <1>13

-----------------------------------------------------------------------------
(* Layers and side pots *)

\* The level below l, as SidePots takes it.
Under(levels, l) == Max({0} \cup {m \in levels : m < l})

LEMMA UnderIs ==
  ASSUME NEW levels, levels \subseteq Nat, NEW l \in Nat \ {0}
  PROVE  /\ Under(levels, l) \in Nat /\ Under(levels, l) < l
         /\ Under(levels, l) = 0 \/ Under(levels, l) \in levels
         /\ \A m \in levels : m < l => m <= Under(levels, l)
<1>1. PICK S : S = {0} \cup {m \in levels : m < l}
  OBVIOUS
<1>2. S \subseteq Nat /\ S # {} /\ \A m \in S : m <= l
  <2>1. \A m \in S : m = 0 \/ (m \in levels /\ m \in Nat /\ m < l)
    BY <1>1
  <2>2. \A m \in S : m \in Nat /\ m <= l
    BY <2>1
  <2> QED BY <1>1, <2>2
<1>3. \E g \in S : \A m \in S : m <= g
  BY <1>2, BoundedHasGreatest
<1>4. \E g \in S : \A m \in S : g >= m
  BY <1>2, <1>3
<1>5. Max(S) \in S /\ \A m \in S : Max(S) >= m
  BY <1>4 DEF Max
<1>6. PICK g : g = Max(S)
  OBVIOUS
<1>7. g \in S /\ g = Under(levels, l) /\ \A m \in S : g >= m
  BY <1>1, <1>5, <1>6 DEF Under
<1> QED BY <1>1, <1>2, <1>7

\* The widths of the levels up to a height.
Capped(up, w, levels, height) == up = [l \in levels |-> IF l <= height THEN w[l] ELSE 0]
Widths(w, levels) == \A l \in levels : w[l] = l - Under(levels, l)

\* The layers up to a level are as high as the level.
LEMMA LayersStack ==
  ASSUME NEW levels, levels \subseteq Nat \ {0}, IsFiniteSet(levels), NEW w, Widths(w, levels),
         NEW up, NEW height \in levels \cup {0}, Capped(up, w, levels, height)
  PROVE  SumFunctionOnSet(up, levels) = height
<1> DEFINE Upto(t) == [l \in levels |-> IF l <= t THEN w[l] ELSE 0]
           Bad == {t \in levels \cup {0} : SumFunctionOnSet(Upto(t), levels) # t}
<1> SUFFICES ASSUME Bad # {} PROVE FALSE
  BY DEF Capped
<1>1. Bad \subseteq Nat
  <2>1. \A t \in Bad : t \in levels \cup {0}
    OBVIOUS
  <2>2. \A t \in levels \cup {0} : t \in Nat
    OBVIOUS
  <2>3. \A t \in Bad : t \in Nat
    BY <2>1, <2>2
  <2> HIDE DEF Bad
  <2> QED BY <2>3
<1>2. PICK t \in Bad : \A u \in Bad : t <= u
  <2> HIDE DEF Bad
  <2> QED BY <1>1, NatHasLeast
<1>3. \A l \in levels : l \in Nat /\ w[l] \in Nat /\ w[l] = l - Under(levels, l) /\ Under(levels, l) \in Nat
  <2> SUFFICES ASSUME NEW l \in levels
               PROVE  l \in Nat /\ w[l] \in Nat /\ w[l] = l - Under(levels, l) /\ Under(levels, l) \in Nat
    OBVIOUS
  <2>1. levels \subseteq Nat /\ l \in Nat \ {0}
    OBVIOUS
  <2>2. Under(levels, l) \in Nat /\ Under(levels, l) < l
    BY <2>1, UnderIs
  <2> QED BY <2>1, <2>2 DEF Widths
<1>4. \A u \in levels \cup {0} : IntsOn(Upto(u), levels)
  BY <1>3 DEF IntsOn
<1>5. CASE t = 0
  <2>1. \A l \in levels : Upto(0)[l] = IF l \in {} THEN 0 ELSE 0
    BY <1>3
  <2>2. SumFunctionOnSet(Upto(0), levels) = 0 * Cardinality({})
    <3>1. {} \in SUBSET levels /\ 0 \in Int
      OBVIOUS
    <3> HIDE DEF Upto
    <3> QED BY <2>1, <3>1, SumOfEqual
  <2>3. Cardinality({}) = 0
    BY FS_EmptySet
  <2> QED BY <1>2, <1>5, <2>2, <2>3
<1>6. CASE t # 0
  <2>1. t \in levels /\ t \in Nat
    BY <1>2, <1>6
  <2>2. PICK b : b = Under(levels, t)
    OBVIOUS
  <2>3. b \in levels \cup {0} /\ b \in Nat /\ b < t /\ \A m \in levels : m < t => m <= b
    <3>1. levels \subseteq Nat /\ t \in Nat \ {0}
      BY <1>6, <2>1
    <3> QED BY <2>2, <3>1, UnderIs
  <2>4. SumFunctionOnSet(Upto(b), levels) = b
    BY <1>2, <2>1, <2>3
  <2>5. PICK f, g : f = Upto(b) /\ g = Upto(t)
    OBVIOUS
  <2>6. g[t] = w[t] /\ f[t] = 0 /\ w[t] = t - b
    BY <1>3, <2>1, <2>2, <2>3, <2>5
  <2>7. \A l \in levels \ {t} : g[l] = f[l]
    <3>1. \A l \in levels \ {t} : l <= t <=> l <= b
      BY <1>3, <2>1, <2>3
    <3> QED BY <2>5, <3>1
  <2>8. IntsOn(f, levels) /\ SameBut(g, f, levels, t)
    BY <1>3, <1>4, <2>1, <2>3, <2>5, <2>6, <2>7 DEF SameBut
  <2>9. SumFunctionOnSet(g, levels) = SumFunctionOnSet(f, levels) + (g[t] - f[t])
    BY <2>1, <2>8, SumChange
  <2>10. SumFunctionOnSet(g, levels) = t
    BY <2>1, <2>3, <2>4, <2>5, <2>6, <2>9
  <2> QED BY <1>2, <2>5, <2>10
<1> QED BY <1>5, <1>6

LEMMA RangeFinite ==
  ASSUME NEW D, IsFiniteSet(D), NEW c \in [D -> Nat]
  PROVE  /\ IsFiniteSet(Range(c)) /\ Range(c) \subseteq Nat
         /\ \A p \in D : c[p] \in Range(c)
         /\ \A v \in Range(c) : \E p \in D : c[p] = v
<1>1. Range(c) = {c[p] : p \in D}
  BY DEF Range
<1>2. c \in Surjection(D, Range(c))
  BY <1>1 DEF Surjection
<1> QED BY <1>1, <1>2, FS_Surjection

\* Who pays into the layer up to l, and what the layers hold.
Payers(c, l) == {p \in Player : c[p] >= l}

Layers(a, c) ==
  \A l \in Range(c) \ {0} : a[l] = (l - Under(Range(c) \ {0}, l)) * Cardinality(Payers(c, l))

\* The layers hold what was put in.
LEMMA LayersAddUp ==
  ASSUME NEW c \in [Player -> Nat], NEW a, Layers(a, c)
  PROVE  /\ \A l \in Range(c) \ {0} : a[l] \in Nat
         /\ SumFunctionOnSet(a, Range(c) \ {0}) = SumFunctionOnSet(c, Player)
<1>1. PICK levels : levels = Range(c) \ {0}
  OBVIOUS
<1>2. IsFiniteSet(Player) /\ IsFiniteSet(levels) /\ levels \subseteq Nat \ {0}
      /\ \A p \in Player : c[p] \in levels \cup {0}
  BY <1>1, PokerAssumption, RangeFinite, FS_RemoveElement
<1>3. PICK w : w = [l \in levels |-> l - Under(levels, l)]
  OBVIOUS
<1>4. Widths(w, levels) /\ \A l \in levels : w[l] \in Nat
  <2>1. \A l \in levels : Under(levels, l) \in Nat /\ Under(levels, l) < l
    BY <1>2, UnderIs
  <2> QED BY <1>2, <1>3, <2>1 DEF Widths
<1>5. PICK m : m = [lp \in levels \X Player |-> IF lp[1] <= c[lp[2]] THEN w[lp[1]] ELSE 0]
  OBVIOUS
<1>6. \A l \in levels, p \in Player : m[<<l, p>>] = (IF l <= c[p] THEN w[l] ELSE 0) /\ m[<<l, p>>] \in Int
  BY <1>4, <1>5
<1>7. ASSUME NEW l \in levels
      PROVE  a[l] \in Nat /\ a[l] = SumFunctionOnSet([p \in Player |-> m[<<l, p>>]], Player)
  <2>1. PICK f : f = [p \in Player |-> m[<<l, p>>]]
    OBVIOUS
  <2>2. Payers(c, l) \in SUBSET Player
    BY DEF Payers
  <2>3. \A p \in Player : f[p] = IF p \in Payers(c, l) THEN w[l] ELSE 0
    <3>1. \A p \in Player : l <= c[p] <=> c[p] >= l
      BY <1>2
    <3> QED BY <1>6, <2>1, <3>1 DEF Payers
  <2>4. SumFunctionOnSet(f, Player) = w[l] * Cardinality(Payers(c, l))
    BY <1>2, <1>4, <2>2, <2>3, SumOfEqual
  <2>5. a[l] = w[l] * Cardinality(Payers(c, l))
    BY <1>1, <1>3 DEF Layers
  <2>6. Cardinality(Payers(c, l)) \in Nat
    BY <1>2, <2>2, FS_Subset, FS_CardinalityType
  <2>7. PICK k \in Nat, v \in Nat : k = Cardinality(Payers(c, l)) /\ v = w[l]
    BY <1>4, <2>6
  <2>8. v * k \in Nat
    OBVIOUS
  <2> QED BY <2>1, <2>4, <2>5, <2>7, <2>8
<1>8. RowSums(a, m, levels, Player)
  BY <1>7 DEF RowSums
<1>9. ColSums(c, m, levels, Player)
  <2>1. ASSUME NEW p \in Player
        PROVE  c[p] = SumFunctionOnSet([l \in levels |-> m[<<l, p>>]], levels)
    <3>1. PICK up : up = [l \in levels |-> m[<<l, p>>]]
      OBVIOUS
    <3>2. PICK t : t = c[p]
      OBVIOUS
    <3>3. Capped(up, w, levels, t) /\ t \in levels \cup {0}
      BY <1>2, <1>6, <3>1, <3>2 DEF Capped
    <3>4. SumFunctionOnSet(up, levels) = t
      BY <1>2, <1>4, <3>2, <3>3, LayersStack
    <3> QED BY <3>1, <3>2, <3>4
  <2> QED BY <2>1 DEF ColSums
<1>10. SumFunctionOnSet(a, levels) = SumFunctionOnSet(c, Player)
  <2>1. IntTable(m, levels, Player)
    BY <1>6 DEF IntTable
  <2> QED BY <1>2, <1>8, <1>9, <2>1, SumEitherWay
<1> QED BY <1>1, <1>7, <1>10

\* A pot per winnable level.
Pot(a, e) == [amount |-> a, eligible |-> e]
LayerOf(c, l) == (l - Under(Range(c) \ {0}, l)) * Cardinality(Payers(c, l))
Eligible(c, live, l) == {p \in live : c[p] >= l}
Winnable(c, live) == {l \in Range(c) \ {0} : Eligible(c, live, l) # {}}

\* SidePots, with its parts by name.
LEMMA SidePotsAre ==
  ASSUME NEW x, NEW live
  PROVE  SidePots(x, live) =
           [l \in Winnable(x.contributed, live) |->
              Pot(LayerOf(x.contributed, l)
                  + IF l = Max(Winnable(x.contributed, live))
                    THEN SumFunction([k \in (Range(x.contributed) \ {0}) \ Winnable(x.contributed, live) |->
                                        LayerOf(x.contributed, k)])
                    ELSE 0,
                  Eligible(x.contributed, live, l))]
BY DEF SidePots, Pot, LayerOf, Eligible, Winnable, Under, Payers

\* Pots that somebody may win and that hold the total.
Pots(pots, live, total) ==
  /\ IsFiniteSet(DOMAIN pots) /\ pots = [l \in DOMAIN pots |-> pots[l]]
  /\ \A l \in DOMAIN pots : pots[l].amount \in Nat /\ pots[l].eligible # {} /\ pots[l].eligible \subseteq live
  /\ SumFunction([l \in DOMAIN pots |-> pots[l].amount]) = total

\* The side pots of a showdown hold all that was put in (SidePots).
LEMMA PotsAddUp ==
  ASSUME NEW x, x.contributed \in [Player -> Nat], NEW live \in SUBSET Player,
         \E q \in live : x.contributed[q] > 0
  PROVE  Pots(SidePots(x, live), live, SumFunctionOnSet(x.contributed, Player))
<1>1. PICK c : c = x.contributed
  OBVIOUS
<1>2. PICK levels, W : levels = Range(c) \ {0} /\ W = Winnable(c, live)
  OBVIOUS
<1>3. IsFiniteSet(levels) /\ levels \subseteq Nat /\ \A p \in Player : c[p] \in levels \cup {0}
  BY <1>1, <1>2, PokerAssumption, RangeFinite, FS_RemoveElement
<1>4. W \in SUBSET levels /\ IsFiniteSet(W)
  <2>1. W \in SUBSET levels
    BY <1>2 DEF Winnable
  <2> QED BY <1>3, <2>1, FS_Subset
<1>5. PICK a : a = [l \in levels |-> LayerOf(c, l)]
  OBVIOUS
<1>6. (\A l \in levels : a[l] \in Nat) /\ SumFunctionOnSet(a, levels) = SumFunctionOnSet(c, Player)
  <2>1. Layers(a, c)
    BY <1>2, <1>5 DEF Layers, LayerOf
  <2> QED BY <1>1, <1>2, <2>1, LayersAddUp
<1>7. PICK dead : dead = SumFunctionOnSet(a, levels \ W)
  OBVIOUS
<1>8. IsFiniteSet(levels \ W) /\ IntsOn(a, levels \ W) /\ IntsOn(a, levels) /\ IntsOn(a, W)
  <2>1. IsFiniteSet(levels \ W)
    BY <1>3, FS_Subset
  <2>2. \A l \in levels : a[l] \in Int
    BY <1>6
  <2> QED BY <1>4, <2>1, <2>2 DEF IntsOn
<1>9. SumFunction([k \in levels \ W |-> LayerOf(c, k)]) = dead
  <2>1. PICK R : R = levels \ W
    OBVIOUS
  <2>2. PICK f : f = [k \in R |-> LayerOf(c, k)]
    OBVIOUS
  <2>3. DOMAIN f = R /\ \A k \in R : f[k] = a[k]
    BY <1>5, <2>1, <2>2
  <2>4. SumFunction(f) = SumFunctionOnSet(f, R)
    BY <2>3 DEF SumFunction
  <2>5. SumFunctionOnSet(f, R) = SumFunctionOnSet(a, R)
    BY <1>8, <2>1, <2>3, SumSame
  <2> QED BY <1>7, <2>1, <2>2, <2>4, <2>5
<1>10. dead \in Nat
  <2>1. dead \in Int
    BY <1>7, <1>8, SumType
  <2>2. PICK R : R = levels \ W
    OBVIOUS
  <2>3. PICK z : z = [l \in R |-> 0]
    OBVIOUS
  <2>4. IntsOn(z, R) /\ \A l \in R : z[l] <= a[l]
    BY <1>6, <2>2, <2>3 DEF IntsOn
  <2>5. SumFunctionOnSet(z, R) <= dead
    BY <1>7, <1>8, <2>2, <2>4, SumLarger
  <2>6. SumFunctionOnSet(z, R) = 0 * Cardinality({})
    <3>1. {} \in SUBSET R /\ 0 \in Int /\ \A l \in R : z[l] = IF l \in {} THEN 0 ELSE 0
      BY <2>3
    <3> QED BY <1>8, <2>2, <3>1, SumOfEqual
  <2>7. Cardinality({}) = 0
    BY FS_EmptySet
  <2> QED BY <2>1, <2>5, <2>6, <2>7
<1>11. Max(W) \in W
  <2>1. W \subseteq Nat /\ W # {}
    <3>1. PICK q \in live : c[q] > 0
      BY <1>1
    <3>2. q \in Player /\ c[q] \in Nat /\ c[q] >= c[q]
      BY <1>1
    <3>3. c[q] \in levels /\ q \in Eligible(c, live, c[q])
      BY <1>3, <3>1, <3>2 DEF Eligible
    <3>4. c[q] \in W
      BY <1>2, <3>3 DEF Winnable
    <3> QED BY <1>3, <1>4, <3>4
  <2>2. PICK id : id = [l \in W |-> l]
    OBVIOUS
  <2>3. IntsOn(id, W)
    BY <2>1, <2>2 DEF IntsOn
  <2>4. \E l \in W : \A k \in W : id[k] <= id[l]
    BY <1>4, <2>1, <2>3, SomeoneGreatest
  <2>5. PICK l \in W : \A k \in W : k <= l
    BY <2>2, <2>4
  <2>6. \A k \in W : l >= k
    BY <2>1, <2>5
  <2> QED BY <2>6 DEF Max
<1>12. PICK most : most = Max(W)
  OBVIOUS
<1>13. PICK pots : pots = SidePots(x, live)
  OBVIOUS
<1>14. pots = [l \in W |-> Pot(LayerOf(c, l) + IF l = most THEN dead ELSE 0, Eligible(c, live, l))]
  BY <1>1, <1>2, <1>9, <1>12, <1>13, SidePotsAre
<1>15. DOMAIN pots = W /\ pots = [l \in W |-> pots[l]]
       /\ \A l \in W : /\ pots[l].amount = a[l] + IF l = most THEN dead ELSE 0
                       /\ pots[l].eligible = Eligible(c, live, l)
  <2>1. \A l \in W : pots[l] = Pot(LayerOf(c, l) + IF l = most THEN dead ELSE 0, Eligible(c, live, l))
    BY <1>14
  <2>2. \A v, e : Pot(v, e).amount = v /\ Pot(v, e).eligible = e
    BY DEF Pot
  <2>3. \A l \in W : a[l] = LayerOf(c, l)
    BY <1>4, <1>5
  <2> QED BY <1>14, <2>1, <2>2, <2>3
<1>16. PICK f : f = [l \in W |-> pots[l].amount]
  OBVIOUS
<1>17. SumFunctionOnSet(f, W) = SumFunctionOnSet(a, W) + dead
  <2>1. most \in W /\ SameBut(f, a, W, most) /\ f[most] - a[most] = dead
    <3>1. a[most] \in Nat /\ f[most] = a[most] + dead
      BY <1>4, <1>6, <1>11, <1>12, <1>15, <1>16
    <3>2. \A l \in W \ {most} : f[l] = a[l]
      BY <1>4, <1>6, <1>15, <1>16
    <3> QED BY <1>10, <1>11, <1>12, <3>1, <3>2 DEF SameBut
  <2>2. SumFunctionOnSet(f, W) = SumFunctionOnSet(a, W) + (f[most] - a[most])
    BY <1>4, <1>8, <2>1, SumChange
  <2> QED BY <2>1, <2>2
<1>18. SumFunctionOnSet(a, levels) = SumFunctionOnSet(a, W) + dead
  BY <1>3, <1>4, <1>7, <1>8, SumOfParts
<1>19. SumFunction(f) = SumFunctionOnSet(c, Player)
  BY <1>6, <1>16, <1>17, <1>18 DEF SumFunction
<1>20. \A l \in W : pots[l].amount \in Nat /\ pots[l].eligible # {} /\ pots[l].eligible \subseteq live
  <2>1. \A l \in W : a[l] \in Nat /\ Eligible(c, live, l) # {} /\ Eligible(c, live, l) \subseteq live
    BY <1>2, <1>4, <1>6 DEF Winnable, Eligible
  <2> QED BY <1>10, <1>15, <2>1
<1> QED BY <1>1, <1>4, <1>13, <1>15, <1>16, <1>19, <1>20 DEF Pots

-----------------------------------------------------------------------------
(* Awarding them *)

\* What is taken of a pot is all of it (Taken).
LEMMA PotTaken ==
  ASSUME NEW x, x.strength \in [Player -> Int], NEW pot, pot.amount \in Nat, pot.eligible # {},
         pot.eligible \subseteq Player, NEW f, \A p \in Player : f[p] = Taken(x, pot, p)
  PROVE  (\A p \in Player : f[p] \in Nat) /\ SumFunctionOnSet(f, Player) = pot.amount
<1>1. PICK E, W : E = pot.eligible /\ W = PotWinners(x, pot)
  OBVIOUS
<1>2. E \in SUBSET Player /\ W \in SUBSET Player /\ E # {}
  BY <1>1 DEF PotWinners
<1>3. IsFiniteSet(E) /\ IsFiniteSet(W) /\ W \subseteq Nat /\ IsFiniteSet(Player)
  BY <1>2, PokerAssumption, FS_Subset
<1>4. W # {}
  <2>1. IntsOn(x.strength, E)
    BY <1>2 DEF IntsOn
  <2>2. \E p \in E : \A q \in E : x.strength[q] <= x.strength[p]
    BY <1>2, <1>3, <2>1, SomeoneGreatest
  <2> QED BY <1>1, <2>2 DEF PotWinners
<1>5. PICK g : g = [p \in W |-> Share(p, W, pot.amount)]
  OBVIOUS
<1>6. (\A p \in W : g[p] \in Nat) /\ SumFunctionOnSet(g, W) = pot.amount
  BY <1>3, <1>4, <1>5, SharesAddUp
<1>7. \A p \in Player : f[p] = IF p \in W THEN g[p] ELSE 0
  BY <1>1, <1>5 DEF Taken
<1>8. \A p \in Player : f[p] \in Nat
  BY <1>6, <1>7
<1>9. SumFunctionOnSet(f, Player) = SumFunctionOnSet(f, W)
  <2>1. IntsOn(f, Player) /\ \A p \in Player \ W : f[p] = 0
    BY <1>7, <1>8 DEF IntsOn
  <2> QED BY <1>2, <1>3, <2>1, SumOfSome
<1>10. SumFunctionOnSet(f, W) = SumFunctionOnSet(g, W)
  <2>1. IntsOn(g, W) /\ \A p \in W : f[p] = g[p]
    BY <1>2, <1>6, <1>7 DEF IntsOn
  <2> QED BY <1>3, <2>1, SumSame
<1> QED BY <1>6, <1>8, <1>9, <1>10

-----------------------------------------------------------------------------
(* Chips that change hands *)

LEMMA PurseInts == ASSUME NEW f \in Purse PROVE IntsOn(f, Player) /\ SumFunctionOnSet(f, Player) \in Int
<1>1. IntsOn(f, Player) /\ IsFiniteSet(Player)
  BY PokerAssumption DEF IntsOn, Purse
<1> QED BY <1>1, SumType

\* A purse changes in one place.
LEMMA PurseChange ==
  ASSUME NEW f \in Purse, NEW p \in Player, NEW v \in Nat
  PROVE  /\ [f EXCEPT ![p] = v] \in Purse
         /\ SumFunctionOnSet([f EXCEPT ![p] = v], Player) = SumFunctionOnSet(f, Player) + (v - f[p])
<1>1. PICK g : g = [f EXCEPT ![p] = v]
  OBVIOUS
<1>2. g \in Purse /\ g[p] = v /\ \A q \in Player \ {p} : g[q] = f[q]
  BY <1>1 DEF Purse
<1>3. SameBut(g, f, Player, p)
  BY <1>2 DEF SameBut
<1>4. IntsOn(f, Player) /\ IsFiniteSet(Player)
  BY PurseInts, PokerAssumption
<1>5. SumFunctionOnSet(g, Player) = SumFunctionOnSet(f, Player) + (g[p] - f[p])
  BY <1>3, <1>4, SumChange
<1> QED BY <1>1, <1>2, <1>5

\* What p pays of an amount.
Affordable(x, p, amount) == IF amount <= x.chips[p] THEN amount ELSE x.chips[p]

Payed(x, p, pay) ==
  [x EXCEPT !.chips[p] = @ - pay, !.bets[p] = @ + pay, !.contributed[p] = @ + pay, !.pool = @ + pay,
            !.allIn = IF x.chips[p] = pay THEN @ \cup {p} ELSE @]

\* Nobody pays more than they have (Pay).
LEMMA PayIs ==
  ASSUME NEW x \in PokerState, NEW p \in Player, NEW amount \in Nat
  PROVE  /\ Affordable(x, p, amount) \in 0..x.chips[p]
         /\ Pay(x, p, amount) = Payed(x, p, Affordable(x, p, amount))
<1>1. x.chips[p] \in Nat
  BY DEF PokerState, Purse
<1>2. PICK S, v : S = {amount, x.chips[p]} /\ v = Affordable(x, p, amount)
  OBVIOUS
<1>3. v \in S /\ \A y \in S : v <= y
  BY <1>1, <1>2 DEF Affordable
<1>4. \A w \in S : (\A y \in S : w <= y) => w = v
  BY <1>1, <1>2, <1>3
<1>5. Min(S) = v
  BY <1>3, <1>4 DEF Min
<1>6. v \in 0..x.chips[p]
  BY <1>1, <1>2 DEF Affordable
<1>7. PICK pay : pay = Min({amount, x.chips[p]})
  OBVIOUS
<1>8. Pay(x, p, amount) = Payed(x, p, pay)
  BY <1>7 DEF Pay, Payed
<1> QED BY <1>2, <1>5, <1>6, <1>7, <1>8

\* Paying makes and loses no chip.
LEMMA PayKeeps ==
  ASSUME NEW x \in PokerState, NEW p \in Player, NEW pay \in 0..x.chips[p]
  PROVE  /\ Payed(x, p, pay) \in PokerState
         /\ Bank(Payed(x, p, pay)) = Bank(x)
         /\ PutIn(x) = x.pool => PutIn(Payed(x, p, pay)) = Payed(x, p, pay).pool
<1>1. PICK y : y = Payed(x, p, pay)
  OBVIOUS
<1>2. x.chips \in Purse /\ x.bets \in Purse /\ x.contributed \in Purse /\ x.pool \in Nat /\ pay \in Nat
      /\ x.chips[p] \in Nat /\ x.bets[p] \in Nat /\ x.contributed[p] \in Nat /\ x.chips[p] - pay \in Nat
  BY DEF PokerState, Purse
<1>3. PICK ch, be, co : /\ ch = [x.chips EXCEPT ![p] = x.chips[p] - pay]
                        /\ be = [x.bets EXCEPT ![p] = x.bets[p] + pay]
                        /\ co = [x.contributed EXCEPT ![p] = x.contributed[p] + pay]
  OBVIOUS
<1>4. /\ ch \in Purse /\ be \in Purse /\ co \in Purse
      /\ SumFunctionOnSet(ch, Player)
         = SumFunctionOnSet(x.chips, Player) + ((x.chips[p] - pay) - x.chips[p])
      /\ SumFunctionOnSet(co, Player)
         = SumFunctionOnSet(x.contributed, Player) + ((x.contributed[p] + pay) - x.contributed[p])
  <2>1. PICK f, g, h \in Purse : f = x.chips /\ g = x.bets /\ h = x.contributed
    BY <1>2
  <2>2. PICK v, w, u \in Nat : v = x.chips[p] - pay /\ w = x.bets[p] + pay /\ u = x.contributed[p] + pay
    BY <1>2
  <2>3. ch = [f EXCEPT ![p] = v] /\ be = [g EXCEPT ![p] = w] /\ co = [h EXCEPT ![p] = u]
    BY <1>3, <2>1, <2>2
  <2>4. /\ ch \in Purse /\ SumFunctionOnSet(ch, Player) = SumFunctionOnSet(f, Player) + (v - f[p])
        /\ be \in Purse
        /\ co \in Purse /\ SumFunctionOnSet(co, Player) = SumFunctionOnSet(h, Player) + (u - h[p])
    BY <2>3, PurseChange
  <2> QED BY <2>1, <2>2, <2>4
<1>5. y = [x EXCEPT !.chips = ch, !.bets = be, !.contributed = co, !.pool = x.pool + pay,
                    !.allIn = IF x.chips[p] = pay THEN x.allIn \cup {p} ELSE x.allIn]
  BY <1>1, <1>3 DEF Payed
<1>8. PICK a, b : a = (IF x.chips[p] = pay THEN x.allIn \cup {p} ELSE x.allIn) /\ b = x.pool + pay
  OBVIOUS
<1>9. a \in SUBSET Player /\ b \in Nat
  BY <1>2, <1>8 DEF PokerState
<1>10. y = [x EXCEPT !.chips = ch, !.bets = be, !.contributed = co, !.pool = b, !.allIn = a]
  BY <1>5, <1>8
<1>6. y \in PokerState /\ y.chips = ch /\ y.contributed = co /\ y.pool = x.pool + pay
  BY <1>4, <1>8, <1>9, <1>10 DEF PokerState
<1>7. SumFunctionOnSet(x.chips, Player) \in Int /\ SumFunctionOnSet(x.contributed, Player) \in Int
  BY <1>2, PurseInts
<1> QED BY <1>1, <1>2, <1>4, <1>6, <1>7 DEF Bank, PutIn

-----------------------------------------------------------------------------
(* The end of a hand *)

\* y is x after its chips went from the pool to the players.
Settled(x, y) ==
  /\ y \in PokerState /\ y = [x EXCEPT !.chips = y.chips, !.pool = 0]
  /\ Bank(y) = Bank(x)

\* The pots of a showdown go to the players in full (AwardPots).
LEMMA AwardPotsSettles ==
  ASSUME NEW x \in PokerState, PutIn(x) = x.pool, NEW live \in SUBSET Player,
         \E q \in live : x.contributed[q] > 0
  PROVE  Settled(x, AwardPots(x, live))
<1>1. x.contributed \in [Player -> Nat] /\ x.strength \in [Player -> Int] /\ x.pool \in Nat
      /\ x.chips \in Purse /\ \A p \in Player : x.chips[p] \in Nat
  BY DEF PokerState, Purse
<1>2. PICK pots, W : pots = SidePots(x, live) /\ W = DOMAIN pots
  OBVIOUS
<1>3. Pots(pots, live, x.pool)
  BY <1>1, <1>2, PotsAddUp DEF PutIn
<1>4. IsFiniteSet(W) /\ IsFiniteSet(Player)
      /\ \A l \in W : pots[l].amount \in Nat /\ pots[l].eligible # {} /\ pots[l].eligible \subseteq Player
  BY <1>2, <1>3, PokerAssumption DEF Pots
<1>5. PICK m : m = [pl \in Player \X W |-> Taken(x, pots[pl[2]], pl[1])]
  OBVIOUS
<1>6. \A p \in Player, l \in W : m[<<p, l>>] = Taken(x, pots[l], p)
  BY <1>5
<1>7. ASSUME NEW l \in W
      PROVE  /\ \A p \in Player : m[<<p, l>>] \in Nat
             /\ pots[l].amount = SumFunctionOnSet([p \in Player |-> m[<<p, l>>]], Player)
  <2>1. PICK f : f = [p \in Player |-> m[<<p, l>>]]
    OBVIOUS
  <2>2. \A p \in Player : f[p] = Taken(x, pots[l], p)
    BY <1>6, <2>1
  <2>3. PICK pot : pot = pots[l]
    OBVIOUS
  <2>4. pot.amount \in Nat /\ pot.eligible # {} /\ pot.eligible \subseteq Player
    BY <1>4, <2>3
  <2>5. (\A p \in Player : f[p] \in Nat) /\ SumFunctionOnSet(f, Player) = pot.amount
    BY <1>1, <2>2, <2>3, <2>4, PotTaken
  <2> QED BY <2>1, <2>3, <2>5
<1>8. PICK amounts : amounts = [l \in W |-> pots[l].amount]
  OBVIOUS
<1>9. SumFunctionOnSet(amounts, W) = x.pool /\ SumFunction([l \in DOMAIN pots |-> pots[l].amount]) = x.pool
  BY <1>2, <1>3, <1>8 DEF Pots, SumFunction
<1>10. PICK takes : takes = [p \in Player |-> SumFunctionOnSet([l \in W |-> m[<<p, l>>]], W)]
  OBVIOUS
<1>11. SumFunctionOnSet(takes, Player) = x.pool
  <2>5. ASSUME NEW p \in Player, NEW l \in W PROVE m[<<p, l>>] \in Int
    <3>1. \A q \in Player : m[<<q, l>>] \in Nat
      BY <1>7
    <3>2. m[<<p, l>>] \in Nat
      BY <3>1
    <3> QED BY <3>2
  <2>1. IntTable(m, Player, W)
    BY <2>5 DEF IntTable
  <2>2. RowSums(takes, m, Player, W)
    BY <1>10 DEF RowSums
  <2>3. ColSums(amounts, m, Player, W)
    BY <1>7, <1>8 DEF ColSums
  <2>4. SumFunctionOnSet(takes, Player) = SumFunctionOnSet(amounts, W)
    BY <1>4, <2>1, <2>2, <2>3, SumEitherWay
  <2> QED BY <1>9, <2>4
<1>12. ASSUME NEW p \in Player
       PROVE  takes[p] \in Nat /\ takes[p] = SumFunction([l \in DOMAIN pots |-> Taken(x, pots[l], p)])
  <2>1. PICK f : f = [l \in W |-> m[<<p, l>>]]
    OBVIOUS
  <2>2. f = [l \in DOMAIN pots |-> Taken(x, pots[l], p)] /\ DOMAIN f = W
    BY <1>2, <1>6, <2>1
  <2>3. takes[p] = SumFunctionOnSet(f, W)
    BY <1>10, <2>1
  <2>11. \A l \in W : m[<<p, l>>] \in Nat
    BY <1>7
  <2>12. \A l \in W : f[l] = m[<<p, l>>]
    BY <2>1
  <2>13. \A l \in W : f[l] \in Nat
    BY <2>11, <2>12
  <2>4. IntsOn(f, W) /\ \A l \in W : f[l] >= 0
    BY <2>13 DEF IntsOn
  <2>5. PICK z : z = [l \in W |-> 0]
    OBVIOUS
  <2>6. IntsOn(z, W) /\ \A l \in W : z[l] <= f[l]
    BY <2>4, <2>5 DEF IntsOn
  <2>7. SumFunctionOnSet(z, W) <= SumFunctionOnSet(f, W)
    BY <1>4, <2>4, <2>6, SumLarger
  <2>8. SumFunctionOnSet(z, W) = 0
    BY <1>4, <2>5, SumOfNothing
  <2>9. SumFunctionOnSet(f, W) \in Int
    BY <1>4, <2>4, SumType
  <2>10. takes[p] \in Nat
    BY <2>3, <2>7, <2>8, <2>9
  <2> QED BY <2>2, <2>3, <2>10 DEF SumFunction
<1>13. PICK ch : ch = [p \in Player |-> x.chips[p] + takes[p]]
  OBVIOUS
<1>21. \A p \in Player : takes[p] \in Nat
  BY <1>12
<1>22. \A p \in Player : ch[p] = x.chips[p] + takes[p] /\ ch[p] \in Nat
  BY <1>1, <1>13, <1>21
<1>23. takes \in Purse
  BY <1>10, <1>21 DEF Purse
<1>14. ch \in Purse /\ takes \in Purse /\ \A p \in Player : ch[p] = x.chips[p] + takes[p]
  BY <1>13, <1>22, <1>23 DEF Purse
<1>15. SumFunctionOnSet(ch, Player) = SumFunctionOnSet(x.chips, Player) + x.pool
  BY <1>1, <1>4, <1>11, <1>14, PurseInts, SumPlus
<1>16. PICK y : y = AwardPots(x, live)
  OBVIOUS
<1>17. y = [x EXCEPT !.chips = ch, !.pool = 0]
  <2>1. ch = [p \in Player |-> x.chips[p] + SumFunction([l \in DOMAIN pots |-> Taken(x, pots[l], p)])]
    BY <1>12, <1>13
  <2>2. y = [x EXCEPT !.chips = [p \in Player |->
                                      x.chips[p] + SumFunction([l \in DOMAIN pots |-> Taken(x, pots[l], p)])],
                      !.pool = x.pool - SumFunction([l \in DOMAIN pots |-> pots[l].amount])]
    BY <1>2, <1>16 DEF AwardPots
  <2>3. x.pool - SumFunction([l \in DOMAIN pots |-> pots[l].amount]) = 0
    BY <1>1, <1>9
  <2> QED BY <2>1, <2>2, <2>3
<1>18. y \in PokerState /\ y.chips = ch /\ y.pool = 0
  BY <1>14, <1>17 DEF PokerState
<1>19. SumFunctionOnSet(ch, Player) \in Int
  BY <1>14, PurseInts
<1>20. Bank(y) = Bank(x)
  BY <1>15, <1>18, <1>19 DEF Bank
<1> QED BY <1>16, <1>17, <1>18, <1>20 DEF Settled

LEMMA MaxOfBounded ==
  ASSUME NEW S, S \subseteq Nat, S # {}, NEW n \in Nat, \A m \in S : m <= n
  PROVE  Max(S) \in S /\ \A m \in S : m <= Max(S)
<1>1. \E g \in S : \A m \in S : m <= g
  BY BoundedHasGreatest
<1>2. PICK T : T = S
  OBVIOUS
<1>3. \A m \in T : m \in Nat
  BY <1>2
<1>4. \E g \in T : \A m \in T : g >= m
  BY <1>1, <1>2, <1>3
<1>5. Max(T) \in T /\ \A m \in T : Max(T) >= m
  BY <1>4 DEF Max
<1>6. PICK g : g = Max(T)
  OBVIOUS
<1>7. \A m \in T : m <= g
  BY <1>3, <1>5, <1>6
<1> QED BY <1>2, <1>5, <1>6, <1>7

\* y is x after somebody got an unmatched part of their bet back.
Refunded(x, y) ==
  /\ y \in PokerState
  /\ \A q \in Player : y.chips[q] + y.contributed[q] = x.chips[q] + x.contributed[q]
  /\ y = [x EXCEPT !.contributed = y.contributed, !.chips = y.chips, !.pool = y.pool]
  /\ Bank(y) = Bank(x) /\ PutIn(y) = y.pool
  /\ \A a, b \in Player : a # b /\ x.contributed[a] > 0 /\ x.contributed[b] > 0
                          => y.contributed[a] > 0 \/ y.contributed[b] > 0

\* A refund makes and loses no chip, and leaves one of any two with a stake in the pot.
LEMMA RefundUncalledRefunds ==
  ASSUME NEW x \in PokerState, PutIn(x) = x.pool, Player # {}
  PROVE  Refunded(x, RefundUncalled(x))
<1>1. PICK c, y : c = x.contributed /\ y = RefundUncalled(x)
  OBVIOUS
<1>2. c \in Purse /\ x.chips \in Purse /\ x.pool \in Nat
      /\ (\A p \in Player : c[p] \in Nat /\ x.chips[p] \in Nat)
      /\ IsFiniteSet(Player)
  BY <1>1, PokerAssumption DEF PokerState, Purse
<1>3. PICK most, tops : most = Max(Range(c)) /\ tops = {p \in Player : c[p] = most}
  OBVIOUS
<1>4. most \in Nat /\ tops # {} /\ \A p \in Player : c[p] <= most
  <2>1. PICK S : S = Range(c)
    OBVIOUS
  <2>2. \A m : m \in S <=> \E p \in Player : m = c[p]
    BY <1>2, <2>1 DEF Range, Purse
  <2>3. PICK t \in Player : \A p \in Player : c[p] <= c[t]
    <3>1. IntsOn(c, Player)
      BY <1>2, PurseInts
    <3> QED BY <1>2, <3>1, SomeoneGreatest
  <2>4. \A m \in S : m \in Nat /\ m <= c[t]
    BY <1>2, <2>2, <2>3
  <2>5. S \subseteq Nat /\ S # {} /\ c[t] \in Nat /\ \A m \in S : m <= c[t]
    BY <1>2, <2>2, <2>4
  <2>6. PICK g : g = Max(S)
    OBVIOUS
  <2>7. g \in S /\ \A m \in S : m <= g
    BY <2>5, <2>6, MaxOfBounded
  <2> QED BY <1>3, <2>1, <2>2, <2>4, <2>6, <2>7
<1>5. PICK p : p = (CHOOSE q \in tops : TRUE)
  OBVIOUS
<1>6. p \in Player /\ c[p] = most
  <2>1. p \in tops
    BY <1>4, <1>5
  <2> QED BY <2>1, <1>3
<1>7. PICK second : second = Max({0} \cup {c[q] : q \in Player \ {p}})
  OBVIOUS
<1>8. second \in Nat /\ second <= most
  <2>1. PICK S : S = {0} \cup {c[q] : q \in Player \ {p}}
    OBVIOUS
  <2>2. \A m \in S : m \in Nat /\ m <= most
    BY <1>2, <1>4, <2>1
  <2>3. S \subseteq Nat /\ S # {} /\ \A m \in S : m <= most
    BY <2>1, <2>2
  <2>4. Max(S) \in S
    BY <1>4, <2>3, MaxOfBounded
  <2> QED BY <1>7, <2>1, <2>2, <2>4
<1>9. PICK over : over = most - second
  OBVIOUS
<1>10. over \in Nat /\ c[p] - over \in Nat /\ c[p] \in Nat /\ x.chips[p] + over \in Nat /\ x.chips[p] \in Nat
  BY <1>2, <1>6, <1>8, <1>9
<1>11. PICK co, ch : co = [c EXCEPT ![p] = c[p] - over] /\ ch = [x.chips EXCEPT ![p] = x.chips[p] + over]
  OBVIOUS
<1>12. y = x \/ y = [x EXCEPT !.contributed = co, !.chips = ch, !.pool = x.pool - over]
  BY <1>1, <1>3, <1>5, <1>7, <1>9, <1>11 DEF RefundUncalled
<1>13. CASE y = x
  <2>1. Refunded(x, x)
    BY DEF Refunded, PokerState
  <2> QED BY <1>1, <1>13, <2>1
<1>14. CASE y = [x EXCEPT !.contributed = co, !.chips = ch, !.pool = x.pool - over]
  <2>1. co \in Purse /\ SumFunctionOnSet(co, Player) = SumFunctionOnSet(c, Player) + ((c[p] - over) - c[p])
    BY <1>2, <1>6, <1>10, <1>11, PurseChange
  <2>2. ch \in Purse
        /\ SumFunctionOnSet(ch, Player) = SumFunctionOnSet(x.chips, Player) + ((x.chips[p] + over) - x.chips[p])
    BY <1>2, <1>6, <1>10, <1>11, PurseChange
  <2>3. SumFunctionOnSet(c, Player) \in Int /\ SumFunctionOnSet(x.chips, Player) \in Int
        /\ SumFunctionOnSet(co, Player) \in Int
    BY <1>2, <2>1, PurseInts
  <2>4. over <= x.pool
    <3>1. PICK z : z = [q \in Player |-> IF q \in {p} THEN c[p] ELSE 0]
      OBVIOUS
    <3>2. IntsOn(z, Player) /\ \A q \in Player : z[q] <= c[q]
      BY <1>2, <3>1 DEF IntsOn
    <3>3. {p} \in SUBSET Player /\ c[p] \in Int /\ \A q \in Player : z[q] = IF q \in {p} THEN c[p] ELSE 0
      BY <1>2, <1>6, <3>1
    <3>4. SumFunctionOnSet(z, Player) = c[p] * Cardinality({p})
      BY <1>2, <3>3, SumOfEqual
    <3>5. Cardinality({p}) = 1
      BY FS_Singleton
    <3>6. SumFunctionOnSet(z, Player) = c[p]
      BY <1>10, <3>4, <3>5
    <3>7. IntsOn(c, Player)
      BY <1>2, PurseInts
    <3>8. SumFunctionOnSet(z, Player) <= SumFunctionOnSet(c, Player)
      BY <1>2, <3>2, <3>7, SumLarger
    <3>9. SumFunctionOnSet(c, Player) = x.pool
      BY <1>1 DEF PutIn
    <3> QED BY <1>2, <1>10, <3>6, <3>8, <3>9
  <2>5. PICK rest : rest = x.pool - over
    OBVIOUS
  <2>6. rest \in Nat
    BY <1>2, <1>10, <2>4, <2>5
  <2>7. y \in PokerState /\ y.contributed = co /\ y.chips = ch /\ y.pool = rest
    BY <1>14, <2>1, <2>2, <2>5, <2>6 DEF PokerState
  <2>8. Bank(y) = Bank(x) /\ PutIn(y) = y.pool
    BY <1>1, <1>2, <1>10, <2>1, <2>2, <2>3, <2>5, <2>7 DEF Bank, PutIn
  <2>9. \A a \in Player \ {p} : y.contributed[a] = c[a]
    BY <1>2, <1>11, <2>7 DEF Purse
  <2>10. y = [x EXCEPT !.contributed = y.contributed, !.chips = y.chips, !.pool = y.pool]
    BY <1>14, <2>5, <2>7
  <2>11. \A q \in Player : y.chips[q] + y.contributed[q] = x.chips[q] + c[q]
    <3> SUFFICES ASSUME NEW q \in Player PROVE ch[q] + co[q] = x.chips[q] + c[q]
      BY <2>7
    <3>1. c \in [Player -> Nat] /\ x.chips \in [Player -> Nat]
      BY <1>2 DEF Purse
    <3>2. CASE q = p
      <4>1. co[q] = c[p] - over /\ ch[q] = x.chips[p] + over
        BY <1>11, <3>1, <3>2
      <4> QED BY <1>2, <1>10, <3>2, <4>1
    <3>3. CASE q # p
      BY <1>11, <3>1, <3>3
    <3> QED BY <3>2, <3>3
  <2> QED BY <1>1, <2>7, <2>8, <2>9, <2>10, <2>11 DEF Refunded
<1> QED BY <1>12, <1>13, <1>14

\* The last one standing and whoever is refunded get the whole pool (AwardUncontested).
LEMMA AwardUncontestedSettles ==
  ASSUME NEW x \in PokerState, PutIn(x) = x.pool, NEW w \in Player
  PROVE  Settled(x, AwardUncontested(x, w))
<1>1. PICK c, y : c = x.contributed /\ y = AwardUncontested(x, w)
  OBVIOUS
<1>2. c \in Purse /\ x.chips \in Purse /\ x.pool \in Nat
      /\ (\A p \in Player : c[p] \in Nat /\ x.chips[p] \in Nat)
      /\ IsFiniteSet(Player)
  BY <1>1, PokerAssumption DEF PokerState, Purse
<1>3. PICK u : u = [p \in Player |-> IF p # w /\ c[p] > c[w] THEN c[p] - c[w] ELSE 0]
  OBVIOUS
<1>4. \A p \in Player : u[p] \in Nat /\ u[p] <= c[p]
  BY <1>2, <1>3
<1>5. u \in Purse
  BY <1>3, <1>4 DEF Purse
<1>6. IntsOn(u, Player) /\ IntsOn(c, Player) /\ IntsOn(x.chips, Player)
  BY <1>2, <1>5, PurseInts
<1>7. PICK back : back = SumFunctionOnSet(u, Player)
  OBVIOUS
<1>8. back \in Nat /\ back <= x.pool
  <2>1. back <= SumFunctionOnSet(c, Player)
    BY <1>2, <1>4, <1>6, <1>7, SumLarger
  <2>2. SumFunctionOnSet(c, Player) = x.pool
    BY <1>1 DEF PutIn
  <2>3. PICK z : z = [p \in Player |-> 0]
    OBVIOUS
  <2>4. IntsOn(z, Player) /\ \A p \in Player : z[p] <= u[p]
    BY <1>4, <2>3 DEF IntsOn
  <2>5. SumFunctionOnSet(z, Player) = 0
    BY <1>2, <2>3, SumOfNothing
  <2>6. 0 <= back
    BY <1>2, <1>6, <1>7, <2>4, <2>5, SumLarger
  <2>7. back \in Int
    BY <1>2, <1>6, <1>7, SumType
  <2> QED BY <1>2, <2>1, <2>2, <2>6, <2>7
<1>9. PICK won : won = [p \in Player |-> IF p \in {w} THEN x.pool - back ELSE 0]
  OBVIOUS
<1>10. \A p \in Player : won[p] \in Nat
  BY <1>2, <1>8, <1>9
<1>11. won \in Purse /\ SumFunctionOnSet(won, Player) = x.pool - back
  <2>1. won \in Purse
    BY <1>9, <1>10 DEF Purse
  <2>2. {w} \in SUBSET Player /\ x.pool - back \in Int
        /\ \A q \in Player : won[q] = IF q \in {w} THEN x.pool - back ELSE 0
    BY <1>2, <1>8, <1>9
  <2>3. SumFunctionOnSet(won, Player) = (x.pool - back) * Cardinality({w})
    BY <1>2, <2>2, SumOfEqual
  <2>4. Cardinality({w}) = 1
    BY FS_Singleton
  <2> QED BY <2>1, <2>2, <2>3, <2>4
<1>12. PICK half, ch : /\ half = [p \in Player |-> x.chips[p] + u[p]]
                       /\ ch = [p \in Player |-> half[p] + won[p]]
  OBVIOUS
<1>13. (\A p \in Player : half[p] = x.chips[p] + u[p]) /\ (\A p \in Player : ch[p] = half[p] + won[p])
  BY <1>12
<1>14. (\A p \in Player : half[p] \in Nat) /\ (\A p \in Player : ch[p] \in Nat)
  BY <1>2, <1>4, <1>10, <1>13
<1>15. half \in Purse /\ ch \in Purse
  BY <1>12, <1>14 DEF Purse
<1>16. IntsOn(half, Player) /\ IntsOn(won, Player)
  BY <1>11, <1>15, PurseInts
<1>17. SumFunctionOnSet(half, Player) = SumFunctionOnSet(x.chips, Player) + SumFunctionOnSet(u, Player)
  BY <1>2, <1>6, <1>13, SumPlus
<1>18. SumFunctionOnSet(ch, Player) = SumFunctionOnSet(half, Player) + SumFunctionOnSet(won, Player)
  BY <1>2, <1>13, <1>16, SumPlus
<1>19. SumFunctionOnSet(x.chips, Player) \in Int
  BY <1>2, PurseInts
<1>20. SumFunctionOnSet(ch, Player) = SumFunctionOnSet(x.chips, Player) + x.pool
  BY <1>2, <1>7, <1>8, <1>11, <1>17, <1>18, <1>19
<1>21. y = [x EXCEPT !.chips = ch, !.pool = 0]
  <2>1. SumFunction(u) = back
    BY <1>3, <1>7 DEF SumFunction
  <2>2. \A p \in Player : ch[p] = x.chips[p] + u[p] + IF p = w THEN x.pool - back ELSE 0
    BY <1>9, <1>13
  <2>3. ch = [p \in Player |-> x.chips[p] + u[p] + IF p = w THEN x.pool - back ELSE 0]
    BY <1>12, <2>2
  <2> QED BY <1>1, <1>3, <2>1, <2>3 DEF AwardUncontested
<1>22. y \in PokerState /\ y.chips = ch /\ y.pool = 0
  BY <1>15, <1>21 DEF PokerState
<1>23. Bank(y) = Bank(x)
  BY <1>2, <1>19, <1>20, <1>22 DEF Bank
<1> QED BY <1>1, <1>21, <1>22, <1>23 DEF Settled

-----------------------------------------------------------------------------
(* Seats *)

LEMMA TwoOrFew ==
  ASSUME NEW S, IsFiniteSet(S)
  PROVE  /\ Two(S) => Cardinality(S) >= 2 /\ Cardinality(S) \in Nat
         /\ ~Two(S) => Cardinality(S) <= 1 /\ Cardinality(S) \in Nat
         /\ ~Two(S) /\ S # {} => Cardinality(S) = 1
         /\ S = {} => Cardinality(S) = 0
<1>1. Cardinality(S) \in Nat /\ (Cardinality(S) = 0 <=> S = {})
  BY FS_CardinalityType, FS_EmptySet
<1>2. ASSUME NEW a \in S PROVE Cardinality(S \ {a}) = Cardinality(S) - 1 /\ IsFiniteSet(S \ {a})
  BY FS_RemoveElement
<1>3. ASSUME NEW a \in S, NEW b \in S, a # b PROVE Cardinality(S) >= 2
  <2>1. Cardinality(S \ {a}) = Cardinality(S) - 1 /\ IsFiniteSet(S \ {a})
    BY <1>2
  <2>2. Cardinality(S \ {a}) \in Nat /\ Cardinality(S \ {a}) # 0
    BY <1>3, <2>1, FS_CardinalityType, FS_EmptySet
  <2> QED BY <1>1, <2>1, <2>2
<1>4. ASSUME NEW a \in S, \A b \in S : b = a PROVE Cardinality(S) = 1
  <2>1. S = {a}
    BY <1>4
  <2> QED BY <2>1, FS_Singleton
<1>5. Two(S) => Cardinality(S) >= 2
  BY <1>3 DEF Two
<1>6. ~Two(S) /\ S # {} => Cardinality(S) = 1
  BY <1>4 DEF Two
<1> QED BY <1>1, <1>5, <1>6

-----------------------------------------------------------------------------
(* Seats in a circle *)

LEMMA ModWraps ==
  ASSUME NEW n \in Nat \ {0}, NEW c \in 0..(2 * n - 1)
  PROVE  c % n = IF c < n THEN c ELSE c - n
<1>1. CASE c < n
  BY <1>1
<1>2. CASE ~(c < n)
  <2>1. PICK d \in 0..(n - 1) : d = c - n
    BY <1>2
  <2>2. PICK q, r : q = c \div n /\ r = c % n
    OBVIOUS
  <2>6. c \in Nat
    OBVIOUS
  <2>7. c \div n \in Nat /\ (c % n) \in 0..(n - 1) /\ (c \div n) * n + (c % n) = c
    BY <2>6, DivideOut
  <2>3. q \in Nat /\ r \in 0..(n - 1) /\ q * n + r = c
    BY <2>2, <2>7
  <2>4. q = 1
    <3>1. q # 0
      BY <1>2, <2>3
    <3>2. ASSUME q >= 2 PROVE FALSE
      <4>1. PICK e \in Nat : q = e + 2
        <5>1. q - 2 \in Nat /\ q = (q - 2) + 2
          BY <2>3, <3>2
        <5> QED BY <5>1
      <4>2. q * n = e * n + 2 * n /\ e * n \in Nat
        BY <4>1
      <4> QED BY <2>3, <4>2
    <3> QED BY <2>3, <3>1, <3>2
  <2> QED BY <1>2, <2>2, <2>3, <2>4
<1> QED BY <1>1, <1>2

\* The nearest seat clockwise that qualifies, if any does.
Nearest(seats, from, able, s) ==
  /\ s \in 0..(Len(seats) - 1) /\ Who(seats, s) \in able
  /\ \A j \in 0..(Len(seats) - 1) :
       Who(seats, j) \in able => Ahead(from, s, Len(seats)) <= Ahead(from, j, Len(seats))

\* NextSeat finds the nearest seat that qualifies, or none does.
LEMMA NextSeatIs ==
  ASSUME NEW seats \in Seq(Player), NEW from \in 0..(Len(seats) - 1), NEW able
  PROVE  \/ /\ NextSeat(seats, from, able) = None
            /\ \A j \in 0..(Len(seats) - 1) : Who(seats, j) \notin able
         \/ Nearest(seats, from, able, NextSeat(seats, from, able))
<1>1. PICK n \in Nat \ {0} : n = Len(seats)
  OBVIOUS
<1>2. PICK steps : steps = {k \in 1..n : Who(seats, (from + k) % n) \in able}
  OBVIOUS
<1>3. PICK s : s = NextSeat(seats, from, able)
  OBVIOUS
<1>4. s = IF steps = {} THEN None ELSE (from + Min(steps)) % n
  BY <1>1, <1>2, <1>3 DEF NextSeat
<1>5. from \in 0..(n - 1)
  BY <1>1
<1>6. ASSUME NEW j \in 0..(n - 1)
      PROVE  Ahead(from, j, n) \in 1..n /\ ((from + Ahead(from, j, n)) % n) = j
  <2>1. PICK k : k = Ahead(from, j, n)
    OBVIOUS
  <2>2. k \in 1..n /\ from + k \in 0..(2 * n - 1) /\ j = IF from + k < n THEN from + k ELSE from + k - n
    BY <1>5, <2>1 DEF Ahead
  <2>3. PICK c \in 0..(2 * n - 1) : c = from + k
    BY <2>2
  <2>4. c % n = IF c < n THEN c ELSE c - n
    BY ModWraps
  <2>5. c % n = j
    BY <2>2, <2>3, <2>4
  <2>6. ((from + k) % n) = j
    BY <2>3, <2>5
  <2>7. k \in 1..n /\ k = Ahead(from, j, n)
    BY <2>1, <2>2
  <2> QED BY <2>6, <2>7
<1>7. ASSUME NEW k \in 1..n
      PROVE  ((from + k) % n) \in 0..(n - 1) /\ Ahead(from, (from + k) % n, n) = k
  <2>1. PICK c \in 0..(2 * n - 1) : c = from + k
    BY <1>5
  <2>2. c % n = IF c < n THEN c ELSE c - n
    BY ModWraps
  <2>3. PICK j : j = c % n
    OBVIOUS
  <2>4. j \in 0..(n - 1) /\ Ahead(from, j, n) = k
    BY <1>5, <2>1, <2>2, <2>3 DEF Ahead
  <2> QED BY <2>1, <2>3, <2>4
<1>8. CASE steps = {}
  <2>1. \A j \in 0..(n - 1) : Who(seats, j) \notin able
    BY <1>2, <1>6, <1>8
  <2> QED BY <1>1, <1>3, <1>4, <1>8, <2>1
<1>9. CASE steps # {}
  <2>1. \A k \in steps : k \in Nat
    BY <1>2
  <2>2. PICK k \in steps : \A m \in steps : k <= m
    <3>1. steps \subseteq Nat
      BY <2>1
    <3> QED BY <1>9, <3>1, NatHasLeast
  <2>3. Min(steps) = k
    <3>1. \A w \in steps : (\A y \in steps : w <= y) => w = k
      BY <2>1, <2>2
    <3> QED BY <2>2, <3>1 DEF Min
  <2>4. k \in 1..n /\ s = ((from + k) % n)
    BY <1>2, <1>4, <1>9, <2>3
  <2>5. s \in 0..(n - 1) /\ Ahead(from, s, n) = k
    BY <1>7, <2>4
  <2>6. Who(seats, s) \in able
    BY <1>2, <2>2, <2>4
  <2>7. ASSUME NEW j \in 0..(n - 1), Who(seats, j) \in able PROVE k <= Ahead(from, j, n)
    <3>1. Ahead(from, j, n) \in steps
      BY <1>2, <1>6, <2>7
    <3> QED BY <2>2, <3>1
  <2> QED BY <1>1, <1>3, <2>5, <2>6, <2>7 DEF Nearest
<1> QED BY <1>8, <1>9

LEMMA SeatsAre ==
  ASSUME NEW seats \in Seq(Player)
  PROVE  /\ \A i \in 0..(Len(seats) - 1) : Who(seats, i) \in ToSet(seats) /\ Who(seats, i) \in Player
         /\ \A p \in ToSet(seats) : \E i \in 0..(Len(seats) - 1) : Who(seats, i) = p
         /\ ToSet(seats) \subseteq Player
         /\ IsFiniteSet(ToSet(seats))
<1>1. PICK n \in Nat : n = Len(seats)
  OBVIOUS
<1>2. DOMAIN seats = 1..n /\ \A i \in 1..n : seats[i] \in Player
  BY <1>1
<1>3. \A p : p \in ToSet(seats) <=> \E i \in 1..n : p = seats[i]
  BY <1>2 DEF ToSet
<1>4. \A i \in 0..(n - 1) : i + 1 \in 1..n
  OBVIOUS
<1>5. \A i \in 1..n : i - 1 \in 0..(n - 1) /\ (i - 1) + 1 = i
  OBVIOUS
<1>6. \A i \in 0..(n - 1) : Who(seats, i) \in ToSet(seats) /\ Who(seats, i) \in Player
  BY <1>2, <1>3, <1>4 DEF Who
<1>7. ASSUME NEW p \in ToSet(seats) PROVE \E i \in 0..(n - 1) : Who(seats, i) = p
  <2>1. PICK k \in 1..n : p = seats[k]
    BY <1>3
  <2>2. Who(seats, k - 1) = p /\ k - 1 \in 0..(n - 1)
    BY <1>5, <2>1 DEF Who
  <2> QED BY <2>2
<1>8. ToSet(seats) \subseteq Player
  BY <1>2, <1>3
<1>9. IsFiniteSet(ToSet(seats))
  BY <1>8, PokerAssumption, FS_Subset
<1> QED BY <1>1, <1>6, <1>7, <1>8, <1>9

\* With those who owe ahead of those who do not, the next of them to the left keeps it so.
LEMMA NextKeepsRun ==
  ASSUME NEW x, NEW seats \in Seq(Player), NEW t \in 0..(Len(seats) - 1), RunAfter(x, seats, t),
         NEW s, Nearest(seats, t, ToAct(x, seats), s)
  PROVE  GoodTurn(x, seats, s)
<1>1. PICK n \in Nat \ {0} : n = Len(seats)
  OBVIOUS
<1>2. t \in 0..(n - 1) /\ s \in 0..(n - 1) /\ Who(seats, s) \in ToAct(x, seats)
  BY <1>1 DEF Nearest
<1>3. ASSUME NEW i \in 0..(n - 1), NEW j \in 0..(n - 1), Off(s, i, n) < Off(s, j, n),
             Who(seats, j) \in ToAct(x, seats), Who(seats, i) \in CanBet(x, seats)
      PROVE  Who(seats, i) \in ToAct(x, seats)
  <2>1. Ahead(t, s, n) <= Ahead(t, j, n)
    BY <1>1, <1>3 DEF Nearest
  <2>2. Ahead(t, i, n) < Ahead(t, j, n)
    BY <1>2, <1>3, <2>1 DEF Ahead, Off
  <2> QED BY <1>1, <1>3, <2>2 DEF RunAfter
<1> QED BY <1>1, <1>2, <1>3 DEF GoodTurn, Run

\* Whoever cannot act does not matter for the order of the others.
LEMMA RunPastIdle ==
  ASSUME NEW x, NEW seats \in Seq(Player), NEW t \in 0..(Len(seats) - 1), Run(x, seats, t),
         Who(seats, t) \notin CanBet(x, seats)
  PROVE  RunAfter(x, seats, t)
<1>1. PICK n \in Nat \ {0} : n = Len(seats)
  OBVIOUS
<1>2. t \in 0..(n - 1) /\ ToAct(x, seats) \subseteq CanBet(x, seats)
  BY <1>1 DEF ToAct, CanBet
<1>3. ASSUME NEW i \in 0..(n - 1), NEW j \in 0..(n - 1), Ahead(t, i, n) < Ahead(t, j, n),
             Who(seats, j) \in ToAct(x, seats), Who(seats, i) \in CanBet(x, seats)
      PROVE  Who(seats, i) \in ToAct(x, seats)
  <2>1. i # t /\ j # t
    BY <1>2, <1>3
  <2>2. Off(t, i, n) < Off(t, j, n)
    BY <1>2, <1>3, <2>1 DEF Ahead, Off
  <2> QED BY <1>1, <1>3, <2>2 DEF Run
<1> QED BY <1>1, <1>3 DEF RunAfter

-----------------------------------------------------------------------------
(* The end of a hand *)

\* What a hook leaves behind: a hand that is over, or one that goes on with somebody on turn.
Ends(o, seats, total) ==
  HandOver(o.x, seats, total) /\ (~o.x.matchComplete => o.over \in 0..(Len(seats) - 1))

Goes(o, seats, left, total) ==
  MidHand(o.x, seats, left, total) /\ GoodTurn(o.x, seats, o.over)

LEMMA ContendersFinite ==
  ASSUME NEW x \in PokerState, NEW seats \in Seq(Player), NEW left
  PROVE  Contenders(x, seats, left) \in SUBSET Player /\ IsFiniteSet(Contenders(x, seats, left))
<1>1. ToSet(seats) \subseteq Player
  BY SeatsAre
<1>2. Contenders(x, seats, left) \in SUBSET Player
  BY <1>1 DEF Contenders, PokerState
<1> QED BY <1>2, PokerAssumption, FS_Subset

LEMMA FundedSeatInRange ==
  ASSUME NEW x, NEW seats \in Seq(Player), NEW from \in 0..(Len(seats) - 1)
  PROVE  NextFundedSeat(x, seats, from) \in 0..(Len(seats) - 1)
<1>1. PICK s : s = NextSeat(seats, from, Funded(x, seats))
  OBVIOUS
<1>2. s = None \/ s \in 0..(Len(seats) - 1)
  BY <1>1, NextSeatIs DEF Nearest
<1> QED BY <1>1, <1>2 DEF NextFundedSeat

\* A hand that is finished is over (FinishHand).
LEMMA FinishHandEnds ==
  ASSUME NEW x \in PokerState, NEW seats \in Seq(Player), x.dealer \in 0..(Len(seats) - 1),
         NEW total, Bank(x) = total, x.pool = 0, NEW o \in FinishHand(x, seats)
  PROVE  Ends(o, seats, total)
<1>1. PICK over \in BOOLEAN :
        over <=> (x.handNumber >= HandsTotal \/ Cardinality(Funded(x, seats)) <= 1)
  OBVIOUS
<1>2. PICK b : b = [p \in Player |-> IF p \in ToSet(seats) /\ x.chips[p] = 0 /\ x.bustedAt[p] = 0
                                     THEN x.handNumber ELSE x.bustedAt[p]]
  OBVIOUS
<1>3. b \in Purse
  <2>1. x.handNumber \in Nat /\ \A p \in Player : x.bustedAt[p] \in Nat
    BY DEF PokerState, Purse
  <2> QED BY <1>2, <2>1 DEF Purse
<1>4. PICK m \in BOOLEAN : m <=> (x.matchComplete \/ over)
  OBVIOUS
<1>5. PICK y : y = [x EXCEPT !.bustedAt = b, !.handComplete = TRUE, !.street = "Showdown",
                           !.matchComplete = m]
  OBVIOUS
<1>6. m = (x.matchComplete \/ (x.handNumber >= HandsTotal \/ Cardinality(Funded(x, seats)) <= 1))
  BY <1>1, <1>4
<1>7. RecordBustouts(x, seats) = [x EXCEPT !.bustedAt = b]
  BY <1>2 DEF RecordBustouts
<1>8. PICK z : z = RecordBustouts(x, seats)
  OBVIOUS
<1>9. z.matchComplete = x.matchComplete
  BY <1>7, <1>8 DEF PokerState
<1>10. [z EXCEPT !.handComplete = TRUE, !.street = "Showdown",
                 !.matchComplete = @ \/ (x.handNumber >= HandsTotal \/ Cardinality(Funded(x, seats)) <= 1)] = y
  BY <1>5, <1>6, <1>7, <1>8, <1>9 DEF PokerState
<1>11. o.x = y /\ (~over => o.over = NextFundedSeat(x, seats, x.dealer))
  BY <1>1, <1>8, <1>10 DEF FinishHand, To
<1>12. /\ y \in PokerState /\ y.chips = x.chips /\ y.pool = 0 /\ y.handComplete = TRUE /\ y.dealer = x.dealer
       /\ y.matchComplete = m
  BY <1>3, <1>5 DEF PokerState
<1>13. Bank(y) = total
  BY <1>12 DEF Bank
<1>14. ~m => ~over
  BY <1>4
<1>15. ~over => Two(Funded(y, seats))
  <2>1. PICK F : F = Funded(x, seats)
    OBVIOUS
  <2>2. Funded(y, seats) = F /\ F \subseteq ToSet(seats)
    BY <1>12, <2>1 DEF Funded
  <2>3. IsFiniteSet(F)
    BY <2>2, SeatsAre, FS_Subset
  <2> QED BY <1>1, <2>1, <2>2, <2>3, TwoOrFew
<1> QED BY <1>11, <1>12, <1>13, <1>14, <1>15, FundedSeatInRange DEF Ends, HandOver

LEMMA StrengthsTyped ==
  ASSUME NEW x, NEW s \in Strengths(x)
  PROVE  s \in Purse
<1> DEFINE H == IF x.boardOut THEN (ToSet(players) \cup ToSet(leftPlayers)) \ x.folded ELSE {}
           Rankings == {f \in [H -> 0..(Cardinality(H) - 1)] : Range(f) = 0..(Cardinality(Range(f)) - 1)}
<1>4. s \in {[p \in Player |-> IF p \in H THEN f[p] ELSE 0] : f \in Rankings}
  BY Zenon DEF Strengths
<1> HIDE DEF H
<1>5. PICK f \in Rankings : s = [p \in Player |-> IF p \in H THEN f[p] ELSE 0]
  BY <1>4
<1>1. f \in [H -> 0..(Cardinality(H) - 1)] /\ s = [p \in Player |-> IF p \in H THEN f[p] ELSE 0]
  BY <1>5
<1>2. \A p \in Player : s[p] \in Nat
  BY <1>1
<1> QED BY <1>1, <1>2 DEF Purse

\* A hand all but one folded ends with its chips paid out (FoldedOut).
LEMMA FoldedOutEnds ==
  ASSUME NEW x \in PokerState, NEW seats \in Seq(Player), x.dealer \in 0..(Len(seats) - 1),
         NEW total, Bank(x) = total, PutIn(x) = x.pool, NEW w \in Player, NEW o \in FoldedOut(x, seats, w)
  PROVE  Ends(o, seats, total)
<1>1. PICK y : y = AwardUncontested(x, w)
  OBVIOUS
<1>2. Settled(x, y)
  BY <1>1, AwardUncontestedSettles
<1>3. PICK s \in Strengths(x) : o \in FinishHand([y EXCEPT !.strength = s], seats)
  BY <1>1 DEF FoldedOut
<1>4. PICK z : z = [y EXCEPT !.strength = s]
  OBVIOUS
<1>5. s \in Purse
  BY StrengthsTyped
<1>6. y \in PokerState /\ y.pool = 0 /\ y.dealer = x.dealer /\ Bank(y) = total
  BY <1>2 DEF Settled, PokerState
<1>7. z \in PokerState /\ z.pool = 0 /\ z.dealer = x.dealer /\ z.chips = y.chips
  BY <1>4, <1>5, <1>6 DEF PokerState
<1>8. Bank(z) = total
  BY <1>6, <1>7 DEF Bank
<1>9. o \in FinishHand(z, seats)
  BY <1>3, <1>4
<1> QED BY <1>7, <1>8, <1>9, FinishHandEnds

\* So does a hand that is shown down by two who both paid into it (ShownDown).
LEMMA ShownDownEnds ==
  ASSUME NEW x \in PokerState, NEW seats \in Seq(Player), NEW left, x.dealer \in 0..(Len(seats) - 1),
         NEW total, Bank(x) = total, PutIn(x) = x.pool,
         Two(Contenders(x, seats, left)), \A p \in Contenders(x, seats, left) : x.contributed[p] > 0,
         NEW o \in ShownDown(x, seats, left)
  PROVE  Ends(o, seats, total)
<1>1. PICK live, y : live = Contenders(x, seats, left) /\ y = RefundUncalled(x)
  OBVIOUS
<1>2. live \in SUBSET Player /\ Player # {} /\ Two(live)
  BY <1>1, ContendersFinite DEF Two
<1>3. Refunded(x, y)
  BY <1>1, <1>2, RefundUncalledRefunds
<1>4. PICK s \in Strengths(x) : o \in FinishHand(AwardPots([y EXCEPT !.strength = s, !.shown = TRUE], live), seats)
  BY <1>1 DEF ShownDown
<1>5. PICK z : z = [y EXCEPT !.strength = s, !.shown = TRUE]
  OBVIOUS
<1>6. s \in Purse
  BY StrengthsTyped
<1>7. y \in PokerState /\ y.dealer = x.dealer /\ Bank(y) = total /\ PutIn(y) = y.pool
  BY <1>3 DEF Refunded, PokerState
<1>8. z \in PokerState /\ z.pool = y.pool /\ z.dealer = x.dealer
      /\ z.chips = y.chips /\ z.contributed = y.contributed
  BY <1>5, <1>6, <1>7 DEF PokerState
<1>9. Bank(z) = total /\ PutIn(z) = z.pool
  BY <1>7, <1>8 DEF Bank, PutIn
<1>10. \E q \in live : z.contributed[q] > 0
  <2>1. PICK a \in live, b \in live : a # b
    BY <1>2 DEF Two
  <2>2. x.contributed[a] > 0 /\ x.contributed[b] > 0 /\ a \in Player /\ b \in Player
    BY <1>1, <1>2, <2>1
  <2>3. y.contributed[a] > 0 \/ y.contributed[b] > 0
    BY <1>3, <2>1, <2>2 DEF Refunded
  <2> QED BY <1>8, <2>1, <2>3
<1>11. PICK v : v = AwardPots(z, live)
  OBVIOUS
<1>12. Settled(z, v)
  BY <1>2, <1>8, <1>9, <1>10, <1>11, AwardPotsSettles
<1>13. v \in PokerState /\ v.pool = 0 /\ v.dealer = x.dealer /\ Bank(v) = total
  BY <1>8, <1>9, <1>12 DEF Settled, PokerState
<1>14. o \in FinishHand(v, seats)
  BY <1>4, <1>5, <1>11
<1> QED BY <1>13, <1>14, FinishHandEnds

\* When nobody is left to ask, everybody who contests the pot paid into it.
LEMMA CompletePaid ==
  ASSUME NEW x, NEW seats, NEW left, NEW total, Betting(x, seats, left, total), seats \in Seq(Player),
         BettingRoundComplete(x, seats)
  PROVE  \A p \in Contenders(x, seats, left) : x.contributed[p] > 0
<1> SUFFICES ASSUME NEW p \in Contenders(x, seats, left), p \notin x.allIn, x.currentBet # 0
             PROVE  x.contributed[p] > 0
  BY DEF Betting
<1>1. p \in ToSet(seats) /\ p \notin x.folded /\ p \in Player
  BY SeatsAre DEF Contenders
<1>2. x.chips[p] # 0
  BY <1>1 DEF Betting
<1>3. ~CannotAct(x, p)
  BY <1>1, <1>2 DEF CannotAct
<1>4. ~(x.bets[p] < x.currentBet)
  BY <1>1, <1>3 DEF BettingRoundComplete, Owes
<1>5. x.bets[p] \in Nat /\ x.contributed[p] \in Nat /\ x.currentBet \in Nat /\ x.bets[p] <= x.contributed[p]
  BY <1>1 DEF Betting, PokerState, Purse
<1> QED BY <1>4, <1>5

-----------------------------------------------------------------------------
(* What follows a bet *)

LEMMA StreetsFollow ==
  ASSUME NEW street \in BettingStreets \ {"River"}
  PROVE  StreetAfter(street) \in BettingStreets
<1>1. \E i \in 1..3 : Streets[i] = street
  <2>1. Streets[1] = "PreFlop" /\ Streets[2] = "Flop" /\ Streets[3] = "Turn"
    BY DEF Streets
  <2>2. 1 \in 1..3 /\ 2 \in 1..3 /\ 3 \in 1..3
    OBVIOUS
  <2>3. street = "PreFlop" \/ street = "Flop" \/ street = "Turn"
    BY DEF BettingStreets
  <2> QED BY <2>1, <2>2, <2>3
<1>2. PICK i : i = CHOOSE k \in 1..3 : Streets[k] = street
  OBVIOUS
<1>3. i \in 1..3
  BY <1>1, <1>2
<1>4. StreetAfter(street) = Streets[1 + i]
  BY <1>2 DEF StreetAfter
<1>5. 1 + i = 2 \/ 1 + i = 3 \/ 1 + i = 4
  BY <1>3
<1>6. Streets[2] = "Flop" /\ Streets[3] = "Turn" /\ Streets[4] = "River"
  BY DEF Streets
<1> QED BY <1>4, <1>5, <1>6 DEF BettingStreets

\* Whoever may act on a new street owes an action.
AllOwe(x, seats) == \A p \in ToSet(seats) : ~CannotAct(x, p) => Owes(x, p)

\* Then the order of the turns is right from any seat.
LEMMA AllOweRun ==
  ASSUME NEW x, NEW seats \in Seq(Player), AllOwe(x, seats), NEW t \in 0..(Len(seats) - 1)
  PROVE  RunAfter(x, seats, t) /\ Run(x, seats, t) /\ CanBet(x, seats) = ToAct(x, seats)
<1>1. CanBet(x, seats) = ToAct(x, seats)
  BY DEF AllOwe, CanBet, ToAct
<1> QED BY <1>1 DEF RunAfter, Run

\* A street that is settled leads to the next one or to the showdown (SettleAndAdvance).
LEMMA SettledGoesOn ==
  ASSUME NEW x, NEW seats \in Seq(Player), NEW left, NEW total, NEW turn,
         Betting(x, seats, left, total), Two(Contenders(x, seats, left)),
         \A p \in Contenders(x, seats, left) : x.contributed[p] > 0,
         NEW o \in SettleAndAdvance(x, seats, left, turn)
  PROVE  Goes(o, seats, left, total) \/ Ends(o, seats, total)
<1>0. /\ x \in PokerState /\ Bank(x) = total /\ PutIn(x) = x.pool
      /\ ~x.handComplete /\ ~x.matchComplete /\ x.street \in BettingStreets
      /\ x.dealer \in 0..(Len(seats) - 1)
      /\ BigBlind \in Nat
  BY PokerAssumption DEF Betting
<1>1. PICK be, ac : /\ be = [p \in Player |-> IF p \in ToSet(seats) THEN 0 ELSE x.bets[p]]
                    /\ ac = x.acted \ ToSet(seats)
  OBVIOUS
<1>2. be \in Purse /\ ac \in SUBSET Player /\ \A p \in Player : x.bets[p] \in Nat
  <2>1. \A p \in Player : x.bets[p] \in Nat
    BY <1>0 DEF PokerState, Purse
  <2>2. \A p \in Player : be[p] \in Nat
    BY <1>1, <2>1
  <2> QED BY <1>0, <1>1, <2>1, <2>2 DEF PokerState, Purse
<1>3. PICK s : s = [x EXCEPT !.bets = be, !.acted = ac, !.currentBet = 0, !.minRaise = BigBlind,
                             !.boardOut = TRUE]
  OBVIOUS
<1>4. /\ s \in PokerState /\ s.bets = be /\ s.acted = ac /\ s.currentBet = 0
      /\ s.chips = x.chips /\ s.pool = x.pool /\ s.contributed = x.contributed /\ s.dealer = x.dealer
      /\ s.folded = x.folded /\ s.allIn = x.allIn /\ s.street = x.street
      /\ s.handComplete = x.handComplete /\ s.matchComplete = x.matchComplete
  BY <1>0, <1>2, <1>3 DEF PokerState
<1>5. PICK bettors : bettors = {p \in ToSet(seats) : ~CannotAct(x, p)}
  OBVIOUS
<1>6. o \in (IF x.street = "River" \/ Cardinality(bettors) < 2
             THEN ShownDown(s, seats, left)
             ELSE {To([s EXCEPT !.street = StreetAfter(@)], FirstToActPostflop(s, seats, turn))})
  BY <1>1, <1>3, <1>5 DEF SettleAndAdvance
<1>7. Contenders(s, seats, left) = Contenders(x, seats, left)
  BY <1>4 DEF Contenders
<1>8. Bank(s) = total /\ PutIn(s) = s.pool
  BY <1>0, <1>4 DEF Bank, PutIn
<1>9. CASE x.street = "River" \/ Cardinality(bettors) < 2
  <2>1. o \in ShownDown(s, seats, left)
    BY <1>6, <1>9
  <2> QED BY <1>0, <1>4, <1>7, <1>8, <2>1, ShownDownEnds
<1>10. CASE ~(x.street = "River" \/ Cardinality(bettors) < 2)
  <2>1. PICK y : y = [s EXCEPT !.street = StreetAfter(x.street)]
    OBVIOUS
  <2>2. StreetAfter(x.street) \in BettingStreets
    BY <1>0, <1>10, StreetsFollow
  <2>3. /\ y \in PokerState /\ y.bets = be /\ y.acted = ac /\ y.currentBet = 0
        /\ y.chips = x.chips /\ y.pool = x.pool /\ y.contributed = x.contributed /\ y.dealer = x.dealer
        /\ y.folded = x.folded /\ y.allIn = x.allIn /\ y.street \in BettingStreets
        /\ ~y.handComplete /\ ~y.matchComplete
    BY <1>0, <1>4, <2>1, <2>2 DEF PokerState
  <2>4. o.x = y /\ o.over = FirstToActPostflop(s, seats, turn)
    BY <1>4, <1>6, <1>10, <2>1 DEF To
  <2>5. Bank(y) = total /\ PutIn(y) = y.pool
    BY <1>0, <2>3 DEF Bank, PutIn
  <2>6. Contenders(y, seats, left) = Contenders(x, seats, left)
    BY <2>3 DEF Contenders
  <2>7. \A p \in ToSet(seats) : p \in Player /\ y.bets[p] = 0 /\ p \notin y.acted
    BY <1>1, <2>3, SeatsAre
  <2>8. \A p \in Player : y.bets[p] <= y.contributed[p]
    <3>1. \A p \in Player : x.contributed[p] \in Nat /\ x.bets[p] <= x.contributed[p]
      BY DEF Betting, PokerState, Purse
    <3> QED BY <1>1, <1>2, <2>3, <3>1
  <2>9. MidHand(y, seats, left, total)
    <3>1. \A p \in ToSet(seats) : y.chips[p] = 0 /\ p \notin y.folded => p \in y.allIn
      BY <2>3 DEF Betting
    <3>2. \A p \in y.allIn : y.contributed[p] > 0
      BY <2>3 DEF Betting
    <3>3. \A p \in ToSet(seats) : y.bets[p] <= y.currentBet
      BY <2>3, <2>7
    <3> QED BY <1>0, <2>3, <2>5, <2>6, <2>8, <3>1, <3>2, <3>3 DEF MidHand, Betting
  <2>10. AllOwe(y, seats)
    BY <2>7 DEF AllOwe, Owes
  <2>11. PICK t : t = o.over
    OBVIOUS
  <2>12. Nearest(seats, x.dealer, bettors, t)
    <3>1. bettors = {p \in ToSet(seats) : ~CannotAct(s, p)}
      BY <1>4, <1>5 DEF CannotAct
    <3>2. PICK u : u = NextSeat(seats, x.dealer, bettors)
      OBVIOUS
    <3>3. t = IF u = None THEN turn ELSE u
      BY <1>4, <2>4, <2>11, <3>1, <3>2 DEF FirstToActPostflop
    <3>4. bettors # {} /\ bettors \subseteq ToSet(seats)
      <4>1. bettors \subseteq ToSet(seats) /\ IsFiniteSet(bettors)
        BY <1>5, SeatsAre, FS_Subset
      <4> QED BY <1>10, <4>1, TwoOrFew
    <3>5. \E j \in 0..(Len(seats) - 1) : Who(seats, j) \in bettors
      BY <3>4, SeatsAre
    <3>6. Nearest(seats, x.dealer, bettors, u)
      BY <1>0, <3>2, <3>5, NextSeatIs
    <3>7. u # None
      BY <3>6, TableAssumption DEF Nearest
    <3> QED BY <3>3, <3>6, <3>7
  <2>13. bettors = CanBet(y, seats)
    BY <1>5, <2>3 DEF CanBet, CannotAct
  <2>14. t \in 0..(Len(seats) - 1) /\ Who(seats, t) \in CanBet(y, seats)
    BY <2>12, <2>13 DEF Nearest
  <2>15. GoodTurn(y, seats, t)
    BY <2>10, <2>14, AllOweRun DEF GoodTurn
  <2> QED BY <2>4, <2>9, <2>11, <2>15 DEF Goes
<1> QED BY <1>9, <1>10

\* y is what a bet of the player at seat t left of x.
Moved(x, y, seats, left, total, t) ==
  LET others == ToSet(seats) \ {Who(seats, t)} IN
  /\ Betting(y, seats, left, total)
  /\ Contenders(x, seats, left) \ {Who(seats, t)} \subseteq Contenders(y, seats, left)
  /\ Who(seats, t) \notin ToAct(y, seats)
  /\ \A q \in others : CannotAct(y, q) <=> CannotAct(x, q)
  /\ \/ \A q \in others : Owes(y, q) <=> Owes(x, q)
     \/ \A q \in others : ~CannotAct(y, q) => Owes(y, q)

\* After a bet, the order is right from the next seat on.
LEMMA MovedRun ==
  ASSUME NEW x, NEW y, NEW seats \in Seq(Player), IsInjective(seats), NEW left, NEW total,
         NEW t \in 0..(Len(seats) - 1), Run(x, seats, t), Moved(x, y, seats, left, total, t)
  PROVE  RunAfter(y, seats, t)
<1>1. PICK n \in Nat \ {0} : n = Len(seats)
  OBVIOUS
<1>2. t \in 0..(n - 1)
  BY <1>1
<1>3. \A i \in 0..(n - 1) : i # t => Who(seats, i) \in ToSet(seats) \ {Who(seats, t)}
  <2> SUFFICES ASSUME NEW i \in 0..(n - 1), Who(seats, i) = Who(seats, t) PROVE i = t
    BY <1>1, SeatsAre
  <2>1. DOMAIN seats = 1..n /\ i + 1 \in 1..n /\ t + 1 \in 1..n /\ seats[i + 1] = seats[t + 1]
    BY <1>1, <1>2 DEF Who
  <2>2. i + 1 = t + 1
    BY <2>1 DEF IsInjective
  <2> QED BY <1>2, <2>2
<1>4. ASSUME NEW i \in 0..(n - 1), NEW j \in 0..(n - 1), Ahead(t, i, n) < Ahead(t, j, n),
             Who(seats, j) \in ToAct(y, seats), Who(seats, i) \in CanBet(y, seats)
      PROVE  Who(seats, i) \in ToAct(y, seats)
  <2>1. j # t
    BY <1>4 DEF Moved
  <2>2. i # t /\ Off(t, i, n) < Off(t, j, n)
    BY <1>2, <1>4, <2>1 DEF Ahead, Off
  <2>3. PICK a, b : a = Who(seats, i) /\ b = Who(seats, j)
    OBVIOUS
  <2>4. a \in ToSet(seats) \ {Who(seats, t)} /\ b \in ToSet(seats) \ {Who(seats, t)}
    BY <1>3, <2>1, <2>2, <2>3
  <2>5. ~CannotAct(y, a) /\ ~CannotAct(y, b) /\ Owes(y, b)
    BY <1>4, <2>3 DEF CanBet, ToAct
  <2>6. ~CannotAct(x, a) /\ ~CannotAct(x, b)
    BY <2>4, <2>5 DEF Moved
  <2>7. CASE \A q \in ToSet(seats) \ {Who(seats, t)} : Owes(y, q) <=> Owes(x, q)
    <3>1. Owes(x, b)
      BY <2>4, <2>5, <2>7
    <3>2. b \in ToAct(x, seats) /\ a \in CanBet(x, seats)
      BY <2>4, <2>6, <3>1 DEF ToAct, CanBet
    <3>3. a \in ToAct(x, seats)
      BY <1>1, <2>2, <2>3, <3>2 DEF Run
    <3>4. Owes(y, a)
      BY <2>4, <2>7, <3>3 DEF ToAct
    <3> QED BY <2>3, <2>4, <2>5, <3>4 DEF ToAct
  <2>8. CASE \A q \in ToSet(seats) \ {Who(seats, t)} : ~CannotAct(y, q) => Owes(y, q)
    BY <2>3, <2>4, <2>5, <2>8 DEF ToAct
  <2> QED BY <2>7, <2>8 DEF Moved
<1> QED BY <1>1, <1>4 DEF RunAfter

\* What follows a bet is the next turn, the next street or the end of the hand (AfterBetting).
LEMMA MoveGoesOn ==
  ASSUME NEW x, NEW y, NEW seats \in Seq(Player), IsInjective(seats), NEW left, NEW total,
         NEW t \in 0..(Len(seats) - 1), Run(x, seats, t), Two(Contenders(x, seats, left)),
         Moved(x, y, seats, left, total, t), NEW o \in AfterBetting(y, seats, left, t)
  PROVE  Goes(o, seats, left, total) \/ Ends(o, seats, total)
<1>1. PICK live : live = Contenders(y, seats, left)
  OBVIOUS
<1>2. Betting(y, seats, left, total) /\ y \in PokerState /\ y.dealer \in 0..(Len(seats) - 1)
      /\ Bank(y) = total /\ PutIn(y) = y.pool
  BY DEF Moved, Betting
<1>3. live \in SUBSET Player /\ IsFiniteSet(live)
  BY <1>1, <1>2, ContendersFinite
<1>4. live # {}
  <2>1. PICK a \in Contenders(x, seats, left), b \in Contenders(x, seats, left) : a # b
    BY DEF Two
  <2>2. a # Who(seats, t) \/ b # Who(seats, t)
    BY <2>1
  <2> QED BY <1>1, <2>2 DEF Moved
<1>5. CASE Cardinality(live) = 1
  <2>1. PICK w : w = CHOOSE p \in live : TRUE
    OBVIOUS
  <2>2. w \in live
    BY <1>4, <2>1
  <2>3. w \in Player
    BY <1>3, <2>2
  <2>4. o \in FoldedOut(y, seats, w)
    BY <1>1, <1>5, <2>1 DEF AfterBetting
  <2> QED BY <1>2, <2>3, <2>4, FoldedOutEnds
<1>6. ASSUME Cardinality(live) # 1 PROVE Two(live)
  BY <1>3, <1>4, <1>6, TwoOrFew
<1>7. CASE Cardinality(live) # 1 /\ BettingRoundComplete(y, seats)
  <2>1. \A p \in Contenders(y, seats, left) : y.contributed[p] > 0
    BY <1>2, <1>7, CompletePaid
  <2>2. o \in SettleAndAdvance(y, seats, left, t)
    BY <1>1, <1>7 DEF AfterBetting
  <2> QED BY <1>1, <1>2, <1>6, <1>7, <2>1, <2>2, SettledGoesOn
<1>8. CASE Cardinality(live) # 1 /\ ~BettingRoundComplete(y, seats)
  <2>1. o.x = y /\ o.over = NextToAct(y, seats, t)
    BY <1>1, <1>8 DEF AfterBetting, To
  <2>2. PICK s : s = o.over
    OBVIOUS
  <2>3. s = NextSeat(seats, t, ToAct(y, seats))
    BY <2>1, <2>2 DEF NextToAct, ToAct
  <2>4. \E p \in ToSet(seats) : p \in ToAct(y, seats)
    BY <1>8 DEF BettingRoundComplete, ToAct
  <2>5. \E j \in 0..(Len(seats) - 1) : Who(seats, j) \in ToAct(y, seats)
    BY <2>4, SeatsAre
  <2>6. Nearest(seats, t, ToAct(y, seats), s)
    BY <2>3, <2>5, NextSeatIs
  <2>7. RunAfter(y, seats, t)
    BY MovedRun
  <2>8. GoodTurn(y, seats, s)
    BY <2>6, <2>7, NextKeepsRun
  <2> QED BY <1>1, <1>2, <1>6, <1>8, <2>1, <2>2, <2>8 DEF Goes, MidHand
<1> QED BY <1>5, <1>7, <1>8

-----------------------------------------------------------------------------
(* Bets *)

LEMMA PayNothing ==
  ASSUME NEW x \in PokerState, NEW p \in Player, x.chips[p] # 0
  PROVE  Payed(x, p, 0) = x
<1>1. x.chips \in Purse /\ x.bets \in Purse /\ x.contributed \in Purse /\ x.pool \in Nat
      /\ x.chips[p] \in Nat /\ x.bets[p] \in Nat /\ x.contributed[p] \in Nat
  BY DEF PokerState, Purse
<1>2. /\ [x.chips EXCEPT ![p] = x.chips[p] - 0] = x.chips
      /\ [x.bets EXCEPT ![p] = x.bets[p] + 0] = x.bets
      /\ [x.contributed EXCEPT ![p] = x.contributed[p] + 0] = x.contributed
      /\ x.pool + 0 = x.pool
  BY <1>1 DEF Purse
<1>3. Payed(x, p, 0) = [x EXCEPT !.chips = x.chips, !.bets = x.bets, !.contributed = x.contributed,
                                 !.pool = x.pool, !.allIn = x.allIn]
  BY <1>2 DEF Payed
<1> QED BY <1>3 DEF PokerState

\* The fields of x once p paid into the pool.
PaidInto(x, p, pay, z) ==
  /\ z \in PokerState /\ Bank(z) = Bank(x) /\ (PutIn(x) = x.pool => PutIn(z) = z.pool)
  /\ \A q \in Player \ {p} : /\ z.chips[q] = x.chips[q] /\ z.bets[q] = x.bets[q]
                             /\ z.contributed[q] = x.contributed[q]
  /\ z.chips[p] = x.chips[p] - pay /\ z.bets[p] = x.bets[p] + pay
  /\ z.contributed[p] = x.contributed[p] + pay
  /\ z.allIn = IF x.chips[p] = pay THEN x.allIn \cup {p} ELSE x.allIn
  /\ z.currentBet = x.currentBet /\ z.minRaise = x.minRaise /\ z.folded = x.folded /\ z.acted = x.acted
  /\ z.dealer = x.dealer /\ z.street = x.street /\ z.handNumber = x.handNumber
  /\ z.handComplete = x.handComplete /\ z.matchComplete = x.matchComplete

LEMMA PayedFields ==
  ASSUME NEW x \in PokerState, NEW p \in Player, NEW pay \in 0..x.chips[p]
  PROVE  PaidInto(x, p, pay, Payed(x, p, pay))
<1>1. PICK z : z = Payed(x, p, pay)
  OBVIOUS
<1>2. z \in PokerState /\ Bank(z) = Bank(x) /\ (PutIn(x) = x.pool => PutIn(z) = z.pool)
  BY <1>1, PayKeeps
<1>3. PICK ch, be, co : /\ ch = [x.chips EXCEPT ![p] = x.chips[p] - pay]
                        /\ be = [x.bets EXCEPT ![p] = x.bets[p] + pay]
                        /\ co = [x.contributed EXCEPT ![p] = x.contributed[p] + pay]
  OBVIOUS
<1>4. z = [x EXCEPT !.chips = ch, !.bets = be, !.contributed = co, !.pool = x.pool + pay,
                    !.allIn = IF x.chips[p] = pay THEN x.allIn \cup {p} ELSE x.allIn]
  BY <1>1, <1>3 DEF Payed
<1>5. /\ z.chips = ch /\ z.bets = be /\ z.contributed = co
      /\ z.allIn = IF x.chips[p] = pay THEN x.allIn \cup {p} ELSE x.allIn
      /\ z.currentBet = x.currentBet /\ z.minRaise = x.minRaise /\ z.folded = x.folded /\ z.acted = x.acted
      /\ z.dealer = x.dealer /\ z.street = x.street /\ z.handNumber = x.handNumber
      /\ z.handComplete = x.handComplete /\ z.matchComplete = x.matchComplete
  BY <1>4 DEF PokerState
<1>6. x.chips \in [Player -> Nat] /\ x.bets \in [Player -> Nat] /\ x.contributed \in [Player -> Nat]
  BY DEF PokerState, Purse
<1>7. /\ ch[p] = x.chips[p] - pay /\ be[p] = x.bets[p] + pay /\ co[p] = x.contributed[p] + pay
      /\ \A q \in Player \ {p} : ch[q] = x.chips[q] /\ be[q] = x.bets[q] /\ co[q] = x.contributed[q]
  BY <1>3, <1>6
<1> QED BY <1>1, <1>2, <1>5, <1>7 DEF PaidInto

\* Paying for a call or a raise leaves the bets right.
LEMMA PayMoves ==
  ASSUME NEW x, NEW seats \in Seq(Player), IsInjective(seats), NEW left, NEW total,
         NEW t \in 0..(Len(seats) - 1), Betting(x, seats, left, total), GoodTurn(x, seats, t),
         NEW p, p = Who(seats, t), NEW pay \in 0..x.chips[p],
         NEW bet \in Nat, NEW raise \in Nat, NEW heard \in SUBSET Player, p \in heard,
         NEW y, y = [Payed(x, p, pay) EXCEPT !.currentBet = bet, !.minRaise = raise, !.acted = heard],
         \/ /\ bet = x.currentBet /\ heard = x.acted \cup {p} /\ x.bets[p] + pay <= bet
            /\ x.bets[p] + pay = bet \/ pay = x.chips[p]
         \/ bet = x.bets[p] + pay /\ bet > x.currentBet
  PROVE  Moved(x, y, seats, left, total, t)
<1>1. p \in ToSet(seats) /\ p \in Player /\ x \in PokerState /\ ToSet(seats) \subseteq Player
  BY SeatsAre DEF Betting
<1>2. PICK z : z = Payed(x, p, pay)
  OBVIOUS
<1>3. PaidInto(x, p, pay, z)
  BY <1>1, <1>2, PayedFields
<1>4. p \notin x.folded \cup x.allIn /\ x.chips[p] # 0
  BY DEF GoodTurn, ToAct, CannotAct
<1>5. /\ \A q \in Player : x.chips[q] \in Nat /\ x.bets[q] \in Nat /\ x.contributed[q] \in Nat
      /\ x.currentBet \in Nat /\ pay \in Nat
  BY <1>1 DEF PokerState, Purse
<1>6. /\ y \in PokerState /\ y.currentBet = bet /\ y.acted = heard
      /\ y.chips = z.chips /\ y.bets = z.bets /\ y.contributed = z.contributed /\ y.pool = z.pool
      /\ y.allIn = z.allIn /\ y.folded = z.folded /\ y.dealer = z.dealer /\ y.street = z.street
      /\ y.handComplete = z.handComplete /\ y.matchComplete = z.matchComplete
  BY <1>2, <1>3 DEF PaidInto, PokerState
<1>7. Bank(y) = Bank(z) /\ PutIn(y) = PutIn(z)
  BY <1>6 DEF Bank, PutIn
<1>8. Bank(y) = total /\ PutIn(y) = y.pool
  BY <1>3, <1>6, <1>7 DEF PaidInto, Betting
<1>9. /\ \A q \in Player \ {p} : /\ y.chips[q] = x.chips[q] /\ y.bets[q] = x.bets[q]
                                 /\ y.contributed[q] = x.contributed[q]
      /\ y.chips[p] = x.chips[p] - pay /\ y.bets[p] = x.bets[p] + pay
      /\ y.contributed[p] = x.contributed[p] + pay
      /\ y.allIn = IF x.chips[p] = pay THEN x.allIn \cup {p} ELSE x.allIn
      /\ y.folded = x.folded /\ y.dealer = x.dealer /\ y.street = x.street
      /\ y.handComplete = x.handComplete /\ y.matchComplete = x.matchComplete
  BY <1>3, <1>6 DEF PaidInto
<1>10. Contenders(y, seats, left) = Contenders(x, seats, left)
  BY <1>1, <1>9 DEF Contenders
<1>20. PICK chips, bets, paid \in Nat : chips = x.chips[p] /\ bets = x.bets[p] /\ paid = x.contributed[p]
  BY <1>1, <1>5
<1>21. /\ pay <= chips /\ chips # 0 /\ pay \in Nat
       /\ y.chips[p] = chips - pay /\ y.bets[p] = bets + pay /\ y.contributed[p] = paid + pay
  BY <1>4, <1>9, <1>20
<1>22. bets <= paid /\ bets + pay <= bet /\ (pay = chips => p \in y.allIn)
  <2>1. x.bets[p] <= x.contributed[p]
    BY <1>1 DEF Betting
  <2>2. bets + pay <= bet
    BY <1>20, <1>21
  <2> QED BY <1>9, <1>20, <2>1, <2>2
<1>11. \A q \in Player : y.contributed[q] >= x.contributed[q] /\ y.bets[q] <= y.contributed[q]
  <2> SUFFICES ASSUME NEW q \in Player
               PROVE  y.contributed[q] >= x.contributed[q] /\ y.bets[q] <= y.contributed[q]
    OBVIOUS
  <2>1. CASE q = p
    BY <1>20, <1>21, <1>22, <2>1
  <2>2. CASE q # p
    <3>1. y.contributed[q] = x.contributed[q] /\ y.bets[q] = x.bets[q] /\ x.contributed[q] \in Nat
      BY <1>5, <1>9, <2>2
    <3>2. x.bets[q] <= x.contributed[q]
      BY DEF Betting
    <3> QED BY <3>1, <3>2
  <2> QED BY <2>1, <2>2
<1>12. \A q \in ToSet(seats) : y.bets[q] <= y.currentBet
  <2> SUFFICES ASSUME NEW q \in ToSet(seats) PROVE y.bets[q] <= bet
    BY <1>6
  <2>1. CASE q = p
    BY <1>21, <1>22, <2>1
  <2>2. CASE q # p
    <3>1. y.bets[q] = x.bets[q] /\ x.bets[q] <= x.currentBet /\ x.bets[q] \in Nat
      BY <1>1, <1>5, <1>9, <2>2 DEF Betting
    <3>2. x.currentBet <= bet
      BY <1>5
    <3> QED BY <1>5, <3>1, <3>2
  <2> QED BY <2>1, <2>2
<1>13. \A q \in ToSet(seats) : y.chips[q] = 0 /\ q \notin y.folded => q \in y.allIn
  <2> SUFFICES ASSUME NEW q \in ToSet(seats), y.chips[q] = 0, q \notin y.folded PROVE q \in y.allIn
    OBVIOUS
  <2>1. CASE q = p
    BY <1>21, <1>22, <2>1
  <2>2. CASE q # p
    BY <1>1, <1>9, <2>2 DEF Betting
  <2> QED BY <2>1, <2>2
<1>14. \A q \in y.allIn : y.contributed[q] > 0
  <2>1. \A q \in x.allIn : x.contributed[q] > 0 /\ q \in Player
    BY <1>1 DEF Betting, PokerState
  <2>2. pay = x.chips[p] => y.contributed[p] > 0
    <3>1. ASSUME pay = chips PROVE paid + pay > 0
      BY <1>20, <1>21, <3>1
    <3> QED BY <1>20, <1>21, <3>1
  <2>3. ASSUME NEW q \in y.allIn PROVE y.contributed[q] > 0
    <3>1. CASE q \in x.allIn
      <4>1. q \in Player /\ x.contributed[q] > 0 /\ y.contributed[q] >= x.contributed[q]
        BY <1>11, <2>1, <3>1
      <4>2. y.contributed[q] \in Nat /\ x.contributed[q] \in Nat
        BY <1>5, <1>6, <4>1 DEF PokerState, Purse
      <4> QED BY <4>1, <4>2
    <3>2. CASE q \notin x.allIn
      <4>1. q = p /\ pay = x.chips[p]
        BY <1>9, <3>2
      <4> QED BY <2>2, <4>1
    <3> QED BY <3>1, <3>2
  <2> QED BY <2>3
<1>15. y.currentBet = 0 => \A q \in Contenders(y, seats, left) : y.contributed[q] > 0
  <2> SUFFICES ASSUME y.currentBet = 0, NEW q \in Contenders(y, seats, left) PROVE y.contributed[q] > 0
    OBVIOUS
  <2>1. x.currentBet = 0
    BY <1>5, <1>6
  <2>2. x.contributed[q] > 0 /\ q \in Player
    BY <1>1, <1>10, <2>1, ContendersFinite DEF Betting
  <2>3. y.contributed[q] >= x.contributed[q]
    BY <1>11, <2>2
  <2>4. y.contributed[q] \in Nat /\ x.contributed[q] \in Nat
    BY <1>5, <1>6, <2>2 DEF PokerState, Purse
  <2> QED BY <2>2, <2>3, <2>4
<1>16. Betting(y, seats, left, total)
  <2>1. ~y.handComplete /\ ~y.matchComplete /\ y.street \in BettingStreets /\ y.dealer \in 0..(Len(seats) - 1)
    BY <1>9 DEF Betting
  <2> QED BY <1>6, <1>8, <1>11, <1>12, <1>13, <1>14, <1>15, <2>1 DEF Betting
<1>17. p \notin ToAct(y, seats)
  <2>1. CASE y.bets[p] = y.currentBet
    <3>1. ~Owes(y, p)
      BY <1>5, <1>6, <2>1 DEF Owes
    <3> QED BY <3>1 DEF ToAct
  <2>2. CASE pay = x.chips[p]
    <3>1. p \in y.allIn
      BY <1>9, <2>2
    <3> QED BY <3>1 DEF ToAct, CannotAct
  <2> QED BY <1>6, <1>9, <2>1, <2>2
<1>18. \A q \in ToSet(seats) \ {p} : CannotAct(y, q) <=> CannotAct(x, q)
  BY <1>1, <1>9 DEF CannotAct
<1>19. \/ \A q \in ToSet(seats) \ {p} : Owes(y, q) <=> Owes(x, q)
       \/ \A q \in ToSet(seats) \ {p} : ~CannotAct(y, q) => Owes(y, q)
  <2>1. CASE bet = x.currentBet /\ heard = x.acted \cup {p}
    BY <1>1, <1>6, <1>9, <2>1 DEF Owes
  <2>2. CASE bet > x.currentBet
    <3>1. ASSUME NEW q \in ToSet(seats) \ {p} PROVE Owes(y, q)
      <4>1. y.bets[q] <= x.currentBet /\ y.bets[q] \in Nat
        BY <1>1, <1>5, <1>9 DEF Betting
      <4> QED BY <1>5, <1>6, <2>2, <4>1 DEF Owes
    <3> QED BY <3>1
  <2> QED BY <2>1, <2>2
<1> QED BY <1>10, <1>16, <1>17, <1>18, <1>19 DEF Moved

\* p is on turn in the middle of a hand.
OnTheMove(x, seats, left, total, t, p) ==
  /\ seats \in Seq(Player) /\ IsInjective(seats)
  /\ t \in 0..(Len(seats) - 1) /\ p = Who(seats, t)
  /\ MidHand(x, seats, left, total) /\ GoodTurn(x, seats, t)

\* Whoever is on turn has chips and can bet.
LEMMA MoverIs ==
  ASSUME NEW x, NEW seats, NEW left, NEW total, NEW t, NEW p, OnTheMove(x, seats, left, total, t, p)
  PROVE  /\ x \in PokerState /\ p \in Player /\ p \in ToSet(seats)
         /\ p \notin x.folded \cup x.allIn
         /\ x.chips[p] \in Nat \ {0} /\ x.bets[p] \in Nat /\ x.currentBet \in Nat /\ x.bets[p] <= x.currentBet
<1>1. x \in PokerState /\ p \in Player /\ p \in ToSet(seats)
  BY SeatsAre DEF OnTheMove, MidHand, Betting
<1>2. p \notin x.folded \cup x.allIn /\ x.chips[p] # 0
  BY DEF OnTheMove, GoodTurn, ToAct, CannotAct
<1>3. x.bets[p] <= x.currentBet
  BY <1>1 DEF OnTheMove, MidHand, Betting
<1> QED BY <1>1, <1>2, <1>3 DEF PokerState, Purse

\* A bet of p: what goes into the pool, the bet to match and who has acted on it.
BetIs(x, p, pay, y, bet, raise, heard) ==
  /\ y = [Payed(x, p, pay) EXCEPT !.currentBet = bet, !.minRaise = raise, !.acted = heard]
  /\ p \in heard
  /\ \/ /\ bet = x.currentBet /\ heard = x.acted \cup {p} /\ x.bets[p] + pay <= bet
        /\ x.bets[p] + pay = bet \/ pay = x.chips[p]
     \/ bet = x.bets[p] + pay /\ bet > x.currentBet

LEMMA BetMoves ==
  ASSUME NEW x, NEW seats, NEW left, NEW total, NEW t, NEW p, OnTheMove(x, seats, left, total, t, p),
         NEW pay \in 0..x.chips[p], NEW y, NEW bet \in Nat, NEW raise \in Nat,
         NEW heard \in SUBSET Player, BetIs(x, p, pay, y, bet, raise, heard)
  PROVE  Moved(x, y, seats, left, total, t)
<1>1. /\ seats \in Seq(Player) /\ IsInjective(seats) /\ t \in 0..(Len(seats) - 1)
      /\ Betting(x, seats, left, total) /\ GoodTurn(x, seats, t) /\ p = Who(seats, t)
  BY DEF OnTheMove, MidHand
<1>2. p \in heard /\ y = [Payed(x, p, pay) EXCEPT !.currentBet = bet, !.minRaise = raise, !.acted = heard]
  BY DEF BetIs
<1>3. \/ /\ bet = x.currentBet /\ heard = x.acted \cup {p} /\ x.bets[p] + pay <= bet
         /\ x.bets[p] + pay = bet \/ pay = x.chips[p]
      \/ bet = x.bets[p] + pay /\ bet > x.currentBet
  BY DEF BetIs
<1> QED BY <1>1, <1>2, <1>3, PayMoves

\* CommitTo pays up to the bet, as far as the chips go.
LEMMA CommitToIs ==
  ASSUME NEW x \in PokerState, NEW p \in Player, NEW bet \in Nat, x.bets[p] <= bet
  PROVE  \E pay \in 0..x.chips[p] : /\ CommitTo(x, p, bet) = Payed(x, p, pay)
                                    /\ pay = Affordable(x, p, bet - x.bets[p])
<1>1. x.bets[p] \in Nat
  BY DEF PokerState, Purse
<1>2. PICK amount \in Nat : amount = bet - x.bets[p]
  BY <1>1
<1>3. CommitTo(x, p, bet) = Pay(x, p, amount)
  BY <1>1, <1>2 DEF CommitTo
<1>4. PICK pay : pay = Affordable(x, p, amount)
  OBVIOUS
<1>5. pay \in 0..x.chips[p] /\ Pay(x, p, amount) = Payed(x, p, pay)
  BY <1>4, PayIs
<1> QED BY <1>2, <1>3, <1>4, <1>5

\* What a bet of p leaves of the round: the bet to match, the least raise and who acted.
RoundAfter(z, p, y, bet, raise, heard) ==
  /\ y = [z EXCEPT !.currentBet = bet, !.minRaise = raise, !.acted = heard]
  /\ p \in heard
  /\ IF z.bets[p] > z.currentBet THEN bet = z.bets[p]
     ELSE bet = z.currentBet /\ heard = z.acted \cup {p}

\* Whether or not a raise reopens the round, the bet to match is right (BetIncreased).
LEMMA BetIncreasedIs ==
  ASSUME NEW z \in PokerState, NEW seats, NEW p \in Player
  PROVE  \E bet \in Nat, raise \in Nat, heard \in SUBSET Player :
           RoundAfter(z, p, Acted(BetIncreased(z, seats, p), p), bet, raise, heard)
<1>1. z.bets[p] \in Nat /\ z.currentBet \in Nat /\ z.minRaise \in Nat /\ z.acted \in SUBSET Player
  BY DEF PokerState, Purse
<1>2. PICK size \in Int : size = z.bets[p] - z.currentBet
  BY <1>1
<1>3. PICK rivals : rivals = ToSet(seats) \ (z.folded \cup z.allIn \cup {p})
  OBVIOUS
<1>4. BetIncreased(z, seats, p) =
        IF size <= 0 THEN z
        ELSE IF Reopened(z, size)
             THEN [z EXCEPT !.currentBet = @ + size, !.minRaise = size, !.acted = @ \ rivals]
             ELSE [z EXCEPT !.currentBet = @ + size]
  BY <1>2, <1>3 DEF BetIncreased
<1>5. CASE size <= 0
  <2>1. ~(z.bets[p] > z.currentBet)
    BY <1>1, <1>2, <1>5
  <2>2. Acted(BetIncreased(z, seats, p), p) =
          [z EXCEPT !.currentBet = z.currentBet, !.minRaise = z.minRaise, !.acted = z.acted \cup {p}]
    BY <1>4, <1>5 DEF Acted, PokerState
  <2>3. z.acted \cup {p} \in SUBSET Player
    BY <1>1
  <2> QED BY <1>1, <2>1, <2>2, <2>3 DEF RoundAfter
<1>6. CASE size > 0 /\ Reopened(z, size)
  <2>1. z.bets[p] > z.currentBet /\ z.currentBet + size = z.bets[p] /\ size \in Nat /\ ~(size <= 0)
    BY <1>1, <1>2, <1>6
  <2>2. PICK y : y = [z EXCEPT !.currentBet = z.bets[p], !.minRaise = size, !.acted = z.acted \ rivals]
    OBVIOUS
  <2>3. BetIncreased(z, seats, p) = y
    BY <1>4, <1>6, <2>1, <2>2
  <2>4. Acted(y, p) = [z EXCEPT !.currentBet = z.bets[p], !.minRaise = size,
                                !.acted = (z.acted \ rivals) \cup {p}]
    BY <2>2 DEF Acted, PokerState
  <2>5. (z.acted \ rivals) \cup {p} \in SUBSET Player
    BY <1>1
  <2>6. RoundAfter(z, p, Acted(BetIncreased(z, seats, p), p), z.bets[p], size, (z.acted \ rivals) \cup {p})
    BY <2>1, <2>3, <2>4 DEF RoundAfter
  <2> QED BY <1>1, <2>1, <2>5, <2>6
<1>7. CASE size > 0 /\ ~Reopened(z, size)
  <2>1. z.bets[p] > z.currentBet /\ z.currentBet + size = z.bets[p] /\ size \in Nat /\ ~(size <= 0)
    BY <1>1, <1>2, <1>7
  <2>2. PICK y : y = [z EXCEPT !.currentBet = z.bets[p]]
    OBVIOUS
  <2>3. BetIncreased(z, seats, p) = y
    BY <1>4, <1>7, <2>1, <2>2
  <2>4. Acted(y, p) = [z EXCEPT !.currentBet = z.bets[p], !.minRaise = z.minRaise, !.acted = z.acted \cup {p}]
    BY <2>2 DEF Acted, PokerState
  <2>5. z.acted \cup {p} \in SUBSET Player
    BY <1>1
  <2>6. RoundAfter(z, p, Acted(BetIncreased(z, seats, p), p), z.bets[p], z.minRaise, z.acted \cup {p})
    BY <2>1, <2>3, <2>4 DEF RoundAfter
  <2> QED BY <1>1, <2>1, <2>5, <2>6
<1> QED BY <1>2, <1>5, <1>6, <1>7

\* Each of the moves leaves the bets right.
LEMMA FoldMoves ==
  ASSUME NEW x, NEW seats, NEW left, NEW total, NEW t, NEW p, OnTheMove(x, seats, left, total, t, p)
  PROVE  Moved(x, Acted([x EXCEPT !.folded = @ \cup {p}], p), seats, left, total, t)
<1>1. PICK y : y = Acted([x EXCEPT !.folded = @ \cup {p}], p)
  OBVIOUS
<1>2. x \in PokerState /\ p \in Player /\ p \in ToSet(seats)
  BY MoverIs
<1>3. y = [x EXCEPT !.folded = x.folded \cup {p}, !.acted = x.acted \cup {p}]
  BY <1>1, <1>2 DEF Acted, PokerState
<1>4. x.folded \cup {p} \in SUBSET Player /\ x.acted \cup {p} \in SUBSET Player
  BY <1>2 DEF PokerState
<1>5. /\ y \in PokerState /\ y.folded = x.folded \cup {p} /\ y.acted = x.acted \cup {p}
      /\ y.chips = x.chips /\ y.bets = x.bets /\ y.contributed = x.contributed /\ y.pool = x.pool
      /\ y.allIn = x.allIn /\ y.dealer = x.dealer /\ y.street = x.street /\ y.currentBet = x.currentBet
      /\ y.handComplete = x.handComplete /\ y.matchComplete = x.matchComplete
  BY <1>2, <1>3, <1>4 DEF PokerState
<1>6. Contenders(y, seats, left) = Contenders(x, seats, left) \ {p}
  BY <1>5 DEF Contenders
<1>7. Bank(y) = Bank(x) /\ PutIn(y) = PutIn(x)
  BY <1>5 DEF Bank, PutIn
<1>8. Betting(y, seats, left, total)
  BY <1>5, <1>6, <1>7 DEF OnTheMove, MidHand, Betting
<1>9. p \notin ToAct(y, seats) /\ p = Who(seats, t)
  BY <1>5 DEF ToAct, CannotAct, OnTheMove
<1>10. \A q \in ToSet(seats) \ {p} : (CannotAct(y, q) <=> CannotAct(x, q)) /\ (Owes(y, q) <=> Owes(x, q))
  BY <1>5 DEF CannotAct, Owes
<1> QED BY <1>1, <1>6, <1>8, <1>9, <1>10 DEF Moved

LEMMA CheckMoves ==
  ASSUME NEW x, NEW seats, NEW left, NEW total, NEW t, NEW p, OnTheMove(x, seats, left, total, t, p),
         ToCall(x, p) = 0
  PROVE  Moved(x, Acted(x, p), seats, left, total, t)
<1>1. /\ x \in PokerState /\ p \in Player /\ x.chips[p] \in Nat \ {0}
      /\ x.bets[p] \in Nat /\ x.currentBet \in Nat /\ x.bets[p] <= x.currentBet
  BY MoverIs
<1>2. x.bets[p] = x.currentBet
  BY <1>1 DEF ToCall
<1>3. PICK pay \in 0..x.chips[p] : pay = 0
  BY <1>1
<1>4. Payed(x, p, pay) = x
  BY <1>1, <1>3, PayNothing
<1>5. PICK raise \in Nat, heard \in SUBSET Player : raise = x.minRaise /\ heard = x.acted \cup {p}
  BY <1>1 DEF PokerState
<1>6. Acted(x, p) = [Payed(x, p, pay) EXCEPT !.currentBet = x.currentBet, !.minRaise = raise, !.acted = heard]
  BY <1>1, <1>4, <1>5 DEF Acted, PokerState
<1>7. x.bets[p] + pay = x.currentBet /\ x.bets[p] + pay <= x.currentBet /\ p \in heard
  BY <1>1, <1>2, <1>3, <1>5
<1>8. BetIs(x, p, pay, Acted(x, p), x.currentBet, raise, heard)
  BY <1>5, <1>6, <1>7 DEF BetIs
<1> QED BY <1>1, <1>8, BetMoves

LEMMA CallMoves ==
  ASSUME NEW x, NEW seats, NEW left, NEW total, NEW t, NEW p, OnTheMove(x, seats, left, total, t, p)
  PROVE  Moved(x, Acted(CommitTo(x, p, x.currentBet), p), seats, left, total, t)
<1>1. /\ x \in PokerState /\ p \in Player /\ x.chips[p] \in Nat \ {0}
      /\ x.bets[p] \in Nat /\ x.currentBet \in Nat /\ x.bets[p] <= x.currentBet
  BY MoverIs
<1>2. PICK pay \in 0..x.chips[p] : /\ CommitTo(x, p, x.currentBet) = Payed(x, p, pay)
                                   /\ pay = Affordable(x, p, x.currentBet - x.bets[p])
  BY <1>1, CommitToIs
<1>3. PICK z : z = Payed(x, p, pay)
  OBVIOUS
<1>8. PaidInto(x, p, pay, z)
  BY <1>1, <1>3, PayedFields
<1>4. z \in PokerState /\ z.currentBet = x.currentBet /\ z.minRaise = x.minRaise /\ z.acted = x.acted
  BY <1>8 DEF PaidInto
<1>5. PICK raise \in Nat, heard \in SUBSET Player : raise = x.minRaise /\ heard = x.acted \cup {p}
  BY <1>1 DEF PokerState
<1>6. Acted(z, p) = [z EXCEPT !.currentBet = x.currentBet, !.minRaise = raise, !.acted = heard]
  BY <1>4, <1>5 DEF Acted, PokerState
<1>7. /\ x.bets[p] + pay <= x.currentBet /\ p \in heard
      /\ x.bets[p] + pay = x.currentBet \/ pay = x.chips[p]
  BY <1>1, <1>2, <1>5 DEF Affordable
<1>9. BetIs(x, p, pay, Acted(z, p), x.currentBet, raise, heard)
  BY <1>3, <1>5, <1>6, <1>7 DEF BetIs
<1> QED BY <1>1, <1>2, <1>3, <1>9, BetMoves

LEMMA RaiseMoves ==
  ASSUME NEW x, NEW seats, NEW left, NEW total, NEW t, NEW p, OnTheMove(x, seats, left, total, t, p),
         NEW amount \in Nat, x.bets[p] <= amount, amount - x.bets[p] <= x.chips[p],
         amount > x.currentBet \/ amount - x.bets[p] = x.chips[p]
  PROVE  Moved(x, Acted(BetIncreased(CommitTo(x, p, amount), seats, p), p), seats, left, total, t)
<1>1. /\ x \in PokerState /\ p \in Player /\ x.chips[p] \in Nat \ {0}
      /\ x.bets[p] \in Nat /\ x.currentBet \in Nat /\ x.bets[p] <= x.currentBet
  BY MoverIs
<1>2. PICK pay \in 0..x.chips[p] : /\ CommitTo(x, p, amount) = Payed(x, p, pay)
                                   /\ pay = Affordable(x, p, amount - x.bets[p])
  BY <1>1, CommitToIs
<1>3. pay = amount - x.bets[p] /\ x.bets[p] + pay = amount
  BY <1>1, <1>2 DEF Affordable
<1>4. PICK z : z = Payed(x, p, pay)
  OBVIOUS
<1>8. PaidInto(x, p, pay, z)
  BY <1>1, <1>4, PayedFields
<1>5. z \in PokerState /\ z.currentBet = x.currentBet /\ z.acted = x.acted /\ z.bets[p] = amount
  BY <1>3, <1>8 DEF PaidInto
<1>9. PICK y : y = Acted(BetIncreased(z, seats, p), p)
  OBVIOUS
<1>6. PICK bet \in Nat, raise \in Nat, heard \in SUBSET Player : RoundAfter(z, p, y, bet, raise, heard)
  BY <1>1, <1>5, <1>9, BetIncreasedIs
<1>7. \/ /\ bet = x.currentBet /\ heard = x.acted \cup {p} /\ x.bets[p] + pay <= bet
         /\ x.bets[p] + pay = bet \/ pay = x.chips[p]
      \/ bet = x.bets[p] + pay /\ bet > x.currentBet
  BY <1>1, <1>3, <1>5, <1>6 DEF RoundAfter
<1>10. BetIs(x, p, pay, y, bet, raise, heard)
  BY <1>4, <1>6, <1>7 DEF BetIs, RoundAfter
<1> QED BY <1>1, <1>2, <1>4, <1>9, <1>10, BetMoves

-----------------------------------------------------------------------------
(* What a hand pays *)

\* Max and Min of two numbers.
LEMMA MinOfTwo ==
  ASSUME NEW a \in Int, NEW b \in Int
  PROVE  Min({a, b}) = IF a <= b THEN a ELSE b
<1>1. PICK S, v : S = {a, b} /\ v = IF a <= b THEN a ELSE b
  OBVIOUS
<1>2. v \in S /\ \A y \in S : v <= y
  BY <1>1
<1>3. \A w \in S : (\A y \in S : w <= y) => w = v
  BY <1>1, <1>2
<1>4. Min(S) = v
  BY <1>2, <1>3 DEF Min
<1> QED BY <1>1, <1>4

LEMMA MaxOfTwo ==
  ASSUME NEW a \in Int, NEW b \in Int
  PROVE  Max({a, b}) = IF a <= b THEN b ELSE a
<1>1. PICK S, v : S = {a, b} /\ v = IF a <= b THEN b ELSE a
  OBVIOUS
<1>2. v \in S /\ \A y \in S : v >= y
  BY <1>1
<1>3. \A w \in S : (\A y \in S : w >= y) => w = v
  BY <1>1, <1>2
<1>4. Max(S) = v
  BY <1>2, <1>3 DEF Max
<1> QED BY <1>1, <1>4

\* Stakes of which nothing above a height counts.
CutAt(c, t) == [q \in Player |-> IF c[q] <= t THEN c[q] ELSE t]

Low(c, t) == {l \in Range(c) \ {0} : l <= t}

\* The layers up to a stake hold what everybody put in up to it.
LEMMA LayersUpTo ==
  ASSUME NEW c \in [Player -> Nat], NEW a, Layers(a, c), NEW t \in Range(c)
  PROVE  SumFunctionOnSet(a, Low(c, t)) = SumFunctionOnSet(CutAt(c, t), Player)
<1>1. IsFiniteSet(Player) /\ Range(c) \subseteq Nat /\ t \in Nat
      /\ (\A p \in Player : c[p] \in Nat /\ c[p] \in Range(c)) /\ \A v \in Range(c) : \E p \in Player : c[p] = v
  BY PokerAssumption, RangeFinite
<1>2. PICK d : d = CutAt(c, t)
  OBVIOUS
<1>3. d \in [Player -> Nat] /\ \A q \in Player : d[q] = IF c[q] <= t THEN c[q] ELSE t
  <2>1. \A q \in Player : (IF c[q] <= t THEN c[q] ELSE t) \in Nat
    BY <1>1
  <2> QED BY <1>2, <2>1 DEF CutAt
<1>4. \A p \in Player : d[p] \in Range(d) /\ d[p] \in Nat
  BY <1>3, PokerAssumption, RangeFinite
<1>5. \A v \in Range(d) : v \in Nat /\ \E p \in Player : d[p] = v
  <2>1. Range(d) \subseteq Nat /\ \A v \in Range(d) : \E p \in Player : d[p] = v
    BY <1>3, PokerAssumption, RangeFinite
  <2> QED BY <2>1
<1>6. PICK levels, low : levels = Range(c) \ {0} /\ low = Range(d) \ {0}
  OBVIOUS
<1>7. \A l : l \in low <=> (l \in levels /\ l <= t)
  <2>1. ASSUME NEW l \in low PROVE l \in levels /\ l <= t
    <3>1. PICK p \in Player : d[p] = l /\ l \in Nat /\ l # 0
      BY <1>5, <1>6, <2>1
    <3>2. l = c[p] \/ l = t
      BY <1>3, <3>1
    <3>3. l <= t
      BY <1>1, <1>3, <3>1
    <3> QED BY <1>1, <1>6, <3>1, <3>2, <3>3
  <2>2. ASSUME NEW l \in levels, l <= t PROVE l \in low
    <3>1. PICK p \in Player : c[p] = l
      BY <1>1, <1>6
    <3>2. d[p] = l /\ l # 0
      BY <1>3, <1>6, <2>2, <3>1
    <3> QED BY <1>4, <1>6, <3>2
  <2> QED BY <2>1, <2>2
<1>8. low = Low(c, t)
  BY <1>6, <1>7 DEF Low
<1>9. ASSUME NEW l \in low
      PROVE  Under(low, l) = Under(levels, l) /\ Payers(d, l) = Payers(c, l)
  <2>1. l \in Nat /\ l <= t
    BY <1>1, <1>6, <1>7
  <2>2. {m \in low : m < l} = {m \in levels : m < l}
    <3>1. \A m \in levels : m \in Nat /\ (m < l => m <= t)
      BY <1>1, <1>6, <2>1
    <3> QED BY <1>7, <3>1
  <2>3. \A q \in Player : d[q] >= l <=> c[q] >= l
    <3> SUFFICES ASSUME NEW q \in Player PROVE d[q] >= l <=> c[q] >= l
      OBVIOUS
    <3> QED BY <1>1, <1>3, <2>1
  <2> QED BY <2>2, <2>3 DEF Under, Payers
<1>10. Layers(a, d)
  <2>1. \A l \in low : a[l] = (l - Under(levels, l)) * Cardinality(Payers(c, l))
    BY <1>6, <1>7 DEF Layers
  <2>2. \A l \in low : a[l] = (l - Under(low, l)) * Cardinality(Payers(d, l))
    BY <1>9, <2>1
  <2> QED BY <1>6, <2>2 DEF Layers
<1>11. SumFunctionOnSet(a, Range(d) \ {0}) = SumFunctionOnSet(d, Player)
  BY <1>3, <1>10, LayersAddUp
<1> QED BY <1>2, <1>6, <1>8, <1>11

\* A stake is matched by what everybody put in up to it, less the stake itself.
LEMMA MatchedIs ==
  ASSUME NEW c \in [Player -> Nat], NEW p \in Player
  PROVE  /\ Matched(p, c) \in Nat
         /\ SumFunctionOnSet(CutAt(c, c[p]), Player) = Matched(p, c) + c[p]
<1>1. IsFiniteSet(Player) /\ \A q \in Player : c[q] \in Nat
  BY PokerAssumption
<1>2. PICK d, R : d = CutAt(c, c[p]) /\ R = Player \ {p}
  OBVIOUS
<1>3. \A q \in Player : d[q] = (IF c[q] <= c[p] THEN c[q] ELSE c[p]) /\ d[q] \in Nat
  <2>1. \A q \in Player : (IF c[q] <= c[p] THEN c[q] ELSE c[p]) \in Nat
    BY <1>1
  <2> QED BY <1>2, <2>1 DEF CutAt
<1>4. IntsOn(d, Player) /\ IntsOn(d, R) /\ IsFiniteSet(R) /\ R \in SUBSET Player
  <2>1. \A q \in Player : d[q] \in Int
    BY <1>3
  <2> QED BY <1>1, <1>2, <2>1, FS_RemoveElement DEF IntsOn
<1>5. SumFunctionOnSet(d, Player) = d[p] + SumFunctionOnSet(d, R)
  BY <1>1, <1>2, <1>4, SumByOne
<1>6. d[p] = c[p] /\ c[p] \in Nat
  BY <1>1, <1>3
<1>7. PICK f : f = [q \in R |-> Min({c[q], c[p]})]
  OBVIOUS
<1>8. \A q \in R : f[q] = d[q]
  <2> SUFFICES ASSUME NEW q \in R PROVE Min({c[q], c[p]}) = d[q]
    BY <1>7
  <2>1. c[q] \in Int /\ c[p] \in Int /\ q \in Player
    BY <1>1, <1>2
  <2> QED BY <1>3, <2>1, MinOfTwo
<1>9. SumFunctionOnSet(f, R) = SumFunctionOnSet(d, R)
  BY <1>4, <1>8, SumSame
<1>10. Matched(p, c) = SumFunctionOnSet(f, R)
  <2>1. DOMAIN f = R
    BY <1>7
  <2> QED BY <1>2, <1>7, <2>1 DEF Matched, SumFunction
<1>11. SumFunctionOnSet(d, R) \in Nat
  <2>1. PICK z : z = [q \in R |-> 0]
    OBVIOUS
  <2>2. IntsOn(z, R) /\ \A q \in R : z[q] <= d[q]
    BY <1>2, <1>3, <2>1 DEF IntsOn
  <2>3. SumFunctionOnSet(z, R) <= SumFunctionOnSet(d, R)
    BY <1>4, <2>2, SumLarger
  <2>4. SumFunctionOnSet(z, R) = 0
    BY <1>4, <2>1, SumOfNothing
  <2>5. SumFunctionOnSet(d, R) \in Int
    BY <1>4, SumType
  <2> QED BY <2>3, <2>4, <2>5
<1> QED BY <1>2, <1>5, <1>6, <1>9, <1>10, <1>11

\* A term of a sum of natural numbers is at most the sum, which is one too.
LEMMA SumOfNats ==
  ASSUME NEW D, IsFiniteSet(D), NEW f, \A x \in D : f[x] \in Nat
  PROVE  SumFunctionOnSet(f, D) \in Nat /\ \A x \in D : f[x] <= SumFunctionOnSet(f, D)
<1>1. IntsOn(f, D)
  BY DEF IntsOn
<1>2. ASSUME NEW E \in SUBSET D PROVE SumFunctionOnSet(f, E) \in Nat
  <2>1. IsFiniteSet(E) /\ IntsOn(f, E) /\ \A x \in E : f[x] \in Nat
    BY FS_Subset DEF IntsOn
  <2>2. PICK z : z = [x \in E |-> 0]
    OBVIOUS
  <2>3. IntsOn(z, E) /\ \A x \in E : z[x] <= f[x]
    BY <2>1, <2>2 DEF IntsOn
  <2>4. SumFunctionOnSet(z, E) <= SumFunctionOnSet(f, E)
    BY <2>1, <2>3, SumLarger
  <2>5. SumFunctionOnSet(z, E) = 0
    BY <2>1, <2>2, SumOfNothing
  <2>6. SumFunctionOnSet(f, E) \in Int
    BY <2>1, SumType
  <2> QED BY <2>4, <2>5, <2>6
<1>3. ASSUME NEW x \in D PROVE f[x] <= SumFunctionOnSet(f, D)
  <2>1. SumFunctionOnSet(f, D) = f[x] + SumFunctionOnSet(f, D \ {x})
    BY <1>1, SumByOne
  <2>2. SumFunctionOnSet(f, D \ {x}) \in Nat /\ f[x] \in Nat
    BY <1>2
  <2> QED BY <2>1, <2>2
<1>4. D \in SUBSET D
  OBVIOUS
<1> QED BY <1>2, <1>3, <1>4

\* What is above the largest stake of those who contest the pot is what the layers above it hold.
Above(c, t) == (Range(c) \ {0}) \ Low(c, t)

LEMMA LayersAbove ==
  ASSUME NEW c \in [Player -> Nat], NEW a, Layers(a, c), NEW t \in Range(c)
  PROVE  SumFunctionOnSet(a, Above(c, t)) = SumFunction([q \in Player |-> Max({c[q] - t, 0})])
<1>1. IsFiniteSet(Player) /\ Range(c) \subseteq Nat /\ t \in Nat /\ IsFiniteSet(Range(c))
      /\ \A p \in Player : c[p] \in Nat
  BY PokerAssumption, RangeFinite
<1>2. PICK levels, low : levels = Range(c) \ {0} /\ low = Low(c, t)
  OBVIOUS
<1>3. IsFiniteSet(levels) /\ low \in SUBSET levels /\ Above(c, t) = levels \ low
  BY <1>1, <1>2, FS_RemoveElement DEF Low, Above
<1>4. (\A l \in levels : a[l] \in Nat) /\ SumFunctionOnSet(a, levels) = SumFunctionOnSet(c, Player)
  BY <1>2, LayersAddUp
<1>5. IntsOn(a, levels)
  BY <1>4 DEF IntsOn
<1>6. SumFunctionOnSet(a, levels) = SumFunctionOnSet(a, low) + SumFunctionOnSet(a, levels \ low)
  BY <1>3, <1>5, SumOfParts
<1>7. PICK d, e : d = CutAt(c, t) /\ e = [q \in Player |-> Max({c[q] - t, 0})]
  OBVIOUS
<1>8. SumFunctionOnSet(a, low) = SumFunctionOnSet(d, Player)
  BY <1>2, <1>7, LayersUpTo
<1>9. ASSUME NEW q \in Player
      PROVE  d[q] \in Int /\ e[q] \in Int /\ c[q] = d[q] + e[q]
  <2>1. c[q] \in Nat /\ c[q] - t \in Int /\ 0 \in Int
    BY <1>1
  <2>2. e[q] = IF c[q] - t <= 0 THEN 0 ELSE c[q] - t
    BY <1>7, <2>1, MaxOfTwo
  <2>3. d[q] = IF c[q] <= t THEN c[q] ELSE t
    BY <1>7 DEF CutAt
  <2> QED BY <1>1, <2>1, <2>2, <2>3
<1>10. IntsOn(d, Player) /\ IntsOn(e, Player)
  BY <1>9 DEF IntsOn
<1>11. SumFunctionOnSet(c, Player) = SumFunctionOnSet(d, Player) + SumFunctionOnSet(e, Player)
  BY <1>1, <1>9, <1>10, SumPlus
<1>12. SumFunctionOnSet(d, Player) \in Int /\ SumFunctionOnSet(e, Player) \in Int
  BY <1>1, <1>10, SumType
<1>13. SumFunctionOnSet(a, levels \ low) \in Int
  <2>1. IsFiniteSet(levels \ low) /\ IntsOn(a, levels \ low)
    BY <1>3, <1>5, FS_Subset DEF IntsOn
  <2> QED BY <2>1, SumType
<1>14. SumFunctionOnSet(a, levels \ low) = SumFunctionOnSet(e, Player)
  <2>1. PICK u \in Int, v \in Int, w \in Int :
          /\ u = SumFunctionOnSet(d, Player) /\ v = SumFunctionOnSet(e, Player)
          /\ w = SumFunctionOnSet(a, levels \ low)
    BY <1>12, <1>13
  <2>2. SumFunctionOnSet(a, levels) = u + w /\ SumFunctionOnSet(a, levels) = u + v
    BY <1>4, <1>6, <1>8, <1>11, <2>1
  <2>3. u + w = u + v
    BY <2>2
  <2> QED BY <2>1, <2>3
<1>15. SumFunction(e) = SumFunctionOnSet(e, Player)
  <2>1. DOMAIN e = Player
    BY <1>7
  <2> QED BY <2>1 DEF SumFunction
<1> QED BY <1>3, <1>7, <1>14, <1>15

\* The largest stake of those who contest the pot.
Most(c, live) == Max({c[p] : p \in live})

LEMMA MostIs ==
  ASSUME NEW c \in [Player -> Nat], NEW live \in SUBSET Player, live # {}
  PROVE  /\ Most(c, live) \in Nat /\ Most(c, live) \in Range(c)
         /\ (\A p \in live : c[p] <= Most(c, live)) /\ \E p \in live : c[p] = Most(c, live)
<1>1. IsFiniteSet(live) /\ \A p \in live : c[p] \in Nat /\ p \in Player
  BY PokerAssumption, FS_Subset
<1>2. IntsOn(c, live)
  BY <1>1 DEF IntsOn
<1>3. PICK g \in live : \A p \in live : c[p] <= c[g]
  BY <1>1, <1>2, SomeoneGreatest
<1>4. PICK S : S = {c[p] : p \in live}
  OBVIOUS
<1>5. c[g] \in Nat /\ S # {} /\ \A m \in S : m \in Nat /\ m <= c[g]
  BY <1>1, <1>3, <1>4
<1>6. S \subseteq Nat /\ \A m \in S : m <= c[g]
  BY <1>5
<1>7. Max(S) \in S /\ \A m \in S : m <= Max(S)
  BY <1>5, <1>6, MaxOfBounded
<1>8. \A p \in Player : c[p] \in Range(c)
  BY PokerAssumption, RangeFinite
<1>9. PICK p \in live : c[p] = Max(S)
  BY <1>4, <1>7
<1>10. Max(S) \in Range(c)
  BY <1>1, <1>8, <1>9
<1>11. \A q \in live : c[q] <= Max(S)
  BY <1>4, <1>7
<1> QED BY <1>1, <1>4, <1>9, <1>10, <1>11 DEF Most

\* The dead money of a hand that two contest is what the layers nobody can win hold.
LEMMA DeadMoneyIs ==
  ASSUME NEW c \in [Player -> Nat], NEW live \in SUBSET Player, Two(live), NEW a, Layers(a, c)
  PROVE  /\ DeadMoney(live, c) = SumFunctionOnSet(a, Above(c, Most(c, live)))
         /\ DeadMoney(live, c) \in Nat
<1>1. IsFiniteSet(live) /\ live # {} /\ IsFiniteSet(Range(c))
  BY PokerAssumption, RangeFinite, FS_Subset DEF Two
<1>2. Cardinality(live) # 1
  BY <1>1, TwoOrFew
<1>3. PICK t : t = Most(c, live)
  OBVIOUS
<1>4. t \in Range(c)
  BY <1>1, <1>3, MostIs
<1>5. DeadMoney(live, c) = SumFunction([p \in Player |-> Max({c[p] - t, 0})])
  BY <1>2, <1>3 DEF DeadMoney, Most
<1>6. DeadMoney(live, c) = SumFunctionOnSet(a, Above(c, t))
  BY <1>4, <1>5, LayersAbove
<1>7. \A l \in Above(c, t) : a[l] \in Nat
  <2>1. \A l \in Range(c) \ {0} : a[l] \in Nat
    BY LayersAddUp
  <2> QED BY <2>1 DEF Above
<1>8. IsFiniteSet(Above(c, t))
  BY <1>1, FS_Subset DEF Above
<1>9. SumFunctionOnSet(a, Above(c, t)) \in Nat
  BY <1>7, <1>8, SumOfNats
<1> QED BY <1>3, <1>6, <1>9

\* At least two contest the pot, one of whom put something in.
Contested(c, live) == Two(live) /\ \E q \in live : c[q] > 0

\* The pots of a showdown by two: a layer each up to the largest stake of somebody who
\* contests it, and the dead money with the last (SidePots).
LEMMA SidePotsHold ==
  ASSUME NEW x, NEW c \in [Player -> Nat], x.contributed = c, NEW live \in SUBSET Player,
         Contested(c, live), NEW a, Layers(a, c),
         NEW pots, pots = SidePots(x, live), NEW t, t = Most(c, live)
  PROVE  /\ DOMAIN pots = Low(c, t) /\ t \in Low(c, t)
         /\ \A l \in Low(c, t) : /\ pots[l].amount = a[l] + IF l = t THEN DeadMoney(live, c) ELSE 0
                                 /\ pots[l].eligible = Eligible(c, live, l)
<1>1. /\ Range(c) \subseteq Nat /\ IsFiniteSet(Range(c)) /\ live # {} /\ Two(live)
      /\ (\E q \in live : c[q] > 0) /\ \A p \in live : p \in Player /\ c[p] \in Nat
  BY PokerAssumption, RangeFinite DEF Contested, Two
<1>2. t \in Nat /\ t \in Range(c) /\ (\A p \in live : c[p] <= t) /\ \E p \in live : c[p] = t
  BY <1>1, MostIs
<1>3. PICK levels, W : levels = Range(c) \ {0} /\ W = Winnable(c, live)
  OBVIOUS
<1>4. \A l \in levels : l \in Nat
  BY <1>1, <1>3
<1>5. ASSUME NEW l \in levels PROVE l \in W <=> l <= t
  <2>1. \A p \in live : c[p] >= l => l <= t
    BY <1>1, <1>2, <1>4
  <2>2. l <= t => \E p \in live : c[p] >= l
    BY <1>2, <1>4
  <2>3. l \in W <=> \E p \in live : c[p] >= l
    BY <1>3 DEF Winnable, Eligible
  <2> QED BY <2>1, <2>2, <2>3
<1>6. W = Low(c, t)
  BY <1>3, <1>5 DEF Low, Winnable
<1>7. t \in W
  <2>1. t # 0
    BY <1>1, <1>2
  <2> QED BY <1>2, <1>3, <1>5, <2>1
<1>8. Max(W) = t
  <2>1. \A l \in W : l \in Nat /\ l <= t
    BY <1>3, <1>4, <1>6 DEF Low
  <2>2. W \subseteq Nat /\ W # {} /\ \A l \in W : l <= t
    BY <1>7, <2>1
  <2>3. Max(W) \in W /\ \A l \in W : l <= Max(W)
    BY <1>2, <2>2, MaxOfBounded
  <2>4. PICK m : m = Max(W)
    OBVIOUS
  <2>5. m \in Nat /\ m <= t /\ t <= m
    BY <1>7, <2>1, <2>3, <2>4
  <2> QED BY <1>2, <2>4, <2>5
<1>9. \A l \in levels : a[l] = LayerOf(c, l)
  BY <1>3 DEF Layers, LayerOf
<1>10. PICK dead : dead = DeadMoney(live, c)
  OBVIOUS
<1>11. SumFunction([k \in levels \ W |-> LayerOf(c, k)]) = dead
  <2>1. PICK R : R = levels \ W
    OBVIOUS
  <2>2. R = Above(c, t)
    BY <1>3, <1>6, <2>1 DEF Above
  <2>3. PICK f : f = [k \in R |-> LayerOf(c, k)]
    OBVIOUS
  <2>4. \A l \in levels : a[l] \in Nat
    BY <1>3, LayersAddUp
  <2>5. DOMAIN f = R /\ (\A k \in R : f[k] = a[k]) /\ IntsOn(a, R)
    BY <1>9, <2>1, <2>3, <2>4 DEF IntsOn
  <2>6. IsFiniteSet(R)
    BY <1>1, <1>3, <2>1, FS_Subset
  <2>7. SumFunctionOnSet(f, R) = SumFunctionOnSet(a, R)
    BY <2>5, <2>6, SumSame
  <2>8. dead = SumFunctionOnSet(a, R)
    BY <1>1, <1>10, <2>2, DeadMoneyIs
  <2> QED BY <2>1, <2>3, <2>5, <2>7, <2>8 DEF SumFunction
<1>12. pots = [l \in W |-> Pot(LayerOf(c, l) + IF l = t THEN dead ELSE 0, Eligible(c, live, l))]
  BY <1>3, <1>8, <1>11, SidePotsAre
<1>13. \A v, e : Pot(v, e).amount = v /\ Pot(v, e).eligible = e
  BY DEF Pot
<1>14. \A l \in W : a[l] = LayerOf(c, l)
  BY <1>3, <1>6, <1>9 DEF Low
<1>15. \A l \in W : /\ pots[l].amount = a[l] + IF l = t THEN dead ELSE 0
                    /\ pots[l].eligible = Eligible(c, live, l)
  <2> SUFFICES ASSUME NEW l \in W
               PROVE  /\ pots[l].amount = a[l] + IF l = t THEN dead ELSE 0
                      /\ pots[l].eligible = Eligible(c, live, l)
    OBVIOUS
  <2>1. PICK v : v = a[l] + IF l = t THEN dead ELSE 0
    OBVIOUS
  <2>2. pots[l] = Pot(v, Eligible(c, live, l))
    BY <1>12, <1>14, <2>1
  <2> QED BY <1>13, <2>1, <2>2
<1>16. DOMAIN pots = W
  BY <1>12
<1> QED BY <1>6, <1>7, <1>10, <1>15, <1>16

\* Nobody takes more than a pot or of a pot they have no stake in, and the one best hand takes all of it.
LEMMA TakenIs ==
  ASSUME NEW x, x.strength \in [Player -> Int], NEW pot, pot.amount \in Nat, pot.eligible # {},
         pot.eligible \subseteq Player, NEW p \in Player
  PROVE  /\ Taken(x, pot, p) \in Nat /\ Taken(x, pot, p) <= pot.amount
         /\ p \notin pot.eligible => Taken(x, pot, p) = 0
         /\ p \in pot.eligible /\ (\A q \in pot.eligible \ {p} : x.strength[q] < x.strength[p])
              => Taken(x, pot, p) = pot.amount
<1>1. PICK f : f = [q \in Player |-> Taken(x, pot, q)]
  OBVIOUS
<1>2. (\A q \in Player : f[q] \in Nat) /\ SumFunctionOnSet(f, Player) = pot.amount
  BY <1>1, PotTaken
<1>3. f[p] <= pot.amount
  BY <1>2, PokerAssumption, SumOfNats
<1>4. p \notin pot.eligible => Taken(x, pot, p) = 0
  BY DEF Taken, PotWinners
<1>5. ASSUME p \in pot.eligible, \A q \in pot.eligible \ {p} : x.strength[q] < x.strength[p]
      PROVE  Taken(x, pot, p) = pot.amount
  <2>1. PICK ids : ids = PotWinners(x, pot)
    OBVIOUS
  <2>2. \A q \in pot.eligible : x.strength[q] \in Int /\ x.strength[q] <= x.strength[p]
    BY <1>5
  <2>3. \A q \in pot.eligible : x.strength[p] <= x.strength[q] => q = p
    BY <1>5, <2>2
  <2>4. ids = {p}
    BY <1>5, <2>1, <2>2, <2>3 DEF PotWinners
  <2>5. Cardinality({p}) = 1 /\ Cardinality({q \in {p} : q < p}) = 0
    <3>1. p \in Nat
      BY PokerAssumption
    <3>2. {q \in {p} : q < p} = {}
      BY <3>1
    <3> QED BY <3>2, FS_EmptySet, FS_Singleton
  <2>6. pot.amount \div 1 = pot.amount /\ pot.amount % 1 = 0
    <3>1. PICK n \in Nat : n = pot.amount
      OBVIOUS
    <3>2. n \div 1 = n /\ n % 1 = 0
      OBVIOUS
    <3> QED BY <3>1, <3>2
  <2>7. Share(p, {p}, pot.amount) = pot.amount
    BY <2>5, <2>6 DEF Share
  <2> QED BY <2>1, <2>4, <2>7 DEF Taken
<1> QED BY <1>1, <1>2, <1>3, <1>4, <1>5

-----------------------------------------------------------------------------
(* What a hand was worth *)

\* What everybody would have if the bets were taken back.
Stack(x) == [p \in Player |-> x.chips[p] + x.contributed[p]]

\* The best of those who contest the pot.
Beats(y, live, p) == p \in live /\ \A q \in live \ {p} : y.strength[q] < y.strength[p]

\* FairlyPaid, against the stacks b that the players brought to the hand.
PaysFairly(b, y, live) ==
  \A p \in Player :
    /\ y.chips[p] - b[p] <= Matched(p, y.contributed) + DeadMoney(live, y.contributed)
    /\ Beats(y, live, p) => y.chips[p] - b[p] >= Matched(p, y.contributed)

\* What p takes of the pots of a showdown: at most what was put in up to p's own stake and the
\* dead money, and with the best hand no less than the former.
LEMMA TakesFairly ==
  ASSUME NEW x, NEW c \in [Player -> Nat], x.contributed = c, x.strength \in [Player -> Int],
         NEW live \in SUBSET Player, Contested(c, live),
         NEW pots, pots = SidePots(x, live), NEW p \in Player,
         NEW takes, takes = SumFunction([l \in DOMAIN pots |-> Taken(x, pots[l], p)])
  PROVE  /\ takes \in Nat
         /\ takes <= c[p] + Matched(p, c) + DeadMoney(live, c)
         /\ Beats(x, live, p) => takes >= c[p] + Matched(p, c)
<1>1. PICK a, t, dead, mine : /\ a = [l \in Range(c) \ {0} |-> LayerOf(c, l)] /\ t = Most(c, live)
                              /\ dead = DeadMoney(live, c) /\ mine = Matched(p, c) + c[p]
  OBVIOUS
<1>2. Layers(a, c)
  BY <1>1 DEF Layers, LayerOf
<1>3. /\ IsFiniteSet(Range(c)) /\ Range(c) \subseteq Nat /\ c[p] \in Nat /\ c[p] \in Range(c)
      /\ Two(live) /\ live # {} /\ \A q \in live : q \in Player
  BY PokerAssumption, RangeFinite DEF Contested, Two
<1>4. t \in Nat /\ \A q \in live : c[q] <= t
  BY <1>1, <1>3, MostIs
<1>5. dead \in Nat
  BY <1>1, <1>2, <1>3, DeadMoneyIs
<1>6. PICK W, low : W = Low(c, t) /\ low = Low(c, c[p])
  OBVIOUS
<1>7. /\ DOMAIN pots = W /\ t \in W
      /\ \A l \in W : /\ pots[l].amount = a[l] + (IF l = t THEN dead ELSE 0)
                      /\ pots[l].eligible = Eligible(c, live, l)
  <2>1. t = Most(c, live)
    BY <1>1
  <2>2. /\ DOMAIN pots = Low(c, t) /\ t \in Low(c, t)
        /\ \A l \in Low(c, t) : /\ pots[l].amount = a[l] + IF l = t THEN DeadMoney(live, c) ELSE 0
                                /\ pots[l].eligible = Eligible(c, live, l)
    BY <1>2, <2>1, SidePotsHold
  <2> QED BY <1>1, <1>6, <2>2
<1>8. IsFiniteSet(W) /\ IsFiniteSet(low) /\ \A l \in W : l \in Nat /\ a[l] \in Nat
  <2>1. \A l \in Range(c) \ {0} : a[l] \in Nat
    BY <1>2, LayersAddUp
  <2>2. W \in SUBSET Range(c) /\ low \in SUBSET Range(c)
    BY <1>6 DEF Low
  <2> QED BY <1>3, <1>6, <2>1, <2>2, FS_Subset DEF Low
<1>9. mine \in Nat /\ SumFunctionOnSet(a, low) = mine
  <2>1. Matched(p, c) \in Nat /\ SumFunctionOnSet(CutAt(c, c[p]), Player) = Matched(p, c) + c[p]
    BY MatchedIs
  <2>2. SumFunctionOnSet(a, low) = SumFunctionOnSet(CutAt(c, c[p]), Player)
    BY <1>2, <1>3, <1>6, LayersUpTo
  <2> QED BY <1>1, <1>3, <2>1, <2>2
<1>10. ASSUME NEW l \in W
       PROVE  /\ Eligible(c, live, l) # {} /\ Eligible(c, live, l) \subseteq live
              /\ p \in Eligible(c, live, l) <=> p \in live /\ l \in low
  <2>1. l \in Nat /\ l <= t /\ l \in Range(c) \ {0}
    BY <1>6, <1>8, <1>10 DEF Low
  <2>2. \E q \in live : c[q] = t
    BY <1>1, <1>3, MostIs
  <2>3. \E q \in live : c[q] >= l
    BY <1>4, <2>1, <2>2
  <2>4. l \in low <=> c[p] >= l
    BY <1>3, <1>6, <2>1 DEF Low
  <2> QED BY <2>3, <2>4 DEF Eligible
<1>11. PICK f : f = [l \in W |-> Taken(x, pots[l], p)]
  OBVIOUS
<1>12. DOMAIN f = W /\ takes = SumFunctionOnSet(f, W)
  <2>1. DOMAIN f = W /\ f = [l \in DOMAIN pots |-> Taken(x, pots[l], p)]
    BY <1>7, <1>11
  <2> QED BY <2>1 DEF SumFunction
<1>13. ASSUME NEW l \in W
       PROVE  /\ f[l] \in Nat /\ f[l] <= a[l] + (IF l = t THEN dead ELSE 0)
              /\ ~(p \in live /\ l \in low) => f[l] = 0
              /\ Beats(x, live, p) /\ l \in low => f[l] = a[l] + (IF l = t THEN dead ELSE 0)
  <2>1. PICK pot : pot = pots[l]
    OBVIOUS
  <2>2. /\ pot.amount = a[l] + (IF l = t THEN dead ELSE 0) /\ pot.amount \in Nat
        /\ pot.eligible = Eligible(c, live, l)
    BY <1>5, <1>7, <1>8, <2>1
  <2>3. pot.eligible # {} /\ pot.eligible \subseteq live /\ pot.eligible \subseteq Player
    BY <1>10, <2>2
  <2>4. /\ Taken(x, pot, p) \in Nat /\ Taken(x, pot, p) <= pot.amount
        /\ p \notin pot.eligible => Taken(x, pot, p) = 0
        /\ p \in pot.eligible /\ (\A q \in pot.eligible \ {p} : x.strength[q] < x.strength[p])
             => Taken(x, pot, p) = pot.amount
    BY <2>2, <2>3, TakenIs
  <2>5. f[l] = Taken(x, pot, p)
    BY <1>11, <2>1
  <2>6. Beats(x, live, p) => p \in live /\ \A q \in pot.eligible \ {p} : x.strength[q] < x.strength[p]
    BY <2>3 DEF Beats
  <2> QED BY <1>10, <2>2, <2>4, <2>5, <2>6
<1>14. takes \in Nat
  BY <1>8, <1>12, <1>13, SumOfNats
<1>15. CASE p \notin live
  <2>1. f = [l \in W |-> 0]
    BY <1>11, <1>13, <1>15
  <2>2. takes = 0
    BY <1>8, <1>12, <2>1, SumOfNothing
  <2>3. ~Beats(x, live, p)
    BY <1>15 DEF Beats
  <2>4. Matched(p, c) \in Nat
    BY MatchedIs
  <2> QED BY <1>1, <1>3, <1>5, <2>2, <2>3, <2>4
<1>16. CASE p \in live
  <2>1. low \in SUBSET W
    <3>1. c[p] <= t
      BY <1>4, <1>16
    <3>2. \A l \in Range(c) : l \in Nat /\ (l <= c[p] => l <= t)
      BY <1>3, <1>4, <3>1
    <3> QED BY <1>6, <3>2 DEF Low
  <2>2. PICK g, e, h : /\ g = [l \in W |-> IF l \in low THEN a[l] ELSE 0]
                       /\ e = [l \in W |-> IF l \in {t} THEN dead ELSE 0]
                       /\ h = [l \in W |-> g[l] + e[l]]
    OBVIOUS
  <2>3. \A l \in W : /\ g[l] = (IF l \in low THEN a[l] ELSE 0) /\ e[l] = (IF l \in {t} THEN dead ELSE 0)
                     /\ g[l] \in Nat /\ e[l] \in Nat /\ h[l] = g[l] + e[l] /\ h[l] \in Int
    BY <1>5, <1>8, <2>2
  <2>4. IntsOn(f, W) /\ IntsOn(g, W) /\ IntsOn(e, W) /\ IntsOn(h, W) /\ IntsOn(a, low)
    BY <1>8, <1>13, <2>1, <2>3 DEF IntsOn
  <2>5. SumFunctionOnSet(g, W) = mine
    <3>1. \A l \in W \ low : g[l] = 0
      BY <2>3
    <3>2. SumFunctionOnSet(g, W) = SumFunctionOnSet(g, low)
      BY <1>8, <2>1, <2>4, <3>1, SumOfSome
    <3>3. \A l \in low : g[l] = a[l]
      BY <2>1, <2>3
    <3>4. SumFunctionOnSet(g, low) = SumFunctionOnSet(a, low)
      BY <1>8, <2>4, <3>3, SumSame
    <3> QED BY <1>9, <3>2, <3>4
  <2>6. SumFunctionOnSet(e, W) = dead
    <3>1. {t} \in SUBSET W /\ dead \in Int /\ \A l \in W : e[l] = IF l \in {t} THEN dead ELSE 0
      BY <1>5, <1>7, <2>3
    <3>2. SumFunctionOnSet(e, W) = dead * Cardinality({t})
      BY <1>8, <3>1, SumOfEqual
    <3>3. Cardinality({t}) = 1
      BY FS_Singleton
    <3>4. dead * 1 = dead
      BY <1>5
    <3> QED BY <3>2, <3>3, <3>4
  <2>7. SumFunctionOnSet(h, W) = mine + dead
    <3>1. \A l \in W : h[l] = g[l] + e[l]
      BY <2>3
    <3>2. SumFunctionOnSet(h, W) = SumFunctionOnSet(g, W) + SumFunctionOnSet(e, W)
      BY <1>8, <2>4, <3>1, SumPlus
    <3> QED BY <2>5, <2>6, <3>2
  <2>8. takes <= mine + dead
    <3>1. ASSUME NEW l \in W PROVE f[l] <= h[l]
      <4>1. f[l] \in Nat /\ f[l] <= a[l] + (IF l = t THEN dead ELSE 0) /\ (l \notin low => f[l] = 0)
        BY <1>13
      <4>2. CASE l \in low
        BY <2>3, <4>1, <4>2
      <4>3. CASE l \notin low
        <5>1. g[l] = 0 /\ e[l] \in Nat /\ h[l] = g[l] + e[l]
          BY <2>3, <4>3
        <5> QED BY <4>1, <4>3, <5>1
      <4> QED BY <4>2, <4>3
    <3>2. SumFunctionOnSet(f, W) <= SumFunctionOnSet(h, W)
      BY <1>8, <2>4, <3>1, SumLarger
    <3> QED BY <1>12, <2>7, <3>2
  <2>9. ASSUME Beats(x, live, p) PROVE takes >= mine
    <3>1. ASSUME NEW l \in W PROVE g[l] <= f[l]
      <4>1. f[l] \in Nat /\ (l \in low => f[l] = a[l] + (IF l = t THEN dead ELSE 0))
        BY <1>13, <2>9
      <4>2. a[l] \in Nat /\ dead \in Nat /\ g[l] = (IF l \in low THEN a[l] ELSE 0)
        BY <1>5, <1>8, <2>3
      <4> QED BY <4>1, <4>2
    <3>2. SumFunctionOnSet(g, W) <= SumFunctionOnSet(f, W)
      BY <1>8, <2>4, <3>1, SumLarger
    <3> QED BY <1>9, <1>12, <1>14, <2>5, <3>2
  <2>10. Matched(p, c) \in Nat
    BY MatchedIs
  <2>11. c[p] + Matched(p, c) = mine
    BY <1>1, <1>3, <2>10
  <2> QED BY <1>1, <1>14, <2>8, <2>9, <2>11
<1> QED BY <1>14, <1>15, <1>16

\* A showdown pays fairly (AwardPots).
LEMMA AwardPotsFair ==
  ASSUME NEW x \in PokerState, NEW live \in SUBSET Player, Contested(x.contributed, live),
         NEW y, y = AwardPots(x, live)
  PROVE  /\ PaysFairly(Stack(x), y, live) /\ y.contributed = x.contributed /\ y.strength = x.strength
<1>1. PICK c : c = x.contributed
  OBVIOUS
<1>2. c \in [Player -> Nat] /\ x.strength \in [Player -> Int] /\ \A p \in Player : x.chips[p] \in Nat /\ c[p] \in Nat
  BY <1>1 DEF PokerState, Purse
<1>3. PICK pots : pots = SidePots(x, live)
  OBVIOUS
<1>4. PICK takes : takes = [p \in Player |-> SumFunction([l \in DOMAIN pots |-> Taken(x, pots[l], p)])]
  OBVIOUS
<1>5. PICK ch, rest : /\ ch = [p \in Player |-> x.chips[p] + SumFunction([l \in DOMAIN pots |-> Taken(x, pots[l], p)])]
                      /\ rest = x.pool - SumFunction([l \in DOMAIN pots |-> pots[l].amount])
  OBVIOUS
<1>6. y = [x EXCEPT !.chips = ch, !.pool = rest]
  BY <1>3, <1>5 DEF AwardPots
<1>7. y.chips = ch /\ y.contributed = c /\ y.strength = x.strength
  BY <1>1, <1>6 DEF PokerState
<1>8. \A p \in Player : ch[p] = x.chips[p] + takes[p]
  BY <1>4, <1>5
<1>9. ASSUME NEW p \in Player
      PROVE  /\ y.chips[p] - Stack(x)[p] <= Matched(p, y.contributed) + DeadMoney(live, y.contributed)
             /\ Beats(y, live, p) => y.chips[p] - Stack(x)[p] >= Matched(p, y.contributed)
  <2>1. PICK k : k = takes[p]
    OBVIOUS
  <2>2. k = SumFunction([l \in DOMAIN pots |-> Taken(x, pots[l], p)])
    BY <1>4, <2>1
  <2>3. PICK m, dead : m = Matched(p, c) /\ dead = DeadMoney(live, c)
    OBVIOUS
  <2>4. Contested(c, live) /\ Two(live)
    BY <1>1 DEF Contested
  <2>5. k \in Nat /\ k <= c[p] + m + dead /\ (Beats(x, live, p) => k >= c[p] + m)
    BY <1>1, <1>2, <1>3, <2>2, <2>3, <2>4, TakesFairly
  <2>6. m \in Nat
    BY <1>2, <2>3, MatchedIs
  <2>7. dead \in Nat
    <3>1. PICK a : a = [l \in Range(c) \ {0} |-> LayerOf(c, l)]
      OBVIOUS
    <3>2. Layers(a, c)
      BY <3>1 DEF Layers, LayerOf
    <3> QED BY <1>2, <2>3, <2>4, <3>2, DeadMoneyIs
  <2>8. Stack(x)[p] = x.chips[p] + c[p] /\ y.chips[p] = x.chips[p] + k
    BY <1>1, <1>7, <1>8, <2>1 DEF Stack
  <2>9. Beats(y, live, p) <=> Beats(x, live, p)
    BY <1>7 DEF Beats
  <2>10. x.chips[p] \in Nat /\ c[p] \in Nat
    BY <1>2
  <2>11. y.chips[p] - Stack(x)[p] = k - c[p]
    BY <2>5, <2>8, <2>10
  <2> QED BY <1>7, <2>3, <2>5, <2>6, <2>7, <2>9, <2>10, <2>11
<1> QED BY <1>1, <1>7, <1>9 DEF PaysFairly

\* So does a hand that all but one folded (AwardUncontested).
LEMMA AwardUncontestedFair ==
  ASSUME NEW x \in PokerState, PutIn(x) = x.pool, NEW w \in Player, NEW y, y = AwardUncontested(x, w)
  PROVE  PaysFairly(Stack(x), y, {w}) /\ y.contributed = x.contributed
<1>1. PICK c, ch0 : c = x.contributed /\ ch0 = x.chips
  OBVIOUS
<1>2. /\ c \in [Player -> Nat] /\ x.pool \in Nat /\ \A p \in Player : ch0[p] \in Nat /\ c[p] \in Nat
      /\ IsFiniteSet(Player) /\ IntsOn(c, Player)
  BY <1>1, PokerAssumption DEF PokerState, Purse, IntsOn
<1>3. PICK u : u = [p \in Player |-> IF p # w /\ c[p] > c[w] THEN c[p] - c[w] ELSE 0]
  OBVIOUS
<1>4. PICK back : back = SumFunction(u)
  OBVIOUS
<1>5. PICK ch : ch = [p \in Player |-> ch0[p] + u[p] + IF p = w THEN x.pool - back ELSE 0]
  OBVIOUS
<1>6. y = [x EXCEPT !.chips = ch, !.pool = 0]
  BY <1>1, <1>3, <1>4, <1>5 DEF AwardUncontested
<1>7. y.chips = ch /\ y.contributed = c
  BY <1>1, <1>6 DEF PokerState
<1>8. PICK d : d = CutAt(c, c[w])
  OBVIOUS
<1>9. ASSUME NEW p \in Player
      PROVE  u[p] \in Nat /\ d[p] \in Nat /\ c[p] = u[p] + d[p] /\ (p = w => u[p] = 0)
  <2>1. u[p] = (IF p # w /\ c[p] > c[w] THEN c[p] - c[w] ELSE 0) /\ d[p] = IF c[p] <= c[w] THEN c[p] ELSE c[w]
    BY <1>3, <1>8 DEF CutAt
  <2> QED BY <1>2, <2>1
<1>10. IntsOn(u, Player) /\ IntsOn(d, Player)
  BY <1>9 DEF IntsOn
<1>11. back = SumFunctionOnSet(u, Player)
  <2>1. DOMAIN u = Player
    BY <1>3
  <2> QED BY <1>4, <2>1 DEF SumFunction
<1>12. SumFunctionOnSet(c, Player) = back + SumFunctionOnSet(d, Player)
  BY <1>2, <1>9, <1>10, <1>11, SumPlus
<1>13. PICK m : m = Matched(w, c)
  OBVIOUS
<1>14. m \in Nat /\ SumFunctionOnSet(d, Player) = m + c[w]
  BY <1>2, <1>8, <1>13, MatchedIs
<1>15. back \in Int
  BY <1>2, <1>10, <1>11, SumType
<1>16. x.pool = back + (m + c[w])
  BY <1>1, <1>12, <1>14 DEF PutIn
<1>17. ch[w] = ch0[w] + c[w] + m
  <2>1. ch[w] = ch0[w] + u[w] + (x.pool - back) /\ u[w] = 0
    BY <1>5, <1>9
  <2>2. x.pool - back = m + c[w]
    BY <1>2, <1>14, <1>15, <1>16
  <2> QED BY <1>2, <1>14, <2>1, <2>2
<1>18. DeadMoney({w}, c) = 0
  BY FS_Singleton DEF DeadMoney
<1>19. ASSUME NEW p \in Player
       PROVE  /\ y.chips[p] - Stack(x)[p] <= Matched(p, y.contributed) + DeadMoney({w}, y.contributed)
              /\ Beats(y, {w}, p) => y.chips[p] - Stack(x)[p] >= Matched(p, y.contributed)
  <2>1. PICK k : k = Matched(p, c)
    OBVIOUS
  <2>2. k \in Nat
    BY <1>2, <2>1, MatchedIs
  <2>3. Stack(x)[p] = ch0[p] + c[p] /\ ch0[p] \in Nat /\ c[p] \in Nat
    BY <1>1, <1>2 DEF Stack
  <2>4. CASE p = w
    <3>1. y.chips[p] - Stack(x)[p] = k
      BY <1>7, <1>13, <1>14, <1>17, <2>1, <2>2, <2>3, <2>4
    <3> QED BY <1>7, <1>18, <2>1, <2>2, <3>1
  <2>5. CASE p # w
    <3>1. ch[p] = ch0[p] + u[p]
      BY <1>2, <1>5, <1>9, <2>5
    <3>2. u[p] \in Nat /\ d[p] \in Nat /\ c[p] = u[p] + d[p]
      BY <1>9
    <3>3. y.chips[p] - Stack(x)[p] <= 0
      BY <1>7, <2>3, <3>1, <3>2
    <3>4. y.chips[p] - Stack(x)[p] \in Int
      BY <1>7, <2>3, <3>1, <3>2
    <3>5. ~Beats(y, {w}, p)
      BY <2>5 DEF Beats
    <3> QED BY <1>7, <1>18, <2>1, <2>2, <3>3, <3>4, <3>5
  <2> QED BY <2>4, <2>5
<1> QED BY <1>1, <1>7, <1>19 DEF PaysFairly

-----------------------------------------------------------------------------
(* Every way a hand ends pays fairly *)

\* A hand that is over was paid fairly, against the stacks b the players brought to hand n.
Pays(o, b, n, seats, left) ==
  o.x.handComplete => /\ o.x.handNumber = n
                      /\ PaysFairly(b, o.x, Contenders(o.x, seats, left))

\* y has what a payment and the next hand look at from x.
PaidLike(x, y) ==
  /\ y.chips = x.chips /\ y.contributed = x.contributed /\ y.strength = x.strength
  /\ y.folded = x.folded /\ y.allIn = x.allIn /\ y.handNumber = x.handNumber

LEMMA FinishHandPaysNone ==
  ASSUME NEW x \in PokerState, NEW seats, NEW o \in FinishHand(x, seats)
  PROVE  PaidLike(x, o.x)
<1>1. PICK m, b : /\ m = (x.matchComplete \/ (x.handNumber >= HandsTotal \/ Cardinality(Funded(x, seats)) <= 1))
                  /\ b = [p \in Player |-> IF p \in ToSet(seats) /\ x.chips[p] = 0 /\ x.bustedAt[p] = 0
                                           THEN x.handNumber ELSE x.bustedAt[p]]
  OBVIOUS
<1>2. PICK z : z = [x EXCEPT !.bustedAt = b]
  OBVIOUS
<1>3. RecordBustouts(x, seats) = z
  BY <1>1, <1>2 DEF RecordBustouts
<1>4. z.matchComplete = x.matchComplete
  BY <1>2 DEF PokerState
<1>5. PICK y : y = [z EXCEPT !.handComplete = TRUE, !.street = "Showdown", !.matchComplete = m]
  OBVIOUS
<1>6. o.x = y
  BY <1>1, <1>3, <1>4, <1>5 DEF FinishHand, To
<1>7. PaidLike(x, y)
  BY <1>2, <1>5 DEF PaidLike, PokerState
<1> QED BY <1>6, <1>7

LEMMA LikePaysFairly ==
  ASSUME NEW b, NEW x, NEW y, NEW live, PaysFairly(b, x, live), PaidLike(x, y)
  PROVE  PaysFairly(b, y, live)
BY DEF PaysFairly, PaidLike, Beats

LEMMA StacksAre ==
  ASSUME NEW x, NEW y, \A q \in Player : y.chips[q] + y.contributed[q] = x.chips[q] + x.contributed[q]
  PROVE  Stack(y) = Stack(x)
BY DEF Stack

\* The last one who did not fold is paid fairly (FoldedOut).
LEMMA FoldedOutPays ==
  ASSUME NEW x \in PokerState, PutIn(x) = x.pool, NEW seats, NEW left, NEW w \in Player,
         Contenders(x, seats, left) = {w}, NEW o \in FoldedOut(x, seats, w)
  PROVE  Pays(o, Stack(x), x.handNumber, seats, left)
<1>1. PICK y : y = AwardUncontested(x, w)
  OBVIOUS
<1>2. Settled(x, y)
  BY <1>1, AwardUncontestedSettles
<1>3. PaysFairly(Stack(x), y, {w})
  BY <1>1, AwardUncontestedFair
<1>4. PICK s \in Strengths(x) : o \in FinishHand([y EXCEPT !.strength = s], seats)
  BY <1>1 DEF FoldedOut
<1>5. PICK z : z = [y EXCEPT !.strength = s]
  OBVIOUS
<1>6. s \in Purse
  BY StrengthsTyped
<1>7. y \in PokerState /\ y.folded = x.folded /\ y.allIn = x.allIn /\ y.handNumber = x.handNumber
  BY <1>2 DEF Settled, PokerState
<1>8. /\ z \in PokerState /\ z.chips = y.chips /\ z.contributed = y.contributed
      /\ z.folded = x.folded /\ z.allIn = x.allIn /\ z.handNumber = x.handNumber
  BY <1>5, <1>6, <1>7 DEF PokerState
<1>9. \A p : Beats(z, {w}, p) => Beats(y, {w}, p)
  BY DEF Beats
<1>10. PaysFairly(Stack(x), z, {w})
  BY <1>3, <1>8, <1>9 DEF PaysFairly
<1>11. PaidLike(z, o.x)
  BY <1>4, <1>5, <1>8, FinishHandPaysNone
<1>12. PaysFairly(Stack(x), o.x, {w})
  BY <1>10, <1>11, LikePaysFairly
<1>13. o.x.handNumber = x.handNumber /\ o.x.folded = x.folded /\ o.x.allIn = x.allIn
  BY <1>8, <1>11 DEF PaidLike
<1>14. Contenders(o.x, seats, left) = {w}
  BY <1>13 DEF Contenders
<1> QED BY <1>12, <1>13, <1>14 DEF Pays

\* So is everybody at a showdown, once what nobody called went back (ShownDown).
LEMMA ShownDownPays ==
  ASSUME NEW x \in PokerState, PutIn(x) = x.pool, NEW seats \in Seq(Player), NEW left,
         Two(Contenders(x, seats, left)), \A p \in Contenders(x, seats, left) : x.contributed[p] > 0,
         NEW o \in ShownDown(x, seats, left)
  PROVE  Pays(o, Stack(x), x.handNumber, seats, left)
<1>1. PICK live, y : live = Contenders(x, seats, left) /\ y = RefundUncalled(x)
  OBVIOUS
<1>2. live \in SUBSET Player /\ Player # {} /\ Two(live)
  BY <1>1, ContendersFinite DEF Two
<1>3. Refunded(x, y)
  BY <1>1, <1>2, RefundUncalledRefunds
<1>4. PICK s \in Strengths(x) : o \in FinishHand(AwardPots([y EXCEPT !.strength = s, !.shown = TRUE], live), seats)
  BY <1>1 DEF ShownDown
<1>5. PICK z : z = [y EXCEPT !.strength = s, !.shown = TRUE]
  OBVIOUS
<1>6. s \in Purse
  BY StrengthsTyped
<1>7. /\ y \in PokerState /\ PutIn(y) = y.pool
      /\ y.folded = x.folded /\ y.allIn = x.allIn /\ y.handNumber = x.handNumber
  BY <1>3 DEF Refunded, PokerState
<1>8. /\ z \in PokerState /\ z.pool = y.pool /\ z.chips = y.chips /\ z.contributed = y.contributed
      /\ z.folded = x.folded /\ z.allIn = x.allIn /\ z.handNumber = x.handNumber
  BY <1>5, <1>6, <1>7 DEF PokerState
<1>9. PutIn(z) = z.pool
  BY <1>7, <1>8 DEF PutIn
<1>10. Contested(z.contributed, live)
  <2>1. PICK a \in live, b \in live : a # b
    BY <1>2 DEF Two
  <2>2. x.contributed[a] > 0 /\ x.contributed[b] > 0 /\ a \in Player /\ b \in Player
    BY <1>1, <1>2, <2>1
  <2>3. y.contributed[a] > 0 \/ y.contributed[b] > 0
    BY <1>3, <2>1, <2>2 DEF Refunded
  <2> QED BY <1>2, <1>8, <2>1, <2>3 DEF Contested
<1>11. PICK v : v = AwardPots(z, live)
  OBVIOUS
<1>12. PaysFairly(Stack(z), v, live)
  BY <1>2, <1>8, <1>10, <1>11, AwardPotsFair
<1>13. Stack(z) = Stack(x)
  <2>1. \A q \in Player : z.chips[q] + z.contributed[q] = x.chips[q] + x.contributed[q]
    BY <1>3, <1>8 DEF Refunded
  <2> QED BY <2>1, StacksAre
<1>14. Settled(z, v)
  <2>1. \E q \in live : z.contributed[q] > 0
    BY <1>10 DEF Contested
  <2> QED BY <1>2, <1>8, <1>9, <1>11, <2>1, AwardPotsSettles
<1>15. v \in PokerState /\ v.folded = x.folded /\ v.allIn = x.allIn /\ v.handNumber = x.handNumber
  BY <1>8, <1>14 DEF Settled, PokerState
<1>16. PaidLike(v, o.x)
  BY <1>4, <1>5, <1>11, <1>15, FinishHandPaysNone
<1>17. PaysFairly(Stack(x), o.x, live)
  BY <1>12, <1>13, <1>16, LikePaysFairly
<1>18. o.x.handNumber = x.handNumber /\ o.x.folded = x.folded /\ o.x.allIn = x.allIn
  BY <1>15, <1>16 DEF PaidLike
<1>19. Contenders(o.x, seats, left) = live
  BY <1>1, <1>18 DEF Contenders
<1> QED BY <1>17, <1>18, <1>19 DEF Pays

\* So is everybody in a hand that a settled street ends (SettleAndAdvance).
LEMMA SettledPays ==
  ASSUME NEW x, NEW seats \in Seq(Player), NEW left, NEW total, NEW turn,
         Betting(x, seats, left, total), Two(Contenders(x, seats, left)),
         \A p \in Contenders(x, seats, left) : x.contributed[p] > 0,
         NEW o \in SettleAndAdvance(x, seats, left, turn)
  PROVE  Pays(o, Stack(x), x.handNumber, seats, left)
<1>1. x \in PokerState /\ PutIn(x) = x.pool /\ ~x.handComplete /\ BigBlind \in Nat
  BY PokerAssumption DEF Betting
<1>2. PICK be, ac : /\ be = [p \in Player |-> IF p \in ToSet(seats) THEN 0 ELSE x.bets[p]]
                    /\ ac = x.acted \ ToSet(seats)
  OBVIOUS
<1>3. be \in Purse /\ ac \in SUBSET Player
  <2>1. \A p \in Player : be[p] \in Nat
    BY <1>1, <1>2 DEF PokerState, Purse
  <2> QED BY <1>1, <1>2, <2>1 DEF PokerState, Purse
<1>4. PICK s : s = [x EXCEPT !.bets = be, !.acted = ac, !.currentBet = 0, !.minRaise = BigBlind,
                             !.boardOut = TRUE]
  OBVIOUS
<1>5. /\ s \in PokerState /\ s.chips = x.chips /\ s.pool = x.pool /\ s.contributed = x.contributed
      /\ s.folded = x.folded /\ s.allIn = x.allIn /\ s.handNumber = x.handNumber
      /\ s.handComplete = x.handComplete
  BY <1>1, <1>3, <1>4 DEF PokerState
<1>6. PICK over \in BOOLEAN :
        over <=> (x.street = "River" \/ Cardinality({p \in ToSet(seats) : ~CannotAct(x, p)}) < 2)
  OBVIOUS
<1>7. o \in (IF over THEN ShownDown(s, seats, left)
             ELSE {To([s EXCEPT !.street = StreetAfter(@)], FirstToActPostflop(s, seats, turn))})
  BY <1>2, <1>4, <1>6 DEF SettleAndAdvance
<1>8. CASE over
  <2>1. Contenders(s, seats, left) = Contenders(x, seats, left)
    BY <1>5 DEF Contenders
  <2>2. PutIn(s) = s.pool
    BY <1>1, <1>5 DEF PutIn
  <2>3. Pays(o, Stack(s), s.handNumber, seats, left)
    BY <1>5, <1>7, <1>8, <2>1, <2>2, ShownDownPays
  <2>4. Stack(s) = Stack(x)
    BY <1>5 DEF Stack
  <2> QED BY <1>5, <2>3, <2>4
<1>9. CASE ~over
  <2>1. o.x = [s EXCEPT !.street = StreetAfter(@)]
    BY <1>7, <1>9 DEF To
  <2>2. ~o.x.handComplete
    BY <1>1, <1>5, <2>1 DEF PokerState
  <2> QED BY <2>2 DEF Pays
<1> QED BY <1>8, <1>9

\* So is everybody in a hand that a move or a leaver ends (AfterBetting, AfterPlayerRemoved).
LEMMA HandPays ==
  ASSUME NEW x, NEW seats \in Seq(Player), NEW left, NEW total, NEW turn, NEW seat,
         Betting(x, seats, left, total), NEW live, live = Contenders(x, seats, left), live # {},
         NEW o \in (IF Cardinality(live) = 1 THEN FoldedOut(x, seats, CHOOSE p \in live : TRUE)
                    ELSE IF BettingRoundComplete(x, seats) THEN SettleAndAdvance(x, seats, left, turn)
                    ELSE {To(x, seat)})
  PROVE  Pays(o, Stack(x), x.handNumber, seats, left)
<1>1. x \in PokerState /\ PutIn(x) = x.pool /\ ~x.handComplete
  BY DEF Betting
<1>2. live \in SUBSET Player /\ IsFiniteSet(live)
  BY <1>1, ContendersFinite
<1>3. CASE Cardinality(live) = 1
  <2>1. PICK w : w = CHOOSE p \in live : TRUE
    OBVIOUS
  <2>2. w \in live /\ w \in Player
    BY <1>2, <2>1
  <2>3. ~Two(live)
    BY <1>2, <1>3, TwoOrFew
  <2>4. live = {w}
    BY <2>2, <2>3 DEF Two
  <2>5. o \in FoldedOut(x, seats, w)
    BY <1>3, <2>1
  <2> QED BY <1>1, <2>2, <2>4, <2>5, FoldedOutPays
<1>4. ASSUME Cardinality(live) # 1 PROVE Two(live)
  BY <1>2, <1>4, TwoOrFew
<1>5. CASE Cardinality(live) # 1 /\ BettingRoundComplete(x, seats)
  <2>1. \A p \in Contenders(x, seats, left) : x.contributed[p] > 0
    BY <1>5, CompletePaid
  <2>2. o \in SettleAndAdvance(x, seats, left, turn)
    BY <1>5
  <2> QED BY <1>4, <1>5, <2>1, <2>2, SettledPays
<1>6. CASE Cardinality(live) # 1 /\ ~BettingRoundComplete(x, seats)
  <2>1. o.x = x
    BY <1>6 DEF To
  <2> QED BY <1>1, <2>1 DEF Pays
<1> QED BY <1>3, <1>5, <1>6

\* So is everybody in a hand that a bet ends (AfterBetting).
LEMMA MovePays ==
  ASSUME NEW x, NEW y, NEW seats \in Seq(Player), NEW left, NEW total, NEW t,
         Two(Contenders(x, seats, left)), Moved(x, y, seats, left, total, t),
         NEW o \in AfterBetting(y, seats, left, t)
  PROVE  Pays(o, Stack(y), y.handNumber, seats, left)
<1>1. PICK live : live = Contenders(y, seats, left)
  OBVIOUS
<1>2. live # {}
  <2>1. PICK a \in Contenders(x, seats, left), b \in Contenders(x, seats, left) : a # b
    BY DEF Two
  <2>2. a # Who(seats, t) \/ b # Who(seats, t)
    BY <2>1
  <2> QED BY <1>1, <2>2 DEF Moved
<1>3. PICK seat : seat = NextToAct(y, seats, t)
  OBVIOUS
<1>4. o \in (IF Cardinality(live) = 1 THEN FoldedOut(y, seats, CHOOSE p \in live : TRUE)
             ELSE IF BettingRoundComplete(y, seats) THEN SettleAndAdvance(y, seats, left, t)
             ELSE {To(y, seat)})
  BY <1>1, <1>3 DEF AfterBetting
<1>5. Betting(y, seats, left, total)
  BY DEF Moved
<1> QED BY <1>1, <1>2, <1>4, <1>5, HandPays

\* Until the hand is paid, no bet changes what anybody would have if the bets were taken back.
SameStacks(x, y) == Stack(y) = Stack(x) /\ y.handNumber = x.handNumber

LEMMA PaidStacks ==
  ASSUME NEW x \in PokerState, NEW p \in Player, NEW pay \in 0..x.chips[p], NEW z, PaidInto(x, p, pay, z)
  PROVE  SameStacks(x, z)
<1>1. \A q \in Player : x.chips[q] \in Nat /\ x.contributed[q] \in Nat
  BY DEF PokerState, Purse
<1>2. \A q \in Player : z.chips[q] + z.contributed[q] = x.chips[q] + x.contributed[q]
  <2> SUFFICES ASSUME NEW q \in Player
               PROVE  z.chips[q] + z.contributed[q] = x.chips[q] + x.contributed[q]
    OBVIOUS
  <2>1. CASE q = p
    <3>1. z.chips[q] = x.chips[q] - pay /\ z.contributed[q] = x.contributed[q] + pay
      BY <2>1 DEF PaidInto
    <3> QED BY <1>1, <2>1, <3>1
  <2>2. CASE q # p
    BY <2>2 DEF PaidInto
  <2> QED BY <2>1, <2>2
<1>3. Stack(z) = Stack(x)
  BY <1>2, StacksAre
<1> QED BY <1>3 DEF SameStacks, PaidInto

LEMMA CallStacks ==
  ASSUME NEW x \in PokerState, NEW p \in Player, NEW amount \in Nat, x.bets[p] <= amount
  PROVE  SameStacks(x, Acted(CommitTo(x, p, amount), p))
<1>1. PICK pay \in 0..x.chips[p] : CommitTo(x, p, amount) = Payed(x, p, pay)
  BY CommitToIs
<1>2. PICK z : z = Payed(x, p, pay)
  OBVIOUS
<1>3. PaidInto(x, p, pay, z)
  BY <1>2, PayedFields
<1>4. SameStacks(x, z) /\ z \in PokerState
  BY <1>3, PaidStacks DEF PaidInto
<1>5. PICK y : y = Acted(z, p)
  OBVIOUS
<1>6. y.chips = z.chips /\ y.contributed = z.contributed /\ y.handNumber = z.handNumber
  BY <1>4, <1>5 DEF Acted, PokerState
<1> QED BY <1>1, <1>2, <1>4, <1>5, <1>6 DEF SameStacks, Stack

LEMMA RaiseStacks ==
  ASSUME NEW x \in PokerState, NEW p \in Player, NEW amount \in Nat, x.bets[p] <= amount, NEW seats
  PROVE  SameStacks(x, Acted(BetIncreased(CommitTo(x, p, amount), seats, p), p))
<1>1. PICK pay \in 0..x.chips[p] : CommitTo(x, p, amount) = Payed(x, p, pay)
  BY CommitToIs
<1>2. PICK z : z = Payed(x, p, pay)
  OBVIOUS
<1>3. PaidInto(x, p, pay, z)
  BY <1>2, PayedFields
<1>4. SameStacks(x, z) /\ z \in PokerState
  BY <1>3, PaidStacks DEF PaidInto
<1>5. PICK y : y = Acted(BetIncreased(z, seats, p), p)
  OBVIOUS
<1>6. PICK bet \in Nat, raise \in Nat, heard \in SUBSET Player : RoundAfter(z, p, y, bet, raise, heard)
  BY <1>4, <1>5, BetIncreasedIs
<1>7. y.chips = z.chips /\ y.contributed = z.contributed /\ y.handNumber = z.handNumber
  BY <1>4, <1>6 DEF RoundAfter, PokerState
<1> QED BY <1>1, <1>2, <1>4, <1>5, <1>7 DEF SameStacks, Stack

-----------------------------------------------------------------------------
(* The start of a hand *)

LEMMA SeatsDiffer ==
  ASSUME NEW seats \in Seq(Player), IsInjective(seats),
         NEW i \in 0..(Len(seats) - 1), NEW j \in 0..(Len(seats) - 1), i # j
  PROVE  Who(seats, i) # Who(seats, j)
<1>1. PICK n \in Nat : n = Len(seats)
  OBVIOUS
<1>2. DOMAIN seats = 1..n /\ i + 1 \in 1..n /\ j + 1 \in 1..n /\ i + 1 # j + 1
  BY <1>1
<1> QED BY <1>2 DEF Who, IsInjective

\* The next seat with chips is another one when two have chips.
LEMMA NextFundedIs ==
  ASSUME NEW x, NEW seats \in Seq(Player), IsInjective(seats), NEW from \in 0..(Len(seats) - 1),
         Two(Funded(x, seats))
  PROVE  /\ NextFundedSeat(x, seats, from) \in 0..(Len(seats) - 1)
         /\ Who(seats, NextFundedSeat(x, seats, from)) \in Funded(x, seats)
         /\ Who(seats, NextFundedSeat(x, seats, from)) # Who(seats, from)
<1>1. PICK F, n, s : F = Funded(x, seats) /\ n = Len(seats) /\ s = NextSeat(seats, from, F)
  OBVIOUS
<1>2. PICK a \in F : a # Who(seats, from)
  <2>1. PICK a \in F, b \in F : a # b
    BY <1>1 DEF Two
  <2> QED BY <2>1
<1>3. PICK j \in 0..(n - 1) : Who(seats, j) = a
  <2>1. a \in ToSet(seats)
    BY <1>1, <1>2 DEF Funded
  <2> QED BY <1>1, <2>1, SeatsAre
<1>4. Nearest(seats, from, F, s)
  BY <1>1, <1>2, <1>3, NextSeatIs
<1>5. s \in 0..(n - 1) /\ Who(seats, s) \in F /\ Ahead(from, s, n) <= Ahead(from, j, n)
  BY <1>1, <1>2, <1>3, <1>4 DEF Nearest
<1>6. s # None /\ NextFundedSeat(x, seats, from) = s
  BY <1>1, <1>5, TableAssumption DEF NextFundedSeat
<1>7. s # from
  <2>1. j # from /\ n \in Nat /\ from \in 0..(n - 1)
    BY <1>1, <1>2, <1>3
  <2>2. Ahead(from, j, n) < n /\ Ahead(from, from, n) = n
    BY <2>1 DEF Ahead
  <2> QED BY <1>5, <2>1, <2>2 DEF Ahead
<1> QED BY <1>1, <1>5, <1>6, <1>7, SeatsDiffer

\* A table between two hands, with the button for the next one at a seat with chips.
Between(x, seats, total, dealer) ==
  /\ x \in PokerState /\ Bank(x) = total /\ x.pool = 0 /\ ~x.matchComplete
  /\ seats \in Seq(Player) /\ IsInjective(seats)
  /\ dealer \in 0..(Len(seats) - 1)
  /\ Two(Funded(x, seats)) /\ Who(seats, dealer) \in Funded(x, seats)

\* The blinds come from two players who have chips.
Posts(x, seats, sb, bb) ==
  /\ sb \in 0..(Len(seats) - 1) /\ bb \in 0..(Len(seats) - 1)
  /\ Who(seats, sb) # Who(seats, bb)
  /\ Who(seats, sb) \in Funded(x, seats) /\ Who(seats, bb) \in Funded(x, seats)

\* The hand as it is dealt, before the blinds.
JustDealt(x, seats, dealer, sb, bb, d) ==
  LET broke == ToSet(seats) \ Funded(x, seats) IN
  /\ d \in PokerState /\ d.chips = x.chips /\ d.pool = 0
  /\ d.bets = Nobody /\ d.contributed = Nobody
  /\ d.folded = broke /\ d.acted = broke /\ d.allIn = {}
  /\ d.dealer = dealer /\ d.street = "PreFlop"
  /\ d.handComplete = FALSE /\ d.matchComplete = x.matchComplete /\ d.handNumber = x.handNumber + 1

LEMMA DealtIsFresh ==
  ASSUME NEW x, NEW seats, NEW total, NEW dealer, Between(x, seats, total, dealer),
         NEW sb \in Int, NEW bb \in Int, NEW broke, broke = ToSet(seats) \ Funded(x, seats)
  PROVE  JustDealt(x, seats, dealer, sb, bb,
           [ResetForHand(x) EXCEPT !.handNumber = @ + 1, !.folded = broke, !.acted = broke,
                                   !.dealer = dealer, !.sb = sb, !.bb = bb])
<1>1. x \in PokerState /\ dealer \in Int /\ broke \in SUBSET Player /\ x.handNumber \in Nat
      /\ x.handNumber + 1 \in Nat
  <2>1. ToSet(seats) \subseteq Player
    BY SeatsAre DEF Between
  <2> QED BY <2>1 DEF Between, PokerState
<1>2. Nobody \in Purse /\ BigBlind \in Nat
  BY PokerAssumption DEF Nobody, Purse
<1>3. PICK d : d = [ResetForHand(x) EXCEPT !.handNumber = @ + 1, !.folded = broke, !.acted = broke,
                                   !.dealer = dealer, !.sb = sb, !.bb = bb]
  OBVIOUS
<1>4. PICK r : r = ResetForHand(x)
  OBVIOUS
<1>5. r = [x EXCEPT !.folded = {}, !.allIn = {}, !.acted = {},
            !.bets = Nobody, !.contributed = Nobody, !.strength = Nobody,
            !.pool = 0, !.minRaise = BigBlind, !.street = "PreFlop",
            !.boardOut = FALSE, !.shown = FALSE, !.handComplete = FALSE]
  BY <1>4 DEF ResetForHand
<1>6. /\ r \in PokerState /\ r.chips = x.chips /\ r.pool = 0 /\ r.bets = Nobody /\ r.contributed = Nobody
      /\ r.allIn = {} /\ r.street = "PreFlop" /\ r.handComplete = FALSE /\ r.matchComplete = x.matchComplete
      /\ r.handNumber = x.handNumber
  BY <1>1, <1>2, <1>5 DEF PokerState, BettingStreets
<1>7. d = [r EXCEPT !.handNumber = x.handNumber + 1, !.folded = broke, !.acted = broke,
                    !.dealer = dealer, !.sb = sb, !.bb = bb]
  BY <1>3, <1>4, <1>6
<1>8. /\ d \in PokerState /\ d.chips = x.chips /\ d.pool = 0 /\ d.bets = Nobody /\ d.contributed = Nobody
      /\ d.folded = broke /\ d.acted = broke /\ d.allIn = {} /\ d.dealer = dealer /\ d.street = "PreFlop"
      /\ d.handComplete = FALSE /\ d.matchComplete = x.matchComplete /\ d.handNumber = x.handNumber + 1
  BY <1>1, <1>6, <1>7 DEF PokerState
<1> QED BY <1>3, <1>8 DEF JustDealt

\* p posts a blind: something, and all of it goes to the pool.
LEMMA BlindPaid ==
  ASSUME NEW x \in PokerState, NEW p \in Player, x.chips[p] > 0, NEW blind \in Nat \ {0}
  PROVE  \E pay \in 1..blind : pay \in 0..x.chips[p] /\ PaidInto(x, p, pay, Pay(x, p, blind))
<1>1. PICK pay : pay = Affordable(x, p, blind)
  OBVIOUS
<1>2. pay \in 0..x.chips[p] /\ Pay(x, p, blind) = Payed(x, p, pay)
  BY <1>1, PayIs
<1>3. x.chips[p] \in Nat
  BY DEF PokerState, Purse
<1>4. pay \in 1..blind
  BY <1>1, <1>3 DEF Affordable
<1>5. PaidInto(x, p, pay, Payed(x, p, pay))
  BY <1>2, PayedFields
<1> QED BY <1>2, <1>4, <1>5

\* The table once the two blinds are in (BeginHand).
Posted(d, seats, sb, bb) ==
  [Pay(Pay(d, Who(seats, sb), SmallBlind), Who(seats, bb), BigBlind) EXCEPT !.currentBet = BigBlind]

\* The betting it opens on the stacks of x.
BlindsIn(posted, x, seats, left, total, sb) ==
  /\ Betting(posted, seats, left, total) /\ Two(Contenders(posted, seats, left))
  /\ AllOwe(posted, seats)
  /\ x.chips[Who(seats, sb)] > BigBlind => Who(seats, sb) \in ToAct(posted, seats)
  /\ posted.handNumber = x.handNumber + 1
  /\ \A q \in Player : posted.chips[q] + posted.contributed[q] = x.chips[q]

\* Once the blinds are in, everybody who may act owes an action.
LEMMA BlindsOpen ==
  ASSUME NEW x, NEW seats, NEW total, NEW dealer, Between(x, seats, total, dealer), NEW left,
         NEW sb, NEW bb, Posts(x, seats, sb, bb), NEW d, JustDealt(x, seats, dealer, sb, bb, d)
  PROVE  BlindsIn(Posted(d, seats, sb, bb), x, seats, left, total, sb)
<1>0. PICK posted : posted = Posted(d, seats, sb, bb)
  OBVIOUS
<1>1. PICK P, Q : P = Who(seats, sb) /\ Q = Who(seats, bb)
  OBVIOUS
<1>2. PICK F : F = Funded(x, seats)
  OBVIOUS
<1>3. /\ seats \in Seq(Player) /\ P # Q /\ P \in F /\ Q \in F /\ P \in Player /\ Q \in Player
      /\ ToSet(seats) \subseteq Player /\ F \subseteq ToSet(seats)
      /\ \A q \in F : x.chips[q] > 0
  BY <1>1, <1>2, SeatsAre DEF Between, Posts, Funded
<1>4. SmallBlind \in Nat \ {0} /\ BigBlind \in Nat \ {0} /\ SmallBlind <= BigBlind
  BY PokerAssumption
<1>5. /\ d \in PokerState /\ d.chips = x.chips /\ d.pool = 0 /\ d.bets = Nobody /\ d.contributed = Nobody
      /\ d.folded = ToSet(seats) \ F /\ d.acted = ToSet(seats) \ F /\ d.allIn = {} /\ d.dealer = dealer
      /\ d.street = "PreFlop" /\ ~d.handComplete /\ ~d.matchComplete /\ d.handNumber = x.handNumber + 1
  BY <1>2 DEF JustDealt, Between
<1>6. Bank(d) = total /\ PutIn(d) = d.pool
  <2>1. Bank(d) = Bank(x)
    BY <1>5 DEF Bank, Between
  <2>2. SumFunctionOnSet(Nobody, Player) = 0
    BY PokerAssumption, SumOfNothing DEF Nobody
  <2> QED BY <1>5, <2>1, <2>2 DEF Between, PutIn
<1>7. PICK a, b : a = Pay(d, P, SmallBlind) /\ b = Pay(a, Q, BigBlind)
  OBVIOUS
<1>8. PICK small \in 1..SmallBlind : small \in 0..d.chips[P] /\ PaidInto(d, P, small, a)
  BY <1>3, <1>4, <1>5, <1>7, BlindPaid
<1>9. a \in PokerState /\ a.chips[Q] = x.chips[Q]
  BY <1>3, <1>5, <1>8 DEF PaidInto
<1>10. PICK big \in 1..BigBlind : big \in 0..a.chips[Q] /\ PaidInto(a, Q, big, b)
  BY <1>3, <1>4, <1>7, <1>9, BlindPaid
<1>11. posted = [b EXCEPT !.currentBet = BigBlind]
  BY <1>0, <1>1, <1>7 DEF Posted
<1>12. /\ posted \in PokerState /\ posted.chips = b.chips /\ posted.bets = b.bets
       /\ posted.contributed = b.contributed /\ posted.pool = b.pool /\ posted.currentBet = BigBlind
       /\ posted.folded = ToSet(seats) \ F /\ posted.acted = ToSet(seats) \ F /\ posted.allIn = b.allIn
       /\ posted.dealer = dealer /\ posted.street = "PreFlop" /\ ~posted.handComplete /\ ~posted.matchComplete
       /\ posted.handNumber = x.handNumber + 1
  <2>1. /\ b \in PokerState /\ b.folded = d.folded /\ b.acted = d.acted
        /\ b.dealer = d.dealer /\ b.street = d.street
        /\ b.handComplete = d.handComplete /\ b.matchComplete = d.matchComplete
        /\ b.handNumber = d.handNumber
    BY <1>8, <1>10 DEF PaidInto
  <2> QED BY <1>4, <1>5, <1>11, <2>1 DEF PokerState
<1>13. Bank(posted) = total /\ PutIn(posted) = posted.pool
  <2>1. Bank(b) = total /\ PutIn(b) = b.pool
    BY <1>6, <1>8, <1>10 DEF PaidInto
  <2> QED BY <1>12, <2>1 DEF Bank, PutIn
<1>14. \A q \in Player : d.bets[q] = 0 /\ d.contributed[q] = 0 /\ x.chips[q] \in Nat
  BY <1>5 DEF Nobody, PokerState, Purse
<1>15. /\ b.bets[P] = small /\ b.contributed[P] = small /\ b.chips[P] = x.chips[P] - small
       /\ b.bets[Q] = big /\ b.contributed[Q] = big /\ b.chips[Q] = x.chips[Q] - big
       /\ small \in Nat /\ big \in Nat /\ small > 0 /\ big > 0 /\ small <= BigBlind /\ big <= BigBlind
  <2>1. a.bets[P] = 0 + small /\ a.contributed[P] = 0 + small /\ a.chips[P] = x.chips[P] - small
        /\ a.bets[Q] = 0 /\ a.contributed[Q] = 0
    BY <1>3, <1>5, <1>8, <1>14 DEF PaidInto
  <2>2. b.bets[P] = a.bets[P] /\ b.contributed[P] = a.contributed[P] /\ b.chips[P] = a.chips[P]
        /\ b.bets[Q] = a.bets[Q] + big /\ b.contributed[Q] = a.contributed[Q] + big
        /\ b.chips[Q] = a.chips[Q] - big
    BY <1>3, <1>10 DEF PaidInto
  <2> QED BY <1>4, <1>9, <2>1, <2>2
<1>16. \A q \in Player \ {P, Q} : b.bets[q] = 0 /\ b.contributed[q] = 0 /\ b.chips[q] = x.chips[q]
  <2> SUFFICES ASSUME NEW q \in Player \ {P, Q}
               PROVE  b.bets[q] = 0 /\ b.contributed[q] = 0 /\ b.chips[q] = x.chips[q]
    OBVIOUS
  <2>1. a.bets[q] = d.bets[q] /\ a.contributed[q] = d.contributed[q] /\ a.chips[q] = d.chips[q]
    BY <1>8 DEF PaidInto
  <2>2. b.bets[q] = a.bets[q] /\ b.contributed[q] = a.contributed[q] /\ b.chips[q] = a.chips[q]
    BY <1>10 DEF PaidInto
  <2> QED BY <1>5, <1>14, <2>1, <2>2
<1>17. \A q \in b.allIn : q = P \/ q = Q
  <2>1. \A q \in a.allIn : q = P
    BY <1>5, <1>8 DEF PaidInto
  <2> QED BY <1>10, <2>1 DEF PaidInto
<1>18. (x.chips[P] = small => P \in b.allIn) /\ (x.chips[Q] = big => Q \in b.allIn)
  <2>1. x.chips[P] = small => P \in a.allIn
    BY <1>5, <1>8 DEF PaidInto
  <2>2. a.allIn \subseteq b.allIn /\ (x.chips[Q] = big => Q \in b.allIn)
    BY <1>9, <1>10 DEF PaidInto
  <2> QED BY <2>1, <2>2
<1>19. \A q \in Player : posted.bets[q] <= posted.contributed[q] /\ posted.bets[q] <= posted.currentBet
  <2> SUFFICES ASSUME NEW q \in Player
               PROVE  b.bets[q] <= b.contributed[q] /\ b.bets[q] <= BigBlind
    BY <1>12
  <2>1. CASE q = P
    BY <1>4, <1>15, <2>1
  <2>2. CASE q = Q
    BY <1>4, <1>15, <2>2
  <2>3. CASE q \notin {P, Q}
    BY <1>4, <1>16, <2>3
  <2> QED BY <2>1, <2>2, <2>3
<1>20. \A q \in ToSet(seats) : posted.chips[q] = 0 /\ q \notin posted.folded => q \in posted.allIn
  <2> SUFFICES ASSUME NEW q \in F, b.chips[q] = 0 PROVE q \in b.allIn
    BY <1>12
  <2>0. q \in Player /\ x.chips[q] > 0 /\ x.chips[q] \in Nat /\ x.chips[P] \in Nat /\ x.chips[Q] \in Nat
    BY <1>3, <1>14
  <2>1. CASE q = P
    <3>1. x.chips[P] = small
      BY <1>15, <2>0, <2>1
    <3> QED BY <1>18, <2>1, <3>1
  <2>2. CASE q = Q
    <3>1. x.chips[Q] = big
      BY <1>15, <2>0, <2>2
    <3> QED BY <1>18, <2>2, <3>1
  <2>3. CASE q \notin {P, Q}
    BY <1>16, <2>0, <2>3
  <2> QED BY <2>1, <2>2, <2>3
<1>21. \A q \in posted.allIn : posted.contributed[q] > 0
  BY <1>12, <1>15, <1>17
<1>22. Two(Contenders(posted, seats, left))
  <2>1. P \in Contenders(posted, seats, left) /\ Q \in Contenders(posted, seats, left)
    BY <1>3, <1>12 DEF Contenders
  <2> QED BY <1>3, <2>1 DEF Two
<1>23. Betting(posted, seats, left, total)
  <2>1. \A q \in ToSet(seats) : posted.bets[q] <= posted.currentBet
    BY <1>3, <1>19
  <2>2. posted.street \in BettingStreets /\ posted.dealer \in 0..(Len(seats) - 1) /\ posted.currentBet # 0
    BY <1>4, <1>12 DEF BettingStreets, Between
  <2> QED BY <1>12, <1>13, <1>19, <1>20, <1>21, <2>1, <2>2 DEF Betting
<1>24. AllOwe(posted, seats)
  BY <1>12 DEF AllOwe, CannotAct, Owes
<1>25. ASSUME x.chips[P] > BigBlind PROVE P \in ToAct(posted, seats)
  <2>1. x.chips[P] # small /\ x.chips[P] \in Nat /\ b.chips[P] # 0
    BY <1>3, <1>4, <1>14, <1>15, <1>25
  <2>2. P \notin b.allIn
    BY <1>3, <1>5, <1>8, <1>10, <2>1 DEF PaidInto
  <2>3. ~CannotAct(posted, P)
    BY <1>3, <1>12, <2>1, <2>2 DEF CannotAct
  <2> QED BY <1>3, <1>24, <2>3 DEF AllOwe, ToAct
<1>26. \A q \in Player : posted.chips[q] + posted.contributed[q] = x.chips[q]
  <2> SUFFICES ASSUME NEW q \in Player PROVE b.chips[q] + b.contributed[q] = x.chips[q]
    BY <1>12
  <2>1. CASE q = P
    BY <1>3, <1>14, <1>15, <2>1
  <2>2. CASE q = Q
    BY <1>3, <1>14, <1>15, <2>2
  <2>3. CASE q \notin {P, Q}
    BY <1>14, <1>16, <2>3
  <2> QED BY <2>1, <2>2, <2>3
<1> QED BY <1>0, <1>1, <1>12, <1>22, <1>23, <1>24, <1>25, <1>26 DEF BlindsIn

\* A hand that begins has somebody on turn, or the blinds put all but one all in and it is
\* shown down at once; never the latter with stacks above the big blind (BeginHand).
LEMMA BeginHandDeals ==
  ASSUME NEW x, NEW seats, NEW total, NEW dealer, Between(x, seats, total, dealer), NEW left,
         NEW o \in BeginHand(x, seats, left, dealer)
  PROVE  /\ Goes(o, seats, left, total) \/ Ends(o, seats, total)
         /\ (\A p \in ToSet(seats) : x.chips[p] > BigBlind) => Goes(o, seats, left, total)
         /\ Pays(o, x.chips, x.handNumber + 1, seats, left)
<1>1. PICK headsUp \in BOOLEAN : headsUp <=> Cardinality(Funded(x, seats)) = 2
  OBVIOUS
<1>2. PICK sb : sb = IF headsUp THEN dealer ELSE NextFundedSeat(x, seats, dealer)
  OBVIOUS
<1>3. PICK bb : bb = NextFundedSeat(x, seats, sb)
  OBVIOUS
<1>4. PICK broke : broke = ToSet(seats) \ Funded(x, seats)
  OBVIOUS
<1>5. PICK d : d = [ResetForHand(x) EXCEPT !.handNumber = @ + 1, !.folded = broke, !.acted = broke,
                                           !.dealer = dealer, !.sb = sb, !.bb = bb]
  OBVIOUS
<1>6. PICK posted : posted = Posted(d, seats, sb, bb)
  OBVIOUS
<1>7. PICK first : first = IF headsUp /\ ~CannotAct(posted, Who(seats, dealer)) THEN dealer
                           ELSE NextToAct(posted, seats, bb)
  OBVIOUS
<1>8. headsUp = (Cardinality(Funded(x, seats)) = 2)
  BY <1>1
<1>9. BeginHand(x, seats, left, dealer) =
        IF first # None THEN {To(posted, first)} ELSE SettleAndAdvance(posted, seats, left, dealer)
  BY <1>2, <1>3, <1>4, <1>5, <1>6, <1>7, <1>8 DEF BeginHand, Posted
<1>10. seats \in Seq(Player) /\ IsInjective(seats) /\ dealer \in 0..(Len(seats) - 1) /\ Two(Funded(x, seats))
  BY DEF Between
<1>11. sb \in 0..(Len(seats) - 1) /\ Who(seats, sb) \in Funded(x, seats)
  BY <1>2, <1>10, NextFundedIs DEF Between
<1>12. Posts(x, seats, sb, bb)
  BY <1>3, <1>10, <1>11, NextFundedIs DEF Posts
<1>13. bb \in 0..(Len(seats) - 1) /\ sb \in Int /\ bb \in Int
  BY <1>11, <1>12 DEF Posts
<1>14. JustDealt(x, seats, dealer, sb, bb, d)
  BY <1>4, <1>5, <1>13, DealtIsFresh
<1>15. /\ Betting(posted, seats, left, total) /\ Two(Contenders(posted, seats, left)) /\ AllOwe(posted, seats)
       /\ x.chips[Who(seats, sb)] > BigBlind => Who(seats, sb) \in ToAct(posted, seats)
       /\ posted.handNumber = x.handNumber + 1
       /\ \A q \in Player : posted.chips[q] + posted.contributed[q] = x.chips[q]
  <2>1. BlindsIn(posted, x, seats, left, total, sb)
    BY <1>6, <1>12, <1>14, BlindsOpen
  <2> QED BY <2>1 DEF BlindsIn
<1>18. Stack(posted) = x.chips
  <2>1. x.chips \in [Player -> Nat]
    BY DEF Between, PokerState, Purse
  <2> QED BY <1>15, <2>1 DEF Stack
<1>16. CASE first # None
  <2>1. o.x = posted /\ o.over = first
    BY <1>9, <1>16 DEF To
  <2>2. first \in 0..(Len(seats) - 1) /\ Who(seats, first) \in ToAct(posted, seats)
    <3>1. CASE headsUp /\ ~CannotAct(posted, Who(seats, dealer))
      <4>1. Who(seats, dealer) \in CanBet(posted, seats)
        BY <1>10, <3>1, SeatsAre DEF CanBet
      <4> QED BY <1>7, <1>10, <1>15, <3>1, <4>1, AllOweRun
    <3>2. CASE ~(headsUp /\ ~CannotAct(posted, Who(seats, dealer)))
      <4>1. first = NextSeat(seats, bb, ToAct(posted, seats))
        BY <1>7, <3>2 DEF NextToAct, ToAct
      <4>2. Nearest(seats, bb, ToAct(posted, seats), first)
        BY <1>10, <1>13, <1>16, <4>1, NextSeatIs
      <4> QED BY <4>2 DEF Nearest
    <3> QED BY <3>1, <3>2
  <2>3. Run(posted, seats, first)
    BY <1>10, <1>15, <2>2, AllOweRun
  <2>4. ~o.x.handComplete
    BY <1>15, <2>1 DEF Betting
  <2> QED BY <1>15, <2>1, <2>2, <2>3, <2>4 DEF Goes, MidHand, GoodTurn, Pays
<1>17. CASE first = None
  <2>1. o \in SettleAndAdvance(posted, seats, left, dealer)
    BY <1>9, <1>17
  <2>2. first = NextSeat(seats, bb, ToAct(posted, seats))
    <3>1. dealer # None
      BY <1>10, TableAssumption
    <3> QED BY <1>7, <1>17, <3>1 DEF NextToAct, ToAct
  <2>3. \A j \in 0..(Len(seats) - 1) : Who(seats, j) \notin ToAct(posted, seats)
    <3>1. ASSUME Nearest(seats, bb, ToAct(posted, seats), first) PROVE FALSE
      BY <1>17, <3>1, TableAssumption DEF Nearest
    <3> QED BY <1>10, <1>13, <2>2, <3>1, NextSeatIs
  <2>4. \A p \in ToSet(seats) : p \notin ToAct(posted, seats)
    BY <1>10, <2>3, SeatsAre
  <2>5. BettingRoundComplete(posted, seats)
    BY <2>4 DEF BettingRoundComplete, ToAct
  <2>6. \A p \in Contenders(posted, seats, left) : posted.contributed[p] > 0
    BY <1>10, <1>15, <2>5, CompletePaid
  <2>7. ~(\A p \in ToSet(seats) : x.chips[p] > BigBlind)
    <3>1. Who(seats, sb) \in ToSet(seats)
      BY <1>10, <1>11, SeatsAre
    <3> QED BY <1>11, <1>15, <2>3, <3>1
  <2>8. Goes(o, seats, left, total) \/ Ends(o, seats, total)
    BY <1>10, <1>15, <2>1, <2>6, SettledGoesOn
  <2>9. Pays(o, Stack(posted), posted.handNumber, seats, left)
    BY <1>10, <1>15, <2>1, <2>6, SettledPays
  <2> QED BY <1>15, <1>18, <2>7, <2>8, <2>9
<1> QED BY <1>16, <1>17

-----------------------------------------------------------------------------
(* Leaving *)

\* A marker that moves back stays at a seat (AdjustSeatIndex).
LEMMA AdjustedSeat ==
  ASSUME NEW n \in Nat \ {0}, NEW r \in 0..n, NEW seat \in Int
  PROVE  /\ AdjustSeatIndex(seat, r, n) \in Int
         /\ seat \in 0..n => AdjustSeatIndex(seat, r, n) \in 0..(n - 1)
<1>1. ((r - 1) % n) \in 0..(n - 1)
  <2>1. r - 1 \in Int
    OBVIOUS
  <2> QED BY <2>1, ModInRange
<1>2. CASE seat > r
  BY <1>2 DEF AdjustSeatIndex
<1>3. CASE seat = r
  BY <1>1, <1>3 DEF AdjustSeatIndex
<1>4. CASE seat < r
  BY <1>4 DEF AdjustSeatIndex
<1> QED BY <1>2, <1>3, <1>4

\* The seats after the one at r is given up, and the list of those who left.
GivenUp(s, r, seats, left, newLeft) ==
  /\ s \in Seq(Player) /\ IsInjective(s) /\ Len(s) >= 2
  /\ r \in 0..(Len(s) - 1) /\ seats = RemoveAt(s, r + 1)
  /\ left \in Seq(Player) /\ newLeft \in Seq(Player)
  /\ ToSet(newLeft) = ToSet(left) \cup {Who(s, r)}

LEMMA SeatsGivenUp ==
  ASSUME NEW s, NEW r, NEW seats, NEW left, NEW newLeft, GivenUp(s, r, seats, left, newLeft)
  PROVE  /\ seats \in Seq(Player) /\ IsInjective(seats) /\ Len(seats) = Len(s) - 1 /\ Len(seats) \in Nat \ {0}
         /\ ToSet(seats) = ToSet(s) \ {Who(s, r)} /\ Who(s, r) \in Player /\ Who(s, r) \in ToSet(s)
         /\ \A i \in 0..(Len(seats) - 1) : Who(seats, i) = Who(s, IF i < r THEN i ELSE i + 1)
<1>1. PICK n \in Nat \ {0} : n = Len(s) - 1 /\ Len(s) = n + 1
  BY DEF GivenUp
<1>2. PICK k \in 1..Len(s) : k = r + 1
  BY DEF GivenUp
<1>3. s \in Seq(Player) /\ IsInjective(s) /\ seats = RemoveAt(s, k) /\ r \in 0..n
  BY <1>1, <1>2 DEF GivenUp
<1>4. seats \in Seq(Player) /\ Len(seats) = n
  BY <1>1, <1>3, RemoveAtType
<1>5. IsInjective(seats) /\ ToSet(seats) = ToSet(s) \ {s[k]}
  BY <1>3, RemoveAtSet
<1>6. s[k] = Who(s, r) /\ Who(s, r) \in Player /\ Who(s, r) \in ToSet(s)
  BY <1>1, <1>2, <1>3, SeatsAre DEF Who
<1>7. ASSUME NEW i \in 0..(n - 1) PROVE Who(seats, i) = Who(s, IF i < r THEN i ELSE i + 1)
  <2>1. PICK j \in 1..(Len(s) - 1) : j = i + 1
    BY <1>1
  <2>2. RemoveAt(s, k)[j] = IF j < k THEN s[j] ELSE s[j + 1]
    BY <1>3, RemoveAtSeats
  <2>3. CASE i < r
    <3>1. j < k
      BY <1>2, <1>3, <2>1, <2>3
    <3> QED BY <1>3, <2>1, <2>2, <2>3, <3>1 DEF Who
  <2>4. CASE ~(i < r)
    <3>1. ~(j < k) /\ j + 1 = (i + 1) + 1
      BY <1>2, <1>3, <2>1, <2>4
    <3> QED BY <1>3, <2>1, <2>2, <2>4, <3>1 DEF Who
  <2> QED BY <2>3, <2>4
<1> QED BY <1>1, <1>4, <1>5, <1>6, <1>7

LEMMA SeatsCount ==
  ASSUME NEW s, NEW r, NEW seats, NEW left, NEW newLeft, GivenUp(s, r, seats, left, newLeft)
  PROVE  \E n \in Nat \ {0} : n = Len(seats) /\ Len(s) = n + 1 /\ r \in 0..n
<1>1. Len(seats) = Len(s) - 1 /\ Len(seats) \in Nat \ {0}
  BY SeatsGivenUp
<1>2. s \in Seq(Player) /\ r \in 0..(Len(s) - 1)
  BY DEF GivenUp
<1>3. PICK l \in Nat : l = Len(s)
  BY <1>2
<1>4. l = (l - 1) + 1 /\ r \in 0..(l - 1)
  BY <1>2, <1>3
<1> QED BY <1>1, <1>3, <1>4

\* The clockwise order of the seats that are left, from the cursor that moved with them.
LEMMA OrderKept ==
  ASSUME NEW n \in Nat \ {0}, NEW r \in 0..n, NEW t \in 0..n,
         NEW i \in 0..(n - 1), NEW j \in 0..(n - 1), NEW c, c = Clamp(ShiftCursor(t, r), n)
  PROVE  /\ c \in 0..(n - 1)
         /\ Off(c, i, n) < Off(c, j, n) =>
              Off(t, IF i < r THEN i ELSE i + 1, n + 1) < Off(t, IF j < r THEN j ELSE j + 1, n + 1)
<1>1. PICK d : d = ShiftCursor(t, r)
  OBVIOUS
<1>2. d = (IF t > r THEN t - 1 ELSE t) /\ d \in 0..n
  BY <1>1 DEF ShiftCursor
<1>3. d % n = IF d = n THEN 0 ELSE d
  BY <1>2, ModSmall
<1>4. c = IF d = n THEN 0 ELSE d
  BY <1>1, <1>3 DEF Clamp
<1>5. c \in 0..(n - 1)
  BY <1>2, <1>4
<1>6. CASE t > r
  <2>1. c = t - 1
    BY <1>2, <1>4, <1>6
  <2> QED BY <1>5, <1>6, <2>1 DEF Off
<1>7. CASE t <= r /\ t < n
  <2>1. c = t
    BY <1>2, <1>4, <1>7
  <2> QED BY <1>5, <1>7, <2>1 DEF Off
<1>8. CASE t = n /\ r = n
  <2>1. c = 0
    BY <1>2, <1>4, <1>8
  <2> QED BY <1>5, <1>8, <2>1 DEF Off
<1> QED BY <1>6, <1>7, <1>8

\* m is x after the player at seat r gave it up and folded, unless all in.
Without(x, m, s, r, seats, left, newLeft, total) ==
  /\ Betting(m, seats, newLeft, total)
  /\ Contenders(x, s, left) \ {Who(s, r)} \subseteq Contenders(m, seats, newLeft)
  /\ \A q \in ToSet(seats) : (CannotAct(m, q) <=> CannotAct(x, q)) /\ (Owes(m, q) <=> Owes(x, q))

MarkersMoved(x, r, n) ==
  [x EXCEPT !.dealer = AdjustSeatIndex(@, r, n), !.sb = AdjustSeatIndex(@, r, n),
            !.bb = AdjustSeatIndex(@, r, n)]

LEMMA MarkersMovedIs ==
  ASSUME NEW x \in PokerState, NEW n \in Nat \ {0}, NEW r \in 0..n, x.dealer \in 0..n,
         NEW m, m = MarkersMoved(x, r, n)
  PROVE  /\ m \in PokerState /\ m.dealer \in 0..(n - 1) /\ m.pool = x.pool /\ m.chips = x.chips
         /\ m.bets = x.bets /\ m.contributed = x.contributed /\ m.currentBet = x.currentBet
         /\ m.folded = x.folded /\ m.allIn = x.allIn /\ m.acted = x.acted /\ m.street = x.street
         /\ m.handComplete = x.handComplete /\ m.matchComplete = x.matchComplete /\ m.handNumber = x.handNumber
         /\ Bank(m) = Bank(x) /\ PutIn(m) = PutIn(x)
<1>1. PICK d, a, b : /\ d = AdjustSeatIndex(x.dealer, r, n) /\ a = AdjustSeatIndex(x.sb, r, n)
                     /\ b = AdjustSeatIndex(x.bb, r, n)
  OBVIOUS
<1>2. d \in 0..(n - 1) /\ d \in Int /\ a \in Int /\ b \in Int
  BY <1>1, AdjustedSeat DEF PokerState
<1>3. m = [x EXCEPT !.dealer = d, !.sb = a, !.bb = b]
  BY <1>1 DEF MarkersMoved, PokerState
<1>4. /\ m \in PokerState /\ m.dealer = d /\ m.pool = x.pool /\ m.chips = x.chips
      /\ m.bets = x.bets /\ m.contributed = x.contributed /\ m.currentBet = x.currentBet
      /\ m.folded = x.folded /\ m.allIn = x.allIn /\ m.acted = x.acted /\ m.street = x.street
      /\ m.handComplete = x.handComplete /\ m.matchComplete = x.matchComplete /\ m.handNumber = x.handNumber
  BY <1>2, <1>3 DEF PokerState
<1> QED BY <1>2, <1>4 DEF Bank, PutIn

\* Folding whoever leaves takes nothing from the others (FoldLeaver).
LEMMA LeaverWithout ==
  ASSUME NEW x, NEW s, NEW r, NEW seats, NEW left, NEW newLeft, GivenUp(s, r, seats, left, newLeft),
         NEW total, Betting(x, s, left, total), NEW m,
         m = MarkersMoved(FoldLeaver(x, Who(s, r)), r, Len(seats))
  PROVE  Without(x, m, s, r, seats, left, newLeft, total)
<1>1. PICK n \in Nat \ {0} : n = Len(seats) /\ Len(s) = n + 1 /\ r \in 0..n
  BY SeatsCount
<1>12. PICK p : p = Who(s, r)
  OBVIOUS
<1>13. seats \in Seq(Player) /\ ToSet(seats) = ToSet(s) \ {p} /\ p \in Player /\ p \in ToSet(s)
  BY <1>12, SeatsGivenUp
<1>14. ToSet(newLeft) = ToSet(left) \cup {p}
  BY <1>12 DEF GivenUp
<1>15. ToSet(seats) \subseteq Player
  BY <1>13, SeatsAre
<1>16. x \in PokerState /\ x.dealer \in 0..n
  BY <1>1 DEF Betting
<1>2. /\ seats \in Seq(Player) /\ ToSet(seats) = ToSet(s) \ {p} /\ p \in Player /\ p \in ToSet(s)
      /\ ToSet(newLeft) = ToSet(left) \cup {p} /\ x \in PokerState /\ ToSet(seats) \subseteq Player
      /\ x.dealer \in 0..n
  BY <1>13, <1>14, <1>15, <1>16
<1>3. PICK f : f = FoldLeaver(x, p)
  OBVIOUS
<1>4. /\ f \in PokerState /\ f.dealer = x.dealer /\ f.pool = x.pool /\ f.chips = x.chips
      /\ f.bets = x.bets /\ f.contributed = x.contributed /\ f.currentBet = x.currentBet
      /\ f.allIn = x.allIn /\ f.street = x.street
      /\ f.handComplete = x.handComplete /\ f.matchComplete = x.matchComplete
      /\ f.folded = (IF p \in x.allIn THEN x.folded ELSE x.folded \cup {p})
      /\ f.acted = (IF p \in x.allIn THEN x.acted ELSE x.acted \cup {p})
  <2>1. ~x.handComplete
    BY DEF Betting
  <2>2. CASE p \in x.allIn
    BY <1>2, <1>3, <2>1, <2>2 DEF FoldLeaver
  <2>3. CASE p \notin x.allIn
    <3>1. f = [x EXCEPT !.folded = x.folded \cup {p}, !.acted = x.acted \cup {p}]
      BY <1>2, <1>3, <2>1, <2>3 DEF FoldLeaver, PokerState
    <3>2. x.folded \cup {p} \in SUBSET Player /\ x.acted \cup {p} \in SUBSET Player
      BY <1>2 DEF PokerState
    <3> QED BY <1>2, <2>3, <3>1, <3>2 DEF PokerState
  <2> QED BY <2>2, <2>3
<1>5. m = MarkersMoved(f, r, n)
  BY <1>1, <1>3, <1>12
<1>6. /\ m \in PokerState /\ m.dealer \in 0..(n - 1) /\ m.pool = x.pool /\ m.chips = x.chips
      /\ m.bets = x.bets /\ m.contributed = x.contributed /\ m.currentBet = x.currentBet
      /\ m.folded = f.folded /\ m.allIn = x.allIn /\ m.acted = f.acted /\ m.street = x.street
      /\ m.handComplete = x.handComplete /\ m.matchComplete = x.matchComplete
      /\ Bank(m) = Bank(f) /\ PutIn(m) = PutIn(f)
  BY <1>1, <1>2, <1>4, <1>5, MarkersMovedIs
<1>7. Bank(m) = total /\ PutIn(m) = m.pool
  BY <1>4, <1>6 DEF Betting, Bank, PutIn
<1>8. Contenders(m, seats, newLeft) = IF p \in x.allIn THEN Contenders(x, s, left)
                                      ELSE Contenders(x, s, left) \ {p}
  <2>1. CASE p \in x.allIn
    BY <1>2, <1>4, <1>6, <2>1 DEF Contenders
  <2>2. CASE p \notin x.allIn
    BY <1>2, <1>4, <1>6, <2>2 DEF Contenders
  <2> QED BY <2>1, <2>2
<1>9. \A q \in ToSet(seats) : /\ q # p /\ q \in ToSet(s)
                              /\ (q \in m.folded <=> q \in x.folded) /\ (q \in m.acted <=> q \in x.acted)
  BY <1>2, <1>4, <1>6
<1>10. \A q \in ToSet(seats) : (CannotAct(m, q) <=> CannotAct(x, q)) /\ (Owes(m, q) <=> Owes(x, q))
  BY <1>6, <1>9 DEF CannotAct, Owes
<1>11. Betting(m, seats, newLeft, total)
  <2>1. ~m.handComplete /\ ~m.matchComplete /\ m.street \in BettingStreets /\ m.dealer \in 0..(Len(seats) - 1)
    BY <1>1, <1>6 DEF Betting
  <2>2. /\ \A q \in Player : m.bets[q] <= m.contributed[q]
        /\ \A q \in ToSet(seats) : m.bets[q] <= m.currentBet
        /\ \A q \in m.allIn : m.contributed[q] > 0
    BY <1>6, <1>9 DEF Betting
  <2>3. \A q \in ToSet(seats) : m.chips[q] = 0 /\ q \notin m.folded => q \in m.allIn
    BY <1>6, <1>9 DEF Betting
  <2>4. m.currentBet = 0 => \A q \in Contenders(m, seats, newLeft) : m.contributed[q] > 0
    BY <1>6, <1>8 DEF Betting
  <2> QED BY <1>6, <1>7, <2>1, <2>2, <2>3, <2>4 DEF Betting
<1> QED BY <1>8, <1>10, <1>11, <1>12 DEF Without

\* The order of the turns is right from the cursor that moved with the seats.
LEMMA WithoutRun ==
  ASSUME NEW x, NEW m, NEW s, NEW r, NEW seats, NEW left, NEW newLeft, NEW total,
         GivenUp(s, r, seats, left, newLeft), Without(x, m, s, r, seats, left, newLeft, total),
         NEW t \in 0..(Len(s) - 1), Run(x, s, t), NEW c, c = Clamp(ShiftCursor(t, r), Len(seats))
  PROVE  c \in 0..(Len(seats) - 1) /\ Run(m, seats, c)
<1>5. PICK n \in Nat \ {0} : n = Len(seats) /\ Len(s) = n + 1 /\ r \in 0..n
  BY SeatsCount
<1>1. n = Len(seats) /\ Len(s) = n + 1 /\ r \in 0..n /\ t \in 0..n
  BY <1>5
<1>2. c = Clamp(ShiftCursor(t, r), n) /\ 0 \in 0..(n - 1)
  BY <1>1
<1>3. c \in 0..(n - 1)
  BY <1>1, <1>2, OrderKept
<1>4. ASSUME NEW i \in 0..(n - 1), NEW j \in 0..(n - 1), Off(c, i, n) < Off(c, j, n),
             Who(seats, j) \in ToAct(m, seats), Who(seats, i) \in CanBet(m, seats)
      PROVE  Who(seats, i) \in ToAct(m, seats)
  <2>1. PICK k, l : k = (IF i < r THEN i ELSE i + 1) /\ l = (IF j < r THEN j ELSE j + 1)
    OBVIOUS
  <2>2. k \in 0..n /\ l \in 0..n
    BY <1>1, <2>1
  <2>3. Off(t, k, n + 1) < Off(t, l, n + 1)
    BY <1>1, <1>2, <1>4, <2>1, OrderKept
  <2>4. PICK a, b : a = Who(seats, i) /\ b = Who(seats, j)
    OBVIOUS
  <2>5. a = Who(s, k) /\ b = Who(s, l)
    BY <1>1, <2>1, <2>4, SeatsGivenUp
  <2>6. a \in ToSet(seats) /\ b \in ToSet(seats) /\ ~CannotAct(m, a) /\ ~CannotAct(m, b) /\ Owes(m, b)
    BY <1>4, <2>4 DEF CanBet, ToAct
  <2>7. ~CannotAct(x, a) /\ ~CannotAct(x, b) /\ Owes(x, b) /\ a \in ToSet(s) /\ b \in ToSet(s)
    BY <2>6, SeatsGivenUp DEF Without
  <2>8. b \in ToAct(x, s) /\ a \in CanBet(x, s)
    BY <2>7 DEF CanBet, ToAct
  <2>9. a \in ToAct(x, s)
    BY <1>1, <2>2, <2>3, <2>5, <2>8 DEF Run
  <2>10. Owes(m, a)
    BY <2>6, <2>9 DEF Without, ToAct
  <2> QED BY <2>4, <2>6, <2>10 DEF ToAct
<1> QED BY <1>1, <1>3, <1>4 DEF Run

\* A leaver in mid-hand leaves a hand that goes on or is over (AfterPlayerRemoved).
LEMMA LeaveGoesOn ==
  ASSUME NEW x, NEW s, NEW r, NEW seats, NEW left, NEW newLeft, GivenUp(s, r, seats, left, newLeft),
         NEW total, MidHand(x, s, left, total), NEW t, GoodTurn(x, s, t),
         NEW c, c = Clamp(ShiftCursor(t, r), Len(seats)),
         NEW o \in AfterPlayerRemoved(FoldLeaver(x, Who(s, r)), seats, newLeft, r, c)
  PROVE  Goes(o, seats, newLeft, total) \/ Ends(o, seats, total)
<1>1. PICK f, m : f = FoldLeaver(x, Who(s, r)) /\ m = MarkersMoved(f, r, Len(seats))
  OBVIOUS
<1>2. Betting(x, s, left, total) /\ Two(Contenders(x, s, left)) /\ x \in PokerState
      /\ t \in 0..(Len(s) - 1) /\ Run(x, s, t)
  BY DEF MidHand, Betting, GoodTurn
<1>3. Without(x, m, s, r, seats, left, newLeft, total)
  BY <1>1, <1>2, LeaverWithout
<1>4. seats \in Seq(Player) /\ IsInjective(seats) /\ Len(seats) \in Nat \ {0}
  BY SeatsGivenUp
<1>5. /\ Betting(m, seats, newLeft, total) /\ m \in PokerState /\ m.dealer \in 0..(Len(seats) - 1)
      /\ Bank(m) = total /\ PutIn(m) = m.pool
  BY <1>3 DEF Without, Betting
<1>6. c \in 0..(Len(seats) - 1) /\ Run(m, seats, c)
  BY <1>2, <1>3, WithoutRun
<1>7. PICK live : live = Contenders(m, seats, newLeft)
  OBVIOUS
<1>8. live \in SUBSET Player /\ IsFiniteSet(live)
  BY <1>4, <1>5, <1>7, ContendersFinite
<1>9. live # {}
  <2>1. PICK a \in Contenders(x, s, left), b \in Contenders(x, s, left) : a # b
    BY <1>2 DEF Two
  <2>2. a # Who(s, r) \/ b # Who(s, r)
    BY <2>1
  <2> QED BY <1>3, <1>7, <2>2 DEF Without
<1>10. ~f.handComplete
  <2>1. ~x.handComplete
    BY <1>2 DEF Betting
  <2> QED BY <1>1, <1>2, <2>1 DEF FoldLeaver, PokerState
<1>11. o \in (IF Cardinality(live) = 1 THEN FoldedOut(m, seats, CHOOSE p \in live : TRUE)
              ELSE IF BettingRoundComplete(m, seats) THEN SettleAndAdvance(m, seats, newLeft, c)
              ELSE {To(m, StillToAct(m, seats, c))})
  BY <1>1, <1>4, <1>7, <1>10 DEF AfterPlayerRemoved, MarkersMoved
<1>12. CASE Cardinality(live) = 1
  <2>1. PICK w : w = CHOOSE p \in live : TRUE
    OBVIOUS
  <2>2. w \in live
    BY <1>9, <2>1
  <2>3. w \in Player
    BY <1>8, <2>2
  <2>4. o \in FoldedOut(m, seats, w)
    BY <1>11, <1>12, <2>1
  <2> QED BY <1>4, <1>5, <2>3, <2>4, FoldedOutEnds
<1>13. ASSUME Cardinality(live) # 1 PROVE Two(live)
  BY <1>8, <1>9, <1>13, TwoOrFew
<1>14. CASE Cardinality(live) # 1 /\ BettingRoundComplete(m, seats)
  <2>1. \A p \in Contenders(m, seats, newLeft) : m.contributed[p] > 0
    BY <1>4, <1>5, <1>14, CompletePaid
  <2>2. o \in SettleAndAdvance(m, seats, newLeft, c)
    BY <1>11, <1>14
  <2> QED BY <1>4, <1>5, <1>7, <1>13, <1>14, <2>1, <2>2, SettledGoesOn
<1>15. CASE Cardinality(live) # 1 /\ ~BettingRoundComplete(m, seats)
  <2>1. o.x = m /\ o.over = StillToAct(m, seats, c)
    BY <1>11, <1>15 DEF To
  <2>2. \E p \in ToSet(seats) : p \in ToAct(m, seats)
    BY <1>15 DEF BettingRoundComplete, ToAct
  <2>3. PICK j \in 0..(Len(seats) - 1) : Who(seats, j) \in ToAct(m, seats)
    BY <1>4, <2>2, SeatsAre
  <2>4. PICK u : u = o.over
    OBVIOUS
  <2>5. GoodTurn(m, seats, u)
    <3>1. CASE CannotAct(m, Who(seats, c))
      <4>1. Who(seats, c) \notin CanBet(m, seats)
        BY <3>1 DEF CanBet
      <4>2. RunAfter(m, seats, c)
        BY <1>4, <1>6, <4>1, RunPastIdle
      <4>3. u = NextSeat(seats, c, ToAct(m, seats))
        BY <2>1, <2>4, <3>1 DEF StillToAct, NextToAct, ToAct
      <4>4. Nearest(seats, c, ToAct(m, seats), u)
        BY <1>4, <1>6, <2>3, <4>3, NextSeatIs
      <4> QED BY <1>4, <1>6, <4>2, <4>4, NextKeepsRun
    <3>2. CASE ~CannotAct(m, Who(seats, c))
      <4>1. u = c
        BY <2>1, <2>4, <3>2 DEF StillToAct
      <4>2. Who(seats, c) \in CanBet(m, seats)
        BY <1>4, <1>6, <3>2, SeatsAre DEF CanBet
      <4>3. Who(seats, c) \in ToAct(m, seats)
        <5>1. CASE j = c
          BY <2>3, <5>1
        <5>2. CASE j # c
          <6>1. Off(c, c, Len(seats)) < Off(c, j, Len(seats))
            BY <1>4, <1>6, <5>2 DEF Off
          <6> QED BY <1>6, <2>3, <4>2, <6>1 DEF Run
        <5> QED BY <5>1, <5>2
      <4> QED BY <1>6, <4>1, <4>3 DEF GoodTurn
    <3> QED BY <3>1, <3>2
  <2> QED BY <1>5, <1>7, <1>13, <1>15, <2>1, <2>4, <2>5 DEF Goes, MidHand
<1> QED BY <1>12, <1>14, <1>15

\* A leaver who folds changes nothing else.
LEMMA FoldLeaverKeeps ==
  ASSUME NEW x \in PokerState, NEW p \in Player
  PROVE  /\ FoldLeaver(x, p) \in PokerState /\ Bank(FoldLeaver(x, p)) = Bank(x)
         /\ FoldLeaver(x, p).handComplete = x.handComplete /\ FoldLeaver(x, p).pool = x.pool
<1>1. CASE x.handComplete \/ p \in x.allIn
  BY <1>1 DEF FoldLeaver
<1>2. CASE ~(x.handComplete \/ p \in x.allIn)
  <2>1. PICK y : y = [x EXCEPT !.folded = @ \cup {p}, !.acted = @ \cup {p}]
    OBVIOUS
  <2>2. y = FoldLeaver(x, p)
    BY <1>2, <2>1 DEF FoldLeaver
  <2>3. y \in PokerState /\ y.handComplete = x.handComplete /\ y.pool = x.pool /\ y.chips = x.chips
    BY <2>1 DEF PokerState
  <2> QED BY <2>2, <2>3 DEF Bank
<1> QED BY <1>1, <1>2

\* So is everybody in a hand that a leaver ends (AfterPlayerRemoved).
LEMMA LeavePays ==
  ASSUME NEW x, NEW s, NEW r, NEW seats, NEW left, NEW newLeft, GivenUp(s, r, seats, left, newLeft),
         NEW total, MidHand(x, s, left, total), NEW c,
         NEW o \in AfterPlayerRemoved(FoldLeaver(x, Who(s, r)), seats, newLeft, r, c)
  PROVE  Pays(o, Stack(x), x.handNumber, seats, newLeft)
<1>1. PICK f, m : f = FoldLeaver(x, Who(s, r)) /\ m = MarkersMoved(f, r, Len(seats))
  OBVIOUS
<1>2. Betting(x, s, left, total) /\ Two(Contenders(x, s, left)) /\ x \in PokerState /\ ~x.handComplete
  BY DEF MidHand, Betting
<1>3. Without(x, m, s, r, seats, left, newLeft, total)
  BY <1>1, <1>2, LeaverWithout
<1>4. seats \in Seq(Player) /\ Len(seats) \in Nat \ {0}
  BY SeatsGivenUp
<1>5. Betting(m, seats, newLeft, total)
  BY <1>3 DEF Without
<1>6. PICK live : live = Contenders(m, seats, newLeft)
  OBVIOUS
<1>7. live # {}
  <2>1. PICK a \in Contenders(x, s, left), b \in Contenders(x, s, left) : a # b
    BY <1>2 DEF Two
  <2>2. a # Who(s, r) \/ b # Who(s, r)
    BY <2>1
  <2> QED BY <1>3, <1>6, <2>2 DEF Without
<1>8. /\ f.chips = x.chips /\ f.contributed = x.contributed /\ f.handNumber = x.handNumber
      /\ f.handComplete = x.handComplete
  <2>1. CASE Who(s, r) \in x.allIn
    BY <1>1, <1>2, <2>1 DEF FoldLeaver
  <2>2. CASE Who(s, r) \notin x.allIn
    <3>1. f = [x EXCEPT !.folded = @ \cup {Who(s, r)}, !.acted = @ \cup {Who(s, r)}]
      BY <1>1, <1>2, <2>2 DEF FoldLeaver
    <3> QED BY <1>2, <3>1 DEF PokerState
  <2> QED BY <2>1, <2>2
<1>9. PICK seat : seat = StillToAct(m, seats, c)
  OBVIOUS
<1>10. o \in (IF Cardinality(live) = 1 THEN FoldedOut(m, seats, CHOOSE p \in live : TRUE)
              ELSE IF BettingRoundComplete(m, seats) THEN SettleAndAdvance(m, seats, newLeft, c)
              ELSE {To(m, seat)})
  BY <1>1, <1>2, <1>4, <1>6, <1>8, <1>9 DEF AfterPlayerRemoved, MarkersMoved
<1>11. Pays(o, Stack(m), m.handNumber, seats, newLeft)
  BY <1>4, <1>5, <1>6, <1>7, <1>10, HandPays
<1>12. m.chips = x.chips /\ m.contributed = x.contributed /\ m.handNumber = x.handNumber
  <2>1. f \in PokerState
    <3>1. Who(s, r) \in Player
      BY SeatsGivenUp
    <3> QED BY <1>1, <1>2, <3>1, FoldLeaverKeeps
  <2>2. m.chips = f.chips /\ m.contributed = f.contributed /\ m.handNumber = f.handNumber
    BY <1>1, <2>1 DEF MarkersMoved, PokerState
  <2> QED BY <1>8, <2>2
<1> QED BY <1>11, <1>12 DEF Stack

\* A leaver between two hands leaves it over.
LEMMA LeaveBetween ==
  ASSUME NEW x, NEW s, NEW r, NEW seats, NEW left, NEW newLeft, GivenUp(s, r, seats, left, newLeft),
         NEW total, HandOver(x, s, total), NEW c,
         NEW o \in AfterPlayerRemoved(FoldLeaver(x, Who(s, r)), seats, newLeft, r, c)
  PROVE  Ends(o, seats, total)
<1>1. PICK n \in Nat \ {0} : n = Len(seats) /\ Len(s) = n + 1 /\ r \in 0..n
  BY SeatsCount
<1>2. FoldLeaver(x, Who(s, r)) = x /\ x \in PokerState /\ x.dealer \in 0..n /\ Bank(x) = total /\ x.pool = 0
      /\ x.handComplete
  BY <1>1 DEF HandOver, FoldLeaver
<1>3. PICK m : m = MarkersMoved(x, r, n)
  OBVIOUS
<1>4. m \in PokerState /\ m.dealer \in 0..(n - 1) /\ m.pool = x.pool /\ Bank(m) = Bank(x)
  BY <1>1, <1>2, <1>3, MarkersMovedIs
<1>5. o \in FinishHand(m, seats)
  BY <1>1, <1>2, <1>3 DEF AfterPlayerRemoved, MarkersMoved
<1>6. seats \in Seq(Player)
  BY SeatsGivenUp
<1> QED BY <1>1, <1>2, <1>4, <1>5, <1>6, FinishHandEnds

-----------------------------------------------------------------------------
(* The table *)

\* A table that is opened with poker.
PokerSpec ==
  /\ NewTable /\ \E seats \in Seq(Player) : Len(seats) >= 2 /\ IsInjective(seats) /\ PokerInit(seats)
  /\ [][GamesNext]_tvars

\* What a hook leaves of a hand.
Outcome(o, seats, left) ==
  Goes(o, seats, left, Stakes(seats, left)) \/ Ends(o, seats, Stakes(seats, left))

LEMMA OutcomeIs ==
  ASSUME NEW o, NEW seats \in Seq(Player), NEW left, Outcome(o, seats, left)
  PROVE  /\ o.x \in PokerState /\ Bank(o.x) = Stakes(seats, left)
         /\ o.x.matchComplete => o.x.handComplete /\ o.x.pool = 0
         /\ ~o.x.matchComplete => /\ o.over # None /\ Clamp(o.over, Len(seats)) = o.over
                                  /\ PlayingOk(seats, left, o.x, o.over)
<1>1. CASE Goes(o, seats, left, Stakes(seats, left))
  <2>1. /\ MidHand(o.x, seats, left, Stakes(seats, left)) /\ GoodTurn(o.x, seats, o.over)
        /\ o.x \in PokerState /\ Bank(o.x) = Stakes(seats, left)
        /\ ~o.x.matchComplete /\ ~o.x.handComplete /\ o.over \in 0..(Len(seats) - 1)
    BY <1>1 DEF Goes, MidHand, Betting, GoodTurn
  <2> HIDE DEF Stakes
  <2>2. PlayingOk(seats, left, o.x, o.over)
    BY <2>1 DEF PlayingOk
  <2>3. o.over # None /\ Clamp(o.over, Len(seats)) = o.over
    <3>1. PICK n \in Nat : n = Len(seats)
      OBVIOUS
    <3>2. n # 0 /\ o.over \in 0..n /\ o.over # n
      BY <2>1, <3>1
    <3>3. o.over % n = o.over
      BY <3>2, ModSmall
    <3> QED BY <3>1, <3>2, <3>3, TableAssumption DEF Clamp
  <2> QED BY <2>1, <2>2, <2>3
<1>2. CASE Ends(o, seats, Stakes(seats, left))
  <2>1. /\ HandOver(o.x, seats, Stakes(seats, left))
        /\ ~o.x.matchComplete => o.over \in 0..(Len(seats) - 1)
        /\ o.x \in PokerState /\ Bank(o.x) = Stakes(seats, left) /\ o.x.handComplete /\ o.x.pool = 0
    BY <1>2 DEF Ends, HandOver
  <2> HIDE DEF Stakes
  <2>2. CASE ~o.x.matchComplete
    <3>1. PICK n \in Nat : n = Len(seats)
      OBVIOUS
    <3>2. n # 0 /\ o.over \in 0..n /\ o.over # n
      BY <2>1, <2>2, <3>1
    <3>3. o.over % n = o.over
      BY <3>2, ModSmall
    <3>4. o.over # None /\ Clamp(o.over, Len(seats)) = o.over
      BY <3>1, <3>2, <3>3, TableAssumption DEF Clamp
    <3>5. PlayingOk(seats, left, o.x, o.over)
      BY <2>1, <2>2 DEF PlayingOk
    <3> QED BY <2>1, <2>2, <3>4, <3>5
  <2> QED BY <2>1, <2>2
<1> QED BY <1>1, <1>2 DEF Outcome

\* The engine carries an outcome over to the table (AfterMove).
LEMMA MoveKeepsInv ==
  ASSUME PokerInv, phase = "Playing", NEW o, Outcome(o, players, leftPlayers),
         extra' = o.x, AfterMove(o.x.matchComplete, PokerStandings', o.over)
  PROVE  PokerInv'
<1>1. /\ game = "poker" /\ TableOk(players, leftPlayers, extra) /\ players \in Seq(Player)
  BY DEF PokerInv, TableOk
<1>2. /\ o.x \in PokerState /\ Bank(o.x) = Stakes(players, leftPlayers)
      /\ o.x.matchComplete => o.x.handComplete /\ o.x.pool = 0
      /\ ~o.x.matchComplete => /\ o.over # None /\ Clamp(o.over, Len(players)) = o.over
                               /\ PlayingOk(players, leftPlayers, o.x, o.over)
  BY <1>1, OutcomeIs
<1>3. TableOk(players, leftPlayers, o.x)
  BY <1>1, <1>2 DEF TableOk
<1>4. game' = game /\ players' = players /\ leftPlayers' = leftPlayers
  BY DEF AfterMove
<1>5. CASE o.x.matchComplete
  <2>1. phase' = "Finished"
    BY <1>5 DEF AfterMove, Finish
  <2>2. FinishedOk(o.x, reason')
    BY <1>2, <1>5 DEF FinishedOk
  <2> QED BY <1>1, <1>3, <1>4, <2>1, <2>2 DEF PokerInv
<1>6. CASE ~o.x.matchComplete
  <2>1. phase' = "Playing" /\ currentTurn' = o.over
    BY <1>6, <1>2 DEF AfterMove, PlayOn
  <2> QED BY <1>1, <1>2, <1>3, <1>4, <1>6, <2>1 DEF PokerInv
<1> QED BY <1>5, <1>6

LEMMA NewTableOk ==
  ASSUME NEW seats \in Seq(Player), Len(seats) >= 2, IsInjective(seats), NewTable, PokerInit(seats)
  PROVE  PokerInv
<1>1. /\ phase = "Waiting" /\ game = "poker" /\ players = seats /\ leftPlayers = <<>>
  BY DEF NewTable, PokerInit
<1>2. /\ extra.chips = [p \in Player |-> IF p \in ToSet(seats) THEN DefaultStack ELSE 0]
      /\ extra.pool = 0 /\ ~extra.matchComplete /\ ~extra.handComplete
      /\ extra.chips \in Purse
  BY PokerAssumption DEF PokerInit, Purse
<1>3. extra \in PokerState
  <2>1. Nobody \in Purse
    BY DEF Nobody, Purse
  <2>2. PICK c \in Purse : extra.chips = c
    BY <1>2
  <2>3. extra = [dealer |-> 0, sb |-> 0, bb |-> 0,
                 pool |-> 0, currentBet |-> 0, minRaise |-> 0, street |-> None,
                 folded |-> {}, allIn |-> {}, acted |-> {}, chips |-> c,
                 bets |-> Nobody, contributed |-> Nobody,
                 boardOut |-> FALSE, shown |-> FALSE, strength |-> Nobody,
                 handNumber |-> 0, handComplete |-> FALSE, matchComplete |-> FALSE,
                 bustedAt |-> Nobody]
    BY <1>2, <2>2 DEF PokerInit
  <2> HIDE DEF Nobody
  <2> QED BY <2>1, <2>3 DEF PokerState
<1>4. ToSet(leftPlayers) = {} /\ leftPlayers \in Seq(Player) /\ IsInjective(leftPlayers)
  BY <1>1 DEF ToSet, IsInjective
<1>5. PICK sat \in SUBSET Player : sat = ToSet(seats)
  BY SeatsAre
<1>6. Bank(extra) = Stakes(players, leftPlayers)
  <2>1. PICK c \in Purse : extra.chips = c
    BY <1>2
  <2>2. \A p \in Player : c[p] = IF p \in sat THEN DefaultStack ELSE 0
    BY <1>2, <1>5, <2>1
  <2>3. IsFiniteSet(Player) /\ DefaultStack \in Int
    BY PokerAssumption
  <2>4. SumFunctionOnSet(c, Player) = DefaultStack * Cardinality(sat)
    BY <2>2, <2>3, SumOfEqual
  <2>5. SumFunctionOnSet(c, Player) \in Int
    BY PurseInts
  <2>6. ToSet(players) \cup ToSet(leftPlayers) = sat
    BY <1>1, <1>4, <1>5
  <2>7. Bank(extra) = SumFunctionOnSet(c, Player)
    BY <1>2, <2>1, <2>5 DEF Bank
  <2> QED BY <2>4, <2>6, <2>7 DEF Stakes
<1>7. TableOk(players, leftPlayers, extra)
  BY <1>1, <1>3, <1>4, <1>6 DEF TableOk
<1>8. WaitingOk(players, leftPlayers, extra)
  <2>1. \A p \in ToSet(seats) : extra.chips[p] = DefaultStack
    BY <1>2, <1>5
  <2> QED BY <1>1, <1>2, <2>1 DEF WaitingOk
<1> QED BY <1>1, <1>7, <1>8 DEF PokerInv

\* At the start nobody is short of the blinds, so the first hand is played (PokerStart).
LEMMA StartDeals ==
  ASSUME PokerInv, phase = "Waiting", NEW i \in 0..(Len(players) - 1),
         NEW o \in BeginHand(extra, players, leftPlayers, i)
  PROVE  Goes(o, players, leftPlayers, Stakes(players, leftPlayers))
<1>1. /\ TableOk(players, leftPlayers, extra) /\ WaitingOk(players, leftPlayers, extra)
  BY DEF PokerInv
<1>2. /\ players \in Seq(Player) /\ IsInjective(players) /\ extra \in PokerState /\ Len(players) >= 2
      /\ Bank(extra) = Stakes(players, leftPlayers) /\ extra.pool = 0 /\ ~extra.matchComplete
      /\ \A p \in ToSet(players) : extra.chips[p] = DefaultStack
  BY <1>1 DEF TableOk, WaitingOk
<1>3. Funded(extra, players) = ToSet(players)
  BY <1>2, PokerAssumption DEF Funded
<1>4. \A j \in 0..(Len(players) - 1) : Who(players, j) \in ToSet(players)
  BY <1>2, SeatsAre
<1>5. Two(Funded(extra, players)) /\ Who(players, i) \in Funded(extra, players)
  <2>1. 0 \in 0..(Len(players) - 1) /\ 1 \in 0..(Len(players) - 1)
    BY <1>2
  <2>2. Who(players, 0) # Who(players, 1)
    BY <1>2, <2>1, SeatsDiffer
  <2> QED BY <1>3, <1>4, <2>1, <2>2 DEF Two
<1>6. \A p \in ToSet(players) : extra.chips[p] > BigBlind
  BY <1>2, PokerAssumption
<1>7. Between(extra, players, Stakes(players, leftPlayers), i)
  BY <1>2, <1>5 DEF Between
<1> QED BY <1>6, <1>7, BeginHandDeals

LEMMA StartKeeps ==
  ASSUME PokerInv, NEW i \in 0..(Len(players) - 1), PokerStart(i)
  PROVE  PokerInv'
<1>1. phase = "Waiting"
  BY DEF PokerStart
<1>2. PICK o \in BeginHand(extra, players, leftPlayers, i) :
        extra' = o.x /\ Opened(IF o.over = None THEN i ELSE o.over)
  BY DEF PokerStart
<1>3. Goes(o, players, leftPlayers, Stakes(players, leftPlayers))
  BY <1>1, StartDeals
<1>4. game = "poker" /\ TableOk(players, leftPlayers, extra) /\ players \in Seq(Player)
  BY DEF PokerInv, TableOk
<1>5. /\ o.x \in PokerState /\ Bank(o.x) = Stakes(players, leftPlayers)
      /\ ~o.x.matchComplete => /\ o.over # None /\ Clamp(o.over, Len(players)) = o.over
                               /\ PlayingOk(players, leftPlayers, o.x, o.over)
  BY <1>3, <1>4, OutcomeIs DEF Outcome
<1>6. ~o.x.matchComplete
  BY <1>3 DEF Goes, MidHand, Betting
<1>7. /\ phase' = "Playing" /\ currentTurn' = o.over
      /\ game' = game /\ players' = players /\ leftPlayers' = leftPlayers
  BY <1>2, <1>5, <1>6 DEF Opened
<1>8. TableOk(players, leftPlayers, o.x)
  BY <1>4, <1>5 DEF TableOk
<1> QED BY <1>2, <1>4, <1>5, <1>6, <1>7, <1>8 DEF PokerInv

LEMMA TurnToMove ==
  ASSUME PokerInv, NEW p \in Player, MayBet(p)
  PROVE  OnTheMove(extra, players, leftPlayers, Stakes(players, leftPlayers), currentTurn, p)
<1>1. phase = "Playing" /\ p = Who(players, currentTurn) /\ ~extra.handComplete
  BY DEF MayBet, MayAct, OnTurn, SeatAt, Who
<1>2. PlayingOk(players, leftPlayers, extra, currentTurn) /\ TableOk(players, leftPlayers, extra)
  BY <1>1 DEF PokerInv
<1> QED BY <1>1, <1>2 DEF PlayingOk, TableOk, OnTheMove

LEMMA BetKeeps ==
  ASSUME PokerInv, NEW p \in Player, MayBet(p), NEW y,
         Moved(extra, y, players, leftPlayers, Stakes(players, leftPlayers), currentTurn), Bet(y)
  PROVE  PokerInv'
<1>1. OnTheMove(extra, players, leftPlayers, Stakes(players, leftPlayers), currentTurn, p)
  BY TurnToMove
<1>2. PICK o \in AfterBetting(y, players, leftPlayers, currentTurn) :
        extra' = o.x /\ AfterMove(o.x.matchComplete, PokerStandings', o.over)
  BY DEF Bet
<1>3. /\ players \in Seq(Player) /\ IsInjective(players) /\ currentTurn \in 0..(Len(players) - 1)
      /\ Run(extra, players, currentTurn) /\ Two(Contenders(extra, players, leftPlayers))
  BY <1>1 DEF OnTheMove, MidHand, GoodTurn
<1>4. Outcome(o, players, leftPlayers)
  BY <1>2, <1>3, MoveGoesOn DEF Outcome
<1>5. phase = "Playing"
  BY DEF MayBet, MayAct
<1> QED BY <1>2, <1>4, <1>5, MoveKeepsInv

LEMMA NextHandKeeps ==
  ASSUME PokerInv, NEW p \in Player, NextHand(p)
  PROVE  PokerInv'
<1> DEFINE dealer == NextFundedSeat(extra, players, extra.dealer)
           total == Stakes(players, leftPlayers)
<1>1. /\ phase = "Playing" /\ extra.handComplete /\ ~extra.matchComplete
  BY DEF NextHand, MayAct
<1>2. PICK o \in BeginHand(extra, players, leftPlayers, dealer) :
        extra' = o.x /\ AfterMove(o.x.matchComplete, PokerStandings', o.over)
  BY DEF NextHand
<1>3. PlayingOk(players, leftPlayers, extra, currentTurn) /\ TableOk(players, leftPlayers, extra)
  BY <1>1 DEF PokerInv
<1>4. /\ players \in Seq(Player) /\ IsInjective(players)
      /\ HandOver(extra, players, total)
  BY <1>1, <1>3 DEF PlayingOk, TableOk
<1> HIDE DEF total
<1>5. /\ extra \in PokerState /\ Bank(extra) = total /\ extra.pool = 0
      /\ extra.dealer \in 0..(Len(players) - 1) /\ Two(Funded(extra, players))
  BY <1>1, <1>4 DEF HandOver
<1>6. dealer \in 0..(Len(players) - 1) /\ Who(players, dealer) \in Funded(extra, players)
  BY <1>4, <1>5, NextFundedIs
<1> HIDE DEF dealer
<1>7. Between(extra, players, total, dealer)
  BY <1>1, <1>4, <1>5, <1>6 DEF Between
<1>8. Goes(o, players, leftPlayers, total) \/ Ends(o, players, total)
  BY <1>7, BeginHandDeals
<1>9. Outcome(o, players, leftPlayers)
  BY <1>8 DEF Outcome, total
<1> QED BY <1>1, <1>2, <1>9, MoveKeepsInv

\* The seats and the leavers after p stood up.
Leaves(p, seats, newLeft, r) ==
  /\ p \in Player /\ r \in 0..(Len(players) - 1) /\ Who(players, r) = p /\ SeatOf(p) = r
  /\ seats = RemoveAt(players, r + 1) /\ seats \in Seq(Player) /\ IsInjective(seats)
  /\ Len(seats) = Len(players) - 1
  /\ newLeft \in Seq(Player) /\ IsInjective(newLeft)
  /\ ToSet(newLeft) = ToSet(leftPlayers) \cup {p} /\ ToSet(seats) = ToSet(players) \ {p}
  /\ ToSet(seats) \cap ToSet(newLeft) = {}
  /\ Stakes(seats, newLeft) = Stakes(players, leftPlayers)

LEMMA LeaverStandsUp ==
  ASSUME TableOk(players, leftPlayers, extra), NEW p \in Player, Seated(p)
  PROVE  Leaves(p, SeatsWithout(p), Append(leftPlayers, p), SeatOf(p))
<1>1. /\ players \in Seq(Player) /\ leftPlayers \in Seq(Player)
      /\ IsInjective(players) /\ IsInjective(leftPlayers) /\ ToSet(players) \cap ToSet(leftPlayers) = {}
  BY DEF TableOk
<1>2. PICK i \in 1..Len(players) : i = CHOOSE j \in 1..Len(players) : players[j] = p
  BY DEF Seated
<1>3. players[i] = p
  BY <1>2 DEF Seated
<1>4. SeatOf(p) = i - 1
  BY <1>2 DEF SeatOf
<1>5. i - 1 \in 0..(Len(players) - 1) /\ (i - 1) + 1 = i
  BY <1>1
<1>6. SeatsWithout(p) = RemoveAt(players, i)
  BY <1>4, <1>5 DEF SeatsWithout
<1>7. Who(players, i - 1) = p
  BY <1>3, <1>5 DEF Who
<1>8. RemoveAt(players, i) \in Seq(Player) /\ Len(RemoveAt(players, i)) = Len(players) - 1
  BY <1>1, RemoveAtType
<1>9. IsInjective(RemoveAt(players, i)) /\ ToSet(RemoveAt(players, i)) = ToSet(players) \ {p}
  BY <1>1, <1>3, RemoveAtSet
<1>10. p \in ToSet(players)
  BY <1>3 DEF ToSet
<1>11. p \notin ToSet(leftPlayers)
  BY <1>1, <1>10
<1>12. /\ Append(leftPlayers, p) \in Seq(Player) /\ IsInjective(Append(leftPlayers, p))
       /\ ToSet(Append(leftPlayers, p)) = ToSet(leftPlayers) \cup {p}
  BY <1>1, <1>11, AppendSet
<1> HIDE DEF ToSet
<1>13. ToSet(RemoveAt(players, i)) \cap ToSet(Append(leftPlayers, p)) = {}
  BY <1>1, <1>9, <1>12
<1>14. ToSet(RemoveAt(players, i)) \cup ToSet(Append(leftPlayers, p)) = ToSet(players) \cup ToSet(leftPlayers)
  BY <1>9, <1>10, <1>12
<1> QED BY <1>4, <1>5, <1>6, <1>7, <1>8, <1>9, <1>12, <1>13, <1>14 DEF Leaves, Stakes

LEMMA LastLeaves ==
  ASSUME PokerInv, NEW p \in Player, PokerLeave(p), Len(players) < 2
  PROVE  PokerInv'
<1> DEFINE seats == SeatsWithout(p)
           newLeft == Append(leftPlayers, p)
<1>1. phase = "Playing" /\ Seated(p) /\ game = "poker"
  BY DEF PokerLeave, PokerInv
<1>2. TableOk(players, leftPlayers, extra) /\ PlayingOk(players, leftPlayers, extra, currentTurn)
  BY <1>1 DEF PokerInv
<1>3. Leaves(p, seats, newLeft, SeatOf(p))
  BY <1>1, <1>2, LeaverStandsUp
<1>4. PICK o \in AfterPlayerRemoved(FoldLeaver(extra, p), seats, newLeft, SeatOf(p), CursorWithout(p)) :
        extra' = o.x /\ AfterLeave(p, o.x.matchComplete, PokerStandings', o.over)
  BY DEF PokerLeave
<1>5. players' = seats /\ leftPlayers' = newLeft /\ game' = game
  BY <1>4 DEF AfterLeave
<1> HIDE DEF newLeft
<1>6. Len(seats) = 0 /\ seats = <<>>
  <2>1. Len(players) \in Nat /\ SeatOf(p) \in 0..(Len(players) - 1) /\ Len(seats) = Len(players) - 1
        /\ seats \in Seq(Player)
    BY <1>2, <1>3 DEF Leaves, TableOk
  <2> HIDE DEF seats
  <2> QED BY <2>1
<1>7. phase' = "Finished" /\ reason' = "Abandoned"
  BY <1>4, <1>6 DEF AfterLeave, Finish
<1> HIDE DEF seats
<1>8. o.x = FoldLeaver(extra, p)
  BY <1>4, <1>6 DEF AfterPlayerRemoved, To
<1>9. /\ extra \in PokerState /\ Bank(extra) = Stakes(players, leftPlayers)
      /\ extra.handComplete => extra.pool = 0
  BY <1>2 DEF TableOk, PlayingOk, HandOver
<1>10. /\ o.x \in PokerState /\ Bank(o.x) = Bank(extra)
       /\ o.x.handComplete => o.x.pool = 0
  BY <1>8, <1>9, FoldLeaverKeeps
<1>11. TableOk(seats, newLeft, o.x)
  BY <1>3, <1>9, <1>10 DEF Leaves, TableOk
<1>12. FinishedOk(o.x, reason')
  BY <1>7, <1>10 DEF FinishedOk
<1> QED BY <1>1, <1>4, <1>5, <1>7, <1>11, <1>12 DEF PokerInv

LEMMA LeaverOutcome ==
  ASSUME PokerInv, phase = "Playing", NEW p \in Player, Len(players) >= 2,
         NEW seats, NEW newLeft, NEW r, Leaves(p, seats, newLeft, r),
         NEW o \in AfterPlayerRemoved(FoldLeaver(extra, p), seats, newLeft, r, CursorWithout(p))
  PROVE  Outcome(o, seats, newLeft)
<1> DEFINE total == Stakes(players, leftPlayers)
<1>1. TableOk(players, leftPlayers, extra) /\ PlayingOk(players, leftPlayers, extra, currentTurn)
  BY DEF PokerInv
<1>2. p = Who(players, r) /\ Stakes(seats, newLeft) = total /\ SeatOf(p) = r /\ Len(seats) = Len(players) - 1
  BY DEF Leaves
<1>3. GivenUp(players, r, seats, leftPlayers, newLeft)
  BY <1>1 DEF Leaves, TableOk, GivenUp
<1>4. CursorWithout(p) = Clamp(ShiftCursor(currentTurn, r), Len(seats))
  BY <1>2 DEF CursorWithout
<1> HIDE DEF total
<1>5. CASE extra.handComplete
  <2>1. HandOver(extra, players, total)
    BY <1>1, <1>5 DEF PlayingOk, total
  <2>2. Ends(o, seats, total)
    BY <1>2, <1>3, <2>1, LeaveBetween
  <2> QED BY <1>2, <2>2 DEF Outcome
<1>6. CASE ~extra.handComplete
  <2>1. MidHand(extra, players, leftPlayers, total) /\ GoodTurn(extra, players, currentTurn)
    BY <1>1, <1>6 DEF PlayingOk, total
  <2>2. Goes(o, seats, newLeft, total) \/ Ends(o, seats, total)
    BY <1>2, <1>3, <1>4, <2>1, LeaveGoesOn
  <2> QED BY <1>2, <2>2 DEF Outcome
<1> QED BY <1>5, <1>6

LEMMA LeaveKeeps ==
  ASSUME PokerInv, NEW p \in Player, PokerLeave(p), Len(players) >= 2
  PROVE  PokerInv'
<1> DEFINE seats == SeatsWithout(p)
           newLeft == Append(leftPlayers, p)
<1>1. phase = "Playing" /\ Seated(p) /\ game = "poker"
  BY DEF PokerLeave, PokerInv
<1>2. TableOk(players, leftPlayers, extra)
  BY DEF PokerInv
<1>3. Leaves(p, seats, newLeft, SeatOf(p))
  BY <1>1, <1>2, LeaverStandsUp
<1>4. PICK o \in AfterPlayerRemoved(FoldLeaver(extra, p), seats, newLeft, SeatOf(p), CursorWithout(p)) :
        extra' = o.x /\ AfterLeave(p, o.x.matchComplete, PokerStandings', o.over)
  BY DEF PokerLeave
<1>5. players' = seats /\ leftPlayers' = newLeft /\ game' = game
  BY <1>4 DEF AfterLeave
<1>6. Outcome(o, seats, newLeft)
  BY <1>1, <1>3, <1>4, LeaverOutcome
<1>7. seats \in Seq(Player) /\ Len(seats) # 0 /\ seats # <<>>
  BY <1>2, <1>3 DEF Leaves, TableOk
<1>8. /\ o.x \in PokerState /\ Bank(o.x) = Stakes(seats, newLeft)
      /\ o.x.matchComplete => o.x.handComplete /\ o.x.pool = 0
      /\ ~o.x.matchComplete => /\ o.over # None /\ Clamp(o.over, Len(seats)) = o.over
                               /\ PlayingOk(seats, newLeft, o.x, o.over)
  BY <1>6, <1>7, OutcomeIs
<1> HIDE DEF newLeft
<1>9. TableOk(seats, newLeft, o.x)
  BY <1>3, <1>8 DEF Leaves, TableOk
<1>10. CASE o.x.matchComplete
  <2>1. phase' = "Finished"
    BY <1>4, <1>7, <1>10 DEF AfterLeave, Finish
  <2>2. FinishedOk(o.x, reason')
    BY <1>8, <1>10 DEF FinishedOk
  <2> QED BY <1>1, <1>4, <1>5, <1>9, <2>1, <2>2 DEF PokerInv
<1>11. CASE ~o.x.matchComplete
  <2>1. phase' = "Playing" /\ currentTurn' = o.over
    <3>1. ~Forfeited(seats, o.over) /\ (IF o.over = None THEN CursorWithout(p) ELSE o.over) = o.over
      BY <1>8, <1>11 DEF Forfeited
    <3>2. PlayOn(CursorWithout(p), o.over, Len(seats))
      BY <1>4, <1>7, <1>11, <3>1 DEF AfterLeave
    <3> QED BY <1>1, <1>8, <1>11, <3>1, <3>2 DEF PlayOn
  <2> QED BY <1>1, <1>4, <1>5, <1>8, <1>9, <1>11, <2>1 DEF PokerInv
<1> QED BY <1>10, <1>11

LEMMA MoveOfPlayerKeeps ==
  ASSUME PokerInv, NEW p \in Player,
         \/ Fold(p) \/ Check(p) \/ Call(p) \/ AllIn(p)
         \/ \E amount \in 1..(DefaultStack * Cardinality(Player)) : RaiseTo(p, amount)
  PROVE  PokerInv'
<1> DEFINE total == Stakes(players, leftPlayers)
<1>1. MayBet(p)
  BY DEF Fold, Check, Call, AllIn, RaiseTo
<1>2. OnTheMove(extra, players, leftPlayers, total, currentTurn, p)
  BY <1>1, TurnToMove
<1>3. /\ extra \in PokerState /\ extra.chips[p] \in Nat \ {0} /\ extra.bets[p] \in Nat
      /\ extra.currentBet \in Nat /\ extra.bets[p] <= extra.currentBet
  BY <1>2, MoverIs
<1> HIDE DEF total
<1>4. CASE Fold(p)
  <2>1. Moved(extra, Acted([extra EXCEPT !.folded = @ \cup {p}], p), players, leftPlayers, total, currentTurn)
    BY <1>2, FoldMoves
  <2> QED BY <1>1, <1>4, <2>1, BetKeeps DEF Fold, total
<1>5. CASE Check(p)
  <2>1. ToCall(extra, p) = 0 /\ Bet(Acted(extra, p))
    BY <1>5 DEF Check
  <2>2. Moved(extra, Acted(extra, p), players, leftPlayers, total, currentTurn)
    BY <1>2, <2>1, CheckMoves
  <2> QED BY <1>1, <2>1, <2>2, BetKeeps DEF total
<1>6. CASE Call(p)
  <2>1. Bet(Acted(CommitTo(extra, p, extra.currentBet), p))
    BY <1>6 DEF Call
  <2>2. Moved(extra, Acted(CommitTo(extra, p, extra.currentBet), p), players, leftPlayers, total, currentTurn)
    BY <1>2, CallMoves
  <2> QED BY <1>1, <2>1, <2>2, BetKeeps DEF total
<1>7. CASE AllIn(p)
  <2>1. PICK amount \in Nat : amount = extra.bets[p] + extra.chips[p]
    BY <1>3
  <2>2. Bet(Acted(BetIncreased(CommitTo(extra, p, amount), players, p), p))
    BY <1>7, <2>1 DEF AllIn
  <2>3. extra.bets[p] <= amount /\ amount - extra.bets[p] <= extra.chips[p]
        /\ amount - extra.bets[p] = extra.chips[p]
    BY <1>3, <2>1
  <2>4. Moved(extra, Acted(BetIncreased(CommitTo(extra, p, amount), players, p), p),
              players, leftPlayers, total, currentTurn)
    BY <1>2, <2>3, RaiseMoves
  <2> QED BY <1>1, <2>2, <2>4, BetKeeps DEF total
<1>8. CASE \E amount \in 1..(DefaultStack * Cardinality(Player)) : RaiseTo(p, amount)
  <2>1. DefaultStack * Cardinality(Player) \in Nat
    BY PokerAssumption, FS_CardinalityType
  <2>2. PICK amount \in Nat : RaiseTo(p, amount)
    BY <1>8, <2>1
  <2>3. /\ Bet(Acted(BetIncreased(CommitTo(extra, p, amount), players, p), p))
        /\ amount > extra.currentBet /\ amount - extra.bets[p] <= extra.chips[p]
    BY <2>2 DEF RaiseTo, MayRaiseTo
  <2>4. extra.bets[p] <= amount
    BY <1>3, <2>3
  <2>5. Moved(extra, Acted(BetIncreased(CommitTo(extra, p, amount), players, p), p),
              players, leftPlayers, total, currentTurn)
    BY <1>2, <2>3, <2>4, RaiseMoves
  <2> QED BY <1>1, <2>3, <2>5, BetKeeps DEF total
<1> QED BY <1>4, <1>5, <1>6, <1>7, <1>8

-----------------------------------------------------------------------------
(* Every step keeps the invariant *)

LEMMA TableStepKeeps ==
  ASSUME PokerInv, [GamesNext]_tvars
  PROVE  PokerInv'
<1>1. CASE UNCHANGED tvars
  BY <1>1 DEF PokerInv, tvars, seating, piles, TableOk, WaitingOk, PlayingOk, FinishedOk
<1>2. CASE GamesNext
  <2>1. game = "poker"
    BY DEF PokerInv
  <2>2. PokerNext
    BY <1>2, <2>1 DEF GamesNext, UnoNext, EightsNext, HeartsNext, GinNext
  <2>3. CASE \E i \in 0..(Len(players) - 1) : PokerStart(i)
    BY <2>3, StartKeeps
  <2>4. CASE \E p \in Player : \/ Fold(p) \/ Check(p) \/ Call(p) \/ AllIn(p)
                               \/ \E amount \in 1..(DefaultStack * Cardinality(Player)) : RaiseTo(p, amount)
    BY <2>4, MoveOfPlayerKeeps
  <2>5. CASE \E p \in Player : NextHand(p)
    BY <2>5, NextHandKeeps
  <2>6. CASE \E p \in Player : PokerLeave(p)
    <3>1. PICK p \in Player : PokerLeave(p)
      BY <2>6
    <3>2. Len(players) \in Nat
      BY DEF PokerInv, TableOk
    <3> QED BY <3>1, <3>2, LastLeaves, LeaveKeeps
  <2> QED BY <2>2, <2>3, <2>4, <2>5, <2>6 DEF PokerNext
<1> QED BY <1>1, <1>2

\* The invariant holds at every poker table, for any players, stacks, blinds and hands.
THEOREM PokerCorrect == PokerSpec => []PokerInv
<1>1. NewTable /\ (\E seats \in Seq(Player) : Len(seats) >= 2 /\ IsInjective(seats) /\ PokerInit(seats))
        => PokerInv
  BY NewTableOk
<1>2. PokerInv /\ [GamesNext]_tvars => PokerInv'
  BY TableStepKeeps
<1> QED BY <1>1, <1>2, PTL DEF PokerSpec

\* No chip is made or lost and a hand that is over leaves none in the pool, whatever is bet,
\* folded, refunded or left behind (Pay, AwardPots, RefundUncalled, AwardUncontested).
THEOREM PokerChipsKept == PokerSpec => []ChipsKept
<1>1. PokerInv => ChipsKept
  <2> SUFFICES ASSUME PokerInv PROVE ChipsKept
    OBVIOUS
  <2>1. TableOk(players, leftPlayers, extra) /\ phase \in {"Waiting", "Playing", "Finished"}
    BY DEF PokerInv
  <2>2. Chips + extra.pool = DefaultStack * Cardinality(EverDealtIn)
    <3>1. DOMAIN extra.chips = Player /\ Bank(extra) = Stakes(players, leftPlayers)
      BY <2>1 DEF TableOk, PokerState, Purse
    <3>2. Chips = SumFunctionOnSet(extra.chips, Player)
      BY <3>1 DEF Chips, SumFunction, SumFunctionOnSet
    <3> QED BY <3>1, <3>2 DEF Bank, Stakes, EverDealtIn
  <2>3. extra.handComplete => extra.pool = 0
    BY <2>1 DEF PokerInv, WaitingOk, PlayingOk, HandOver, FinishedOk
  <2>4. phase = "Finished" /\ reason # "Abandoned" => extra.handComplete
    BY DEF PokerInv, FinishedOk
  <2> QED BY <2>2, <2>3, <2>4 DEF ChipsKept
<1> QED BY <1>1, PokerCorrect, PTL

\* A hand is never handed to somebody folded, broke, all in or done, and is never played on
\* without an opponent, whoever leaves (NextToAct, AfterPlayerRemoved).
THEOREM PokerTurnOwes == PokerSpec => []TurnOwes
<1>1. PokerInv => TurnOwes
  <2> SUFFICES ASSUME PokerInv, phase = "Playing", ~extra.handComplete
               PROVE  /\ ~CannotAct(extra, OnTurn) /\ Owes(extra, OnTurn)
                      /\ Cardinality(Contenders(extra, players, leftPlayers)) >= 2
    BY DEF TurnOwes
  <2>1. /\ TableOk(players, leftPlayers, extra)
        /\ Two(Contenders(extra, players, leftPlayers)) /\ GoodTurn(extra, players, currentTurn)
    BY DEF PokerInv, PlayingOk, MidHand
  <2>2. ~CannotAct(extra, OnTurn) /\ Owes(extra, OnTurn)
    BY <2>1 DEF GoodTurn, ToAct, OnTurn, SeatAt, Who
  <2>3. IsFiniteSet(Contenders(extra, players, leftPlayers))
    BY <2>1, ContendersFinite DEF TableOk
  <2> QED BY <2>1, <2>2, <2>3, TwoOrFew
<1> QED BY <1>1, PokerCorrect, PTL

\* At a poker table the clock always finds a move the rules accept (TimeoutAction).
THEOREM PokerClockCanPlay == PokerSpec => []ClockCanPlay
<1>1. PokerInv => ClockCanPlay
  <2> SUFFICES ASSUME PokerInv, phase = "Playing"
               PROVE  PokerClock
    BY DEF ClockCanPlay, PokerInv
  <2>1. PlayingOk(players, leftPlayers, extra, currentTurn)
    BY DEF PokerInv
  <2> QED BY <2>1 DEF PlayingOk, GoodTurn, ToAct, OnTurn, SeatAt, Who, CannotAct, PokerClock
<1> QED BY <1>1, PokerCorrect, PTL

-----------------------------------------------------------------------------
(* What a hand pays, at the table *)

\* PaidFairly, of a step.
EndsFairly ==
  game = "poker" /\ PokerHandEnds =>
    FairlyPaid(extra, extra', Contenders(extra, players, leftPlayers)')

LEMMA PaysAreFair ==
  ASSUME NEW x \in PokerState, NEW y \in PokerState, NEW live, NEW b,
         b = IF y.handNumber = x.handNumber THEN Stack(x) ELSE x.chips, PaysFairly(b, y, live)
  PROVE  FairlyPaid(x, y, live)
<1>1. \A p \in Player : x.chips[p] \in Nat /\ x.contributed[p] \in Nat /\ y.chips[p] \in Nat
  BY DEF PokerState, Purse
<1>2. ASSUME NEW p \in Player PROVE Won(p, x, y) = y.chips[p] - b[p]
  <2>1. CASE y.handNumber = x.handNumber
    <3>1. b[p] = x.chips[p] + x.contributed[p] /\ Won(p, x, y) = y.chips[p] - x.chips[p] - x.contributed[p]
      BY <2>1 DEF Stack, Won
    <3> QED BY <1>1, <3>1
  <2>2. CASE y.handNumber # x.handNumber
    <3>1. b[p] = x.chips[p] /\ Won(p, x, y) = y.chips[p] - x.chips[p] - 0
      BY <2>2 DEF Won
    <3> QED BY <1>1, <3>1
  <2> QED BY <2>1, <2>2
<1>3. \A p \in Player : (p \in live /\ \A q \in live \ {p} : y.strength[q] < y.strength[p]) => Beats(y, live, p)
  BY DEF Beats
<1> QED BY <1>2, <1>3 DEF FairlyPaid, PaysFairly

\* A step whose outcome pays fairly ends no hand unfairly.
LEMMA OutcomePaysFairly ==
  ASSUME PokerInv, PokerInv', NEW o, extra' = o.x, NEW b, NEW n,
         Pays(o, b, n, players', leftPlayers'),
         extra'.handComplete => b = IF n = extra.handNumber THEN Stack(extra) ELSE extra.chips
  PROVE  EndsFairly
<1> SUFFICES ASSUME PokerHandEnds
             PROVE  FairlyPaid(extra, extra', Contenders(extra', players', leftPlayers'))
  BY DEF EndsFairly
<1>1. extra'.handComplete
  BY DEF PokerHandEnds
<1>2. extra'.handNumber = n /\ PaysFairly(b, extra', Contenders(extra', players', leftPlayers'))
  BY <1>1 DEF Pays
<1>3. extra \in PokerState /\ extra' \in PokerState
  BY DEF PokerInv, TableOk
<1> QED BY <1>1, <1>2, <1>3, PaysAreFair

\* A bet ends no hand unfairly.
LEMMA BetEndsFairly ==
  ASSUME PokerInv, PokerInv', NEW p \in Player, MayBet(p), NEW y, SameStacks(extra, y),
         Moved(extra, y, players, leftPlayers, Stakes(players, leftPlayers), currentTurn), Bet(y)
  PROVE  EndsFairly
<1>1. OnTheMove(extra, players, leftPlayers, Stakes(players, leftPlayers), currentTurn, p)
  BY TurnToMove
<1>2. PICK o \in AfterBetting(y, players, leftPlayers, currentTurn) :
        extra' = o.x /\ AfterMove(o.x.matchComplete, PokerStandings', o.over)
  BY DEF Bet
<1>3. players \in Seq(Player) /\ Two(Contenders(extra, players, leftPlayers))
  BY <1>1 DEF OnTheMove, MidHand
<1>4. Pays(o, Stack(y), y.handNumber, players, leftPlayers)
  BY <1>2, <1>3, MovePays
<1>5. players' = players /\ leftPlayers' = leftPlayers
  BY <1>2 DEF AfterMove
<1>6. Stack(y) = Stack(extra) /\ y.handNumber = extra.handNumber
  BY DEF SameStacks
<1>7. Pays(o, Stack(extra), extra.handNumber, players', leftPlayers')
  BY <1>4, <1>5, <1>6
<1> QED BY <1>2, <1>7, OutcomePaysFairly

LEMMA MoveEndsFairly ==
  ASSUME PokerInv, PokerInv', NEW p \in Player,
         \/ Fold(p) \/ Check(p) \/ Call(p) \/ AllIn(p)
         \/ \E amount \in 1..(DefaultStack * Cardinality(Player)) : RaiseTo(p, amount)
  PROVE  EndsFairly
<1> DEFINE total == Stakes(players, leftPlayers)
<1>1. MayBet(p)
  BY DEF Fold, Check, Call, AllIn, RaiseTo
<1>2. OnTheMove(extra, players, leftPlayers, total, currentTurn, p)
  BY <1>1, TurnToMove
<1>3. /\ extra \in PokerState /\ extra.chips[p] \in Nat \ {0} /\ extra.bets[p] \in Nat
      /\ extra.currentBet \in Nat /\ extra.bets[p] <= extra.currentBet
  BY <1>2, MoverIs
<1> HIDE DEF total
<1>4. CASE Fold(p)
  <2>1. PICK y : y = Acted([extra EXCEPT !.folded = @ \cup {p}], p)
    OBVIOUS
  <2>2. Moved(extra, y, players, leftPlayers, total, currentTurn)
    BY <1>2, <2>1, FoldMoves
  <2>3. y.chips = extra.chips /\ y.contributed = extra.contributed /\ y.handNumber = extra.handNumber
    BY <1>3, <2>1 DEF Acted, PokerState
  <2>4. SameStacks(extra, y) /\ Bet(y)
    BY <1>4, <2>1, <2>3 DEF SameStacks, Stack, Fold
  <2> QED BY <1>1, <2>2, <2>4, BetEndsFairly DEF total
<1>5. CASE Check(p)
  <2>1. PICK y : y = Acted(extra, p)
    OBVIOUS
  <2>2. ToCall(extra, p) = 0 /\ Bet(y)
    BY <1>5, <2>1 DEF Check
  <2>3. Moved(extra, y, players, leftPlayers, total, currentTurn)
    BY <1>2, <2>1, <2>2, CheckMoves
  <2>4. y.chips = extra.chips /\ y.contributed = extra.contributed /\ y.handNumber = extra.handNumber
    BY <1>3, <2>1 DEF Acted, PokerState
  <2>5. SameStacks(extra, y)
    BY <2>4 DEF SameStacks, Stack
  <2> QED BY <1>1, <2>2, <2>3, <2>5, BetEndsFairly DEF total
<1>6. CASE Call(p)
  <2>1. PICK y : y = Acted(CommitTo(extra, p, extra.currentBet), p)
    OBVIOUS
  <2>2. Bet(y) /\ Moved(extra, y, players, leftPlayers, total, currentTurn)
    BY <1>2, <1>6, <2>1, CallMoves DEF Call
  <2>3. SameStacks(extra, y)
    BY <1>3, <2>1, CallStacks
  <2> QED BY <1>1, <2>2, <2>3, BetEndsFairly DEF total
<1>7. ASSUME NEW amount \in Nat, extra.bets[p] <= amount, amount - extra.bets[p] <= extra.chips[p],
             amount > extra.currentBet \/ amount - extra.bets[p] = extra.chips[p],
             Bet(Acted(BetIncreased(CommitTo(extra, p, amount), players, p), p))
      PROVE  EndsFairly
  <2>1. PICK y : y = Acted(BetIncreased(CommitTo(extra, p, amount), players, p), p)
    OBVIOUS
  <2>2. Bet(y) /\ Moved(extra, y, players, leftPlayers, total, currentTurn)
    BY <1>2, <1>7, <2>1, RaiseMoves
  <2>3. SameStacks(extra, y)
    BY <1>3, <1>7, <2>1, RaiseStacks
  <2> QED BY <1>1, <2>2, <2>3, BetEndsFairly DEF total
<1>8. CASE AllIn(p)
  <2>1. PICK amount \in Nat : amount = extra.bets[p] + extra.chips[p]
    BY <1>3
  <2>2. Bet(Acted(BetIncreased(CommitTo(extra, p, amount), players, p), p))
    BY <1>8, <2>1 DEF AllIn
  <2>3. extra.bets[p] <= amount /\ amount - extra.bets[p] <= extra.chips[p]
        /\ amount - extra.bets[p] = extra.chips[p]
    BY <1>3, <2>1
  <2> QED BY <1>7, <2>2, <2>3
<1>9. CASE \E amount \in 1..(DefaultStack * Cardinality(Player)) : RaiseTo(p, amount)
  <2>1. DefaultStack * Cardinality(Player) \in Nat
    BY PokerAssumption, FS_CardinalityType
  <2>2. PICK amount \in Nat : RaiseTo(p, amount)
    BY <1>9, <2>1
  <2>3. /\ Bet(Acted(BetIncreased(CommitTo(extra, p, amount), players, p), p))
        /\ amount > extra.currentBet /\ amount - extra.bets[p] <= extra.chips[p]
    BY <2>2 DEF RaiseTo, MayRaiseTo
  <2>4. extra.bets[p] <= amount
    BY <1>3, <2>3
  <2> QED BY <1>7, <2>3, <2>4
<1> QED BY <1>4, <1>5, <1>6, <1>8, <1>9

\* A hand that the blinds end is paid fairly too.
LEMMA NextHandEndsFairly ==
  ASSUME PokerInv, PokerInv', NEW p \in Player, NextHand(p)
  PROVE  EndsFairly
<1> DEFINE dealer == NextFundedSeat(extra, players, extra.dealer)
           total == Stakes(players, leftPlayers)
<1>1. phase = "Playing" /\ extra.handComplete /\ ~extra.matchComplete
  BY DEF NextHand, MayAct
<1>2. PICK o \in BeginHand(extra, players, leftPlayers, dealer) :
        extra' = o.x /\ AfterMove(o.x.matchComplete, PokerStandings', o.over)
  BY DEF NextHand
<1>3. PlayingOk(players, leftPlayers, extra, currentTurn) /\ TableOk(players, leftPlayers, extra)
  BY <1>1 DEF PokerInv
<1>4. players \in Seq(Player) /\ IsInjective(players) /\ HandOver(extra, players, total)
  BY <1>1, <1>3 DEF PlayingOk, TableOk
<1> HIDE DEF total
<1>5. /\ extra \in PokerState /\ Bank(extra) = total /\ extra.pool = 0
      /\ extra.dealer \in 0..(Len(players) - 1) /\ Two(Funded(extra, players))
  BY <1>1, <1>4 DEF HandOver
<1>6. dealer \in 0..(Len(players) - 1) /\ Who(players, dealer) \in Funded(extra, players)
  BY <1>4, <1>5, NextFundedIs
<1> HIDE DEF dealer
<1>7. Between(extra, players, total, dealer)
  BY <1>1, <1>4, <1>5, <1>6 DEF Between
<1>8. Pays(o, extra.chips, extra.handNumber + 1, players, leftPlayers)
  BY <1>7, BeginHandDeals
<1>9. players' = players /\ leftPlayers' = leftPlayers
  BY <1>2 DEF AfterMove
<1>10. extra.handNumber + 1 # extra.handNumber
  BY <1>5 DEF PokerState
<1> QED BY <1>2, <1>8, <1>9, <1>10, OutcomePaysFairly

\* Nor does somebody who leaves end one unfairly, not even the last one.
LEMMA LeaveEndsFairly ==
  ASSUME PokerInv, PokerInv', NEW p \in Player, PokerLeave(p)
  PROVE  EndsFairly
<1> DEFINE seats == SeatsWithout(p)
           newLeft == Append(leftPlayers, p)
<1>1. phase = "Playing" /\ Seated(p) /\ game = "poker"
  BY DEF PokerLeave, PokerInv
<1>2. TableOk(players, leftPlayers, extra) /\ PlayingOk(players, leftPlayers, extra, currentTurn)
  BY <1>1 DEF PokerInv
<1>3. Leaves(p, seats, newLeft, SeatOf(p))
  BY <1>1, <1>2, LeaverStandsUp
<1>4. PICK o \in AfterPlayerRemoved(FoldLeaver(extra, p), seats, newLeft, SeatOf(p), CursorWithout(p)) :
        extra' = o.x /\ AfterLeave(p, o.x.matchComplete, PokerStandings', o.over)
  BY DEF PokerLeave
<1>5. players' = seats /\ leftPlayers' = newLeft
  BY <1>4 DEF AfterLeave
<1> HIDE DEF seats, newLeft
<1>6. extra \in PokerState /\ seats \in Seq(Player) /\ players \in Seq(Player) /\ Len(seats) = Len(players) - 1
  BY <1>2, <1>3 DEF TableOk, Leaves
<1>7. CASE extra.handComplete
  <2>1. FoldLeaver(extra, p) = extra
    BY <1>7 DEF FoldLeaver
  <2>2. extra'.handNumber = extra.handNumber
    <3>1. CASE Len(seats) = 0
      <4>1. o.x = extra
        BY <1>4, <2>1, <3>1 DEF AfterPlayerRemoved, To
      <4> QED BY <1>4, <4>1
    <3>2. CASE Len(seats) # 0
      <4>1. PICK n \in Nat \ {0} : n = Len(seats) /\ Len(players) = n + 1
        BY <1>6, <3>2
      <4>2. SeatOf(p) \in 0..n /\ extra.dealer \in 0..n
        BY <1>2, <1>3, <1>7, <4>1 DEF Leaves, PlayingOk, HandOver
      <4>3. PICK m : m = MarkersMoved(extra, SeatOf(p), n)
        OBVIOUS
      <4>4. m \in PokerState /\ m.handNumber = extra.handNumber
        BY <1>6, <4>2, <4>3, MarkersMovedIs
      <4>5. o \in FinishHand(m, seats)
        BY <1>4, <1>7, <2>1, <3>2, <4>1, <4>3 DEF AfterPlayerRemoved, MarkersMoved
      <4>6. PaidLike(m, o.x)
        BY <4>4, <4>5, FinishHandPaysNone
      <4> QED BY <1>4, <4>4, <4>6 DEF PaidLike
    <3> QED BY <3>1, <3>2
  <2> QED BY <1>7, <2>2 DEF EndsFairly, PokerHandEnds
<1>8. CASE ~extra.handComplete /\ Len(seats) = 0
  <2>1. o.x = FoldLeaver(extra, p)
    BY <1>4, <1>8 DEF AfterPlayerRemoved, To
  <2>2. ~extra'.handComplete
    BY <1>4, <1>6, <1>8, <2>1, FoldLeaverKeeps
  <2> QED BY <2>2 DEF EndsFairly, PokerHandEnds
<1>9. CASE ~extra.handComplete /\ Len(seats) # 0
  <2>1. MidHand(extra, players, leftPlayers, Stakes(players, leftPlayers))
    BY <1>2, <1>9 DEF PlayingOk
  <2>2. Len(players) >= 2
    BY <1>6, <1>9
  <2>3. GivenUp(players, SeatOf(p), seats, leftPlayers, newLeft) /\ p = Who(players, SeatOf(p))
    BY <1>2, <1>3, <2>2 DEF Leaves, TableOk, GivenUp
  <2>4. Pays(o, Stack(extra), extra.handNumber, seats, newLeft)
    BY <1>4, <2>1, <2>3, LeavePays
  <2> QED BY <1>4, <1>5, <2>4, OutcomePaysFairly
<1> QED BY <1>7, <1>8, <1>9

LEMMA StepEndsFairly ==
  ASSUME PokerInv, PokerInv', [GamesNext]_tvars
  PROVE  [EndsFairly]_tvars
<1>1. CASE UNCHANGED tvars
  BY <1>1
<1>2. CASE GamesNext
  <2>1. game = "poker"
    BY DEF PokerInv
  <2>2. PokerNext
    BY <1>2, <2>1 DEF GamesNext, UnoNext, EightsNext, HeartsNext, GinNext
  <2>3. CASE \E i \in 0..(Len(players) - 1) : PokerStart(i)
    <3>1. PICK i \in 0..(Len(players) - 1) : PokerStart(i)
      BY <2>3
    <3>2. phase = "Waiting"
      BY <3>1 DEF PokerStart
    <3>3. PICK o \in BeginHand(extra, players, leftPlayers, i) : extra' = o.x
      BY <3>1 DEF PokerStart
    <3>4. Goes(o, players, leftPlayers, Stakes(players, leftPlayers))
      BY <3>2, <3>3, StartDeals
    <3>5. ~extra'.handComplete
      BY <3>3, <3>4 DEF Goes, MidHand, Betting
    <3> QED BY <3>5 DEF EndsFairly, PokerHandEnds
  <2>4. CASE \E p \in Player : \/ Fold(p) \/ Check(p) \/ Call(p) \/ AllIn(p)
                               \/ \E amount \in 1..(DefaultStack * Cardinality(Player)) : RaiseTo(p, amount)
    BY <2>4, MoveEndsFairly
  <2>5. CASE \E p \in Player : NextHand(p)
    BY <2>5, NextHandEndsFairly
  <2>6. CASE \E p \in Player : PokerLeave(p)
    BY <2>6, LeaveEndsFairly
  <2> QED BY <2>2, <2>3, <2>4, <2>5, <2>6 DEF PokerNext
<1> QED BY <1>1, <1>2

\* Whatever the bets, the all-ins, the side pots, the refunds, the folds and the leavers, a hand
\* never takes more from an opponent than its owner risked, the dead money aside, and the best
\* hand takes all of that (buildSidePots, refundUncalled, awardPots, awardUncontested).
THEOREM PokerPaysFairly == PokerSpec => PaidFairly
<1>1. PokerInv /\ PokerInv' /\ [GamesNext]_tvars
        => [game = "poker" /\ PokerHandEnds =>
              FairlyPaid(extra, extra', Contenders(extra, players, leftPlayers)')]_tvars
  BY StepEndsFairly DEF EndsFairly
<1> QED BY <1>1, PokerCorrect, PTL DEF PokerSpec, PaidFairly

-----------------------------------------------------------------------------
(* Standings and the end of the match *)

\* What players are ranked by: four numbers, the first that differs decides.
Results == Nat \X Nat \X Nat \X Nat

\* Whose result is the better, number by number.
LEMMA ExceedsIs ==
  ASSUME NEW a \in Results, NEW b \in Results
  PROVE  Exceeds(a, b) <=> \/ a[1] > b[1]
                           \/ a[1] = b[1] /\ a[2] > b[2]
                           \/ a[1] = b[1] /\ a[2] = b[2] /\ a[3] > b[3]
                           \/ a[1] = b[1] /\ a[2] = b[2] /\ a[3] = b[3] /\ a[4] > b[4]
<1>1. /\ Exceeds(a, b) <=> \E i \in 1..4 : a[i] > b[i] /\ \A j \in 1..(i - 1) : a[j] = b[j]
  BY DEF Exceeds
<1>2. 1..4 = {1, 2, 3, 4}
  OBVIOUS
<1>3. /\ 1..(1 - 1) = {} /\ 1..(2 - 1) = {1} /\ 1..(3 - 1) = {1, 2} /\ 1..(4 - 1) = {1, 2, 3}
  OBVIOUS
<1> QED BY <1>1, <1>2, <1>3

\* Comparing results is a strict order.
LEMMA ExceedsOrders ==
  /\ \A a \in Results : ~Exceeds(a, a)
  /\ \A a, b, c \in Results : Exceeds(a, b) /\ Exceeds(b, c) => Exceeds(a, c)
  /\ \A a, b \in Results : a # b => Exceeds(a, b) \/ Exceeds(b, a)
<1>1. \A a \in Results : ~Exceeds(a, a)
  BY ExceedsIs DEF Results
<1>2. \A a, b, c \in Results : Exceeds(a, b) /\ Exceeds(b, c) => Exceeds(a, c)
  <2> SUFFICES ASSUME NEW a \in Results, NEW b \in Results, NEW c \in Results,
                      Exceeds(a, b), Exceeds(b, c)
               PROVE  Exceeds(a, c)
    OBVIOUS
  <2>1. \A i \in {1, 2, 3, 4} : a[i] \in Nat /\ b[i] \in Nat /\ c[i] \in Nat
    BY DEF Results
  <2> QED BY <2>1, ExceedsIs
<1>3. \A a, b \in Results : a # b => Exceeds(a, b) \/ Exceeds(b, a)
  <2> SUFFICES ASSUME NEW a \in Results, NEW b \in Results, ~Exceeds(a, b), ~Exceeds(b, a)
               PROVE  a = b
    OBVIOUS
  <2>1. \A i \in {1, 2, 3, 4} : a[i] \in Nat /\ b[i] \in Nat
    BY DEF Results
  <2>2. a[1] = b[1] /\ a[2] = b[2] /\ a[3] = b[3] /\ a[4] = b[4]
    BY <2>1, ExceedsIs
  <2> QED BY <2>2 DEF Results
<1> QED BY <1>1, <1>2, <1>3

\* Who of a set of players is ranked before whom.
RankOrder(S) ==
  {e \in S \X S : \/ Exceeds(PokerResult(e[1]), PokerResult(e[2]))
                  \/ PokerResult(e[1]) = PokerResult(e[2]) /\ e[1] < e[2]}

\* The results of everybody ever dealt in are numbers.
LEMMA ResultsTyped ==
  ASSUME extra \in PokerState
  PROVE  \A p \in Player : PokerResult(p) \in Results
BY DEF PokerState, Purse, PokerResult, Results

\* The row of some players that rankPlayers makes.
Ranked(S) ==
  LET better(p, q) == \/ Exceeds(PokerResult(p), PokerResult(q))
                      \/ PokerResult(p) = PokerResult(q) /\ p < q
  IN  InOrder(S, better)

\* Ranked lists a row of players once each, and in the order of their results.
LEMMA RankedLists ==
  ASSUME extra \in PokerState, NEW S \in SUBSET Player
  PROVE  Lists(Ranked(S), S, RankOrder(S))
<1> DEFINE B == RankOrder(S)
           better(p, q) == \/ Exceeds(PokerResult(p), PokerResult(q))
                           \/ PokerResult(p) = PokerResult(q) /\ p < q
           order == InOrder(S, better)
<1>1. IsFiniteSet(S) /\ S \subseteq Nat /\ \A p \in S : PokerResult(p) \in Results
  BY PokerAssumption, FS_Subset, ResultsTyped
<1>2. \A p, q \in S : <<p, q>> \in B <=> better(p, q)
  <2> HIDE DEF better
  <2>1. B = {e \in S \X S : better(e[1], e[2])}
    BY Zenon DEF RankOrder, better
  <2> HIDE DEF B
  <2> QED BY <2>1
<1>3. Orders(B, S)
  <2>1. \A x \in S : ~better(x, x)
    BY <1>1, ExceedsOrders
  <2>2. \A x, y, z \in S : better(x, y) /\ better(y, z) => better(x, z)
    <3> SUFFICES ASSUME NEW x \in S, NEW y \in S, NEW z \in S, better(x, y), better(y, z)
                 PROVE  better(x, z)
      OBVIOUS
    <3>1. x \in Nat /\ y \in Nat /\ z \in Nat
      BY <1>1
    <3>2. x < y /\ y < z => x < z
      BY <3>1
    <3> QED BY <1>1, <3>2, ExceedsOrders
  <2>3. \A x, y \in S : x # y => better(x, y) \/ better(y, x)
    <3> SUFFICES ASSUME NEW x \in S, NEW y \in S, x # y PROVE better(x, y) \/ better(y, x)
      OBVIOUS
    <3>1. x < y \/ y < x
      BY <1>1
    <3> QED BY <1>1, <3>1, ExceedsOrders
  <2> HIDE DEF better, B
  <2> QED BY <1>2, <2>1, <2>2, <2>3 DEF Orders
<1>4. \A x \in S : {y \in S : better(y, x)} = Preceding(B, S, x)
  <2> HIDE DEF better, B
  <2> QED BY <1>2 DEF Preceding
<1>5. PutInPlace(order, S, B)
  <2> DEFINE pick(i) == CHOOSE x \in S : Cardinality({y \in S : better(y, x)}) = i - 1
  <2>1. order = [i \in 1..Cardinality(S) |-> pick(i)]
    BY Zenon DEF InOrder
  <2> HIDE DEF order, better, B
  <2>2. ASSUME NEW i \in 1..Cardinality(S)
        PROVE  order[i] \in S /\ Cardinality(Preceding(B, S, order[i])) = i - 1
    <3>1. \E x \in S : Cardinality(Preceding(B, S, x)) = i - 1
      BY <1>1, <1>3, PlacesFilled
    <3>2. \E x \in S : Cardinality({y \in S : better(y, x)}) = i - 1
      BY <3>1, <1>4
    <3>3. order[i] = pick(i)
      <4> HIDE DEF pick
      <4> QED BY <2>1
    <3>4. order[i] \in S /\ Cardinality({y \in S : better(y, order[i])}) = i - 1
      BY <3>2, <3>3, Zenon
    <3> QED BY <3>4, <1>4
  <2>3. order = [i \in 1..Cardinality(S) |-> order[i]]
    <3> HIDE DEF pick
    <3> QED BY <2>1
  <2> QED BY <2>2, <2>3 DEF PutInPlace
<1>6. Ranked(S) = order
  BY Zenon DEF Ranked
<1> HIDE DEF order, B
<1>7. Lists(order, S, B)
  BY <1>1, <1>3, <1>5, OrderLists
<1> QED BY <1>6, <1>7 DEF B

\* One row after the other.
LEMMA RowsJoined ==
  ASSUME NEW S, NEW a \in Seq(S), NEW b \in Seq(S)
  PROVE  /\ a \o b \in Seq(S) /\ Len(a \o b) = Len(a) + Len(b)
         /\ DOMAIN (a \o b) = 1..(Len(a) + Len(b))
         /\ \A k \in 1..(Len(a) + Len(b)) :
              (a \o b)[k] = IF k <= Len(a) THEN a[k] ELSE b[k - Len(a)]
OBVIOUS

\* The standings of poker: whoever is seated, then whoever left, each part by rank.
PokerOrderIs(o) ==
  LET n == Len(players) IN
  /\ o \in Seq(Player) /\ IsInjective(o) /\ Len(o) = n + Len(leftPlayers)
  /\ ToSet(o) = ToSet(players) \cup ToSet(leftPlayers)
  /\ \A k \in 1..n : o[k] \in ToSet(players)
  /\ \A k \in (n + 1)..Len(o) : o[k] \in ToSet(leftPlayers)
  /\ \A i, j \in 1..Len(o) : i < j /\ (i <= n <=> j <= n) =>
       \/ Exceeds(PokerResult(o[i]), PokerResult(o[j]))
       \/ PokerResult(o[i]) = PokerResult(o[j])

LEMMA PokerStandingsAre ==
  ASSUME TableOk(players, leftPlayers, extra)
  PROVE  PokerOrderIs(PokerStandings)
<1> DEFINE seated == ToSet(players)
           gone == ToSet(leftPlayers)
           a == Ranked(seated)
           b == Ranked(gone)
           n == Len(players)
           m == Len(leftPlayers)
           o == a \o b
<1>1. /\ players \in Seq(Player) /\ leftPlayers \in Seq(Player) /\ seated \cap gone = {}
      /\ IsInjective(players) /\ IsInjective(leftPlayers) /\ extra \in PokerState
      /\ n \in Nat /\ m \in Nat
  BY DEF TableOk
<1>2. /\ seated \in SUBSET Player /\ gone \in SUBSET Player
      /\ Cardinality(seated) = n /\ Cardinality(gone) = m
  <2>1. \A s \in Seq(Player) : ToSet(s) \in SUBSET Player
    BY DEF ToSet
  <2>2. Cardinality(seated) = n
    BY <1>1, LengthIsCount
  <2>3. Cardinality(gone) = m
    BY <1>1, LengthIsCount
  <2> QED BY <1>1, <2>1, <2>2, <2>3
<1>3. PokerStandings = o
  BY Zenon DEF PokerStandings, Ranked
<1> HIDE DEF seated, gone
<1>4. Lists(a, seated, RankOrder(seated)) /\ Lists(b, gone, RankOrder(gone))
  BY <1>1, <1>2, RankedLists
<1> HIDE DEF a, b, n, m
<1>5. /\ a \in Seq(Player) /\ Len(a) = n /\ \A k \in 1..n : a[k] \in seated
      /\ b \in Seq(Player) /\ Len(b) = m /\ \A k \in 1..m : b[k] \in gone
      /\ DOMAIN a = 1..n /\ DOMAIN b = 1..m
  BY <1>2, <1>4 DEF Lists
<1>6. /\ o \in Seq(Player) /\ Len(o) = n + m /\ DOMAIN o = 1..(n + m)
      /\ \A k \in 1..n : o[k] = a[k]
      /\ \A k \in (n + 1)..(n + m) : o[k] = b[k - n] /\ k - n \in 1..m
      /\ \A k \in 1..m : o[n + k] = b[k] /\ n + k \in 1..(n + m)
  <2>1. /\ o \in Seq(Player) /\ Len(o) = n + m /\ DOMAIN o = 1..(n + m)
        /\ \A k \in 1..(n + m) : o[k] = IF k <= n THEN a[k] ELSE b[k - n]
    <3>1. a \in Seq(Player) /\ b \in Seq(Player) /\ Len(a) = n /\ Len(b) = m
      BY <1>5
    <3> QED BY ONLY <3>1, RowsJoined
  <2> HIDE DEF o
  <2>2. \A k \in 1..n : k \in 1..(n + m) /\ k <= n
    BY <1>1
  <2>3. \A k \in (n + 1)..(n + m) : k \in 1..(n + m) /\ ~(k <= n) /\ k - n \in 1..m
    BY <1>1
  <2>4. \A k \in 1..m : n + k \in 1..(n + m) /\ ~(n + k <= n) /\ (n + k) - n = k
    BY <1>1
  <2>5. \A k \in 1..n : o[k] = a[k]
    BY <2>1, <2>2
  <2>6. \A k \in (n + 1)..(n + m) : o[k] = b[k - n]
    BY <2>1, <2>3
  <2>7. \A k \in 1..m : o[n + k] = b[k]
    BY <2>1, <2>4
  <2> QED BY <2>1, <2>3, <2>4, <2>5, <2>6, <2>7
<1> HIDE DEF o
<1>7. /\ \A k \in 1..n : o[k] \in seated
      /\ \A k \in (n + 1)..(n + m) : o[k] \in gone
  BY <1>5, <1>6
<1>8. IsInjective(o)
  <2> SUFFICES ASSUME NEW i \in 1..(n + m), NEW j \in 1..(n + m), o[i] = o[j] PROVE i = j
    BY <1>6 DEF IsInjective
  <2>1. CASE i <= n /\ j <= n
    <3>1. i \in 1..n /\ j \in 1..n
      BY <1>1, <2>1
    <3> QED BY <1>4, <1>5, <1>6, <3>1 DEF Lists, IsInjective
  <2>2. CASE i > n /\ j > n
    <3>1. i - n \in 1..m /\ j - n \in 1..m /\ b[i - n] = b[j - n]
      BY <1>1, <1>6, <2>2
    <3>2. i - n = j - n
      BY <1>4, <1>5, <3>1 DEF Lists, IsInjective
    <3> QED BY <1>1, <3>2
  <2>3. CASE ~(i > n <=> j > n)
    <3>1. \/ i \in 1..n /\ j \in (n + 1)..(n + m)
          \/ j \in 1..n /\ i \in (n + 1)..(n + m)
      BY <1>1, <2>3
    <3> QED BY <1>1, <1>7, <3>1 DEF seated, gone
  <2> QED BY <1>1, <2>1, <2>2, <2>3
<1>9. ToSet(o) = seated \cup gone
  <2>1. ASSUME NEW p \in seated PROVE p \in ToSet(o)
    <3>1. PICK k \in 1..n : a[k] = p
      BY <2>1, <1>4, <1>5 DEF Lists, ToSet
    <3>2. k \in 1..(n + m)
      BY <1>1
    <3> QED BY <1>6, <3>1, <3>2 DEF ToSet
  <2>2. ASSUME NEW p \in gone PROVE p \in ToSet(o)
    <3>1. PICK k \in 1..m : b[k] = p
      BY <2>2, <1>4, <1>5 DEF Lists, ToSet
    <3> QED BY <1>6, <3>1 DEF ToSet
  <2>3. ASSUME NEW p \in ToSet(o) PROVE p \in seated \cup gone
    <3>1. PICK k \in 1..(n + m) : o[k] = p
      BY <2>3, <1>6 DEF ToSet
    <3>2. k \in 1..n \/ k \in (n + 1)..(n + m)
      BY <1>1
    <3> QED BY <1>7, <3>1, <3>2
  <2> QED BY <2>1, <2>2, <2>3
<1>10. ASSUME NEW i \in 1..(n + m), NEW j \in 1..(n + m), i < j, i <= n <=> j <= n
       PROVE  \/ Exceeds(PokerResult(o[i]), PokerResult(o[j]))
              \/ PokerResult(o[i]) = PokerResult(o[j])
  <2>0. \A S, x, y : <<x, y>> \in RankOrder(S) =>
          Exceeds(PokerResult(x), PokerResult(y)) \/ PokerResult(x) = PokerResult(y)
    BY DEF RankOrder
  <2>1. CASE j <= n
    <3>1. i \in 1..n /\ j \in 1..n
      BY <1>1, <1>10, <2>1
    <3>2. <<a[i], a[j]>> \in RankOrder(seated)
      BY <1>4, <1>5, <1>10, <3>1 DEF Lists
    <3> QED BY <1>6, <2>0, <3>1, <3>2
  <2>2. CASE ~(j <= n)
    <3>1. /\ i \in (n + 1)..(n + m) /\ j \in (n + 1)..(n + m) /\ i - n < j - n
      BY <1>1, <1>10, <2>2
    <3>2. <<b[i - n], b[j - n]>> \in RankOrder(gone)
      BY <1>4, <1>5, <1>6, <3>1 DEF Lists
    <3> QED BY <1>6, <2>0, <3>1, <3>2
  <2> QED BY <2>1, <2>2
<1> QED BY <1>3, <1>6, <1>7, <1>8, <1>9, <1>10 DEF PokerOrderIs, n, m, seated, gone

\* Poker's standings: one place each, leavers below, and equals share.
LEMMA PokerPlaces ==
  ASSUME PokerInv
  PROVE  PlacesRight
<1> DEFINE result == [p \in Player |-> PokerResult(p)]
           score == [p \in Player |-> Score(p)]
           order == Standings
           n == Len(players)
           m == Len(leftPlayers)
           left(i) == order[i] \in ToSet(leftPlayers)
<1>1. /\ TableOk(players, leftPlayers, extra) /\ game = "poker"
      /\ players \in Seq(Player) /\ leftPlayers \in Seq(Player) /\ IsInjective(leftPlayers)
      /\ ToSet(players) \cap ToSet(leftPlayers) = {} /\ extra \in PokerState
      /\ n \in Nat /\ m \in Nat
  BY DEF PokerInv, TableOk
<1>2. PokerOrderIs(PokerStandings)
  BY <1>1, PokerStandingsAre
<1>3. /\ order = WithLeavers(PokerStandings)
      /\ \A p : Score(p) = PokerResult(p)
  BY <1>1 DEF Standings, Score
<1>4. score = result
  BY <1>3
<1> HIDE DEF order, result, score
<1>5. /\ PokerStandings \in Seq(Player) /\ IsInjective(PokerStandings) /\ Len(PokerStandings) = n + m
      /\ ToSet(PokerStandings) = ToSet(players) \cup ToSet(leftPlayers)
      /\ \A k \in 1..n : PokerStandings[k] \in ToSet(players)
      /\ \A k \in (n + 1)..(n + m) : PokerStandings[k] \in ToSet(leftPlayers)
  BY <1>2 DEF PokerOrderIs
<1>6. Followed(order, PokerStandings)
  BY <1>1, <1>3, <1>5, LeaversFollow
<1>7. /\ order \in Seq(Player) /\ IsInjective(order) /\ Len(order) = n + m
      /\ ToSet(order) = ToSet(players) \cup ToSet(leftPlayers)
      /\ \A k \in 1..(n + m) : order[k] = PokerStandings[k]
  <2>1. /\ order \in Seq(Player) /\ IsInjective(order) /\ n + m <= Len(order)
        /\ ToSet(order) = ToSet(players) \cup ToSet(leftPlayers)
        /\ \A k \in 1..(n + m) : order[k] = PokerStandings[k]
        /\ \A k \in (n + m + 1)..Len(order) : order[k] \in ToSet(leftPlayers) \ ToSet(PokerStandings)
    BY <1>5, <1>6 DEF Followed
  <2>2. ToSet(leftPlayers) \ ToSet(PokerStandings) = {}
    BY <1>5
  <2>3. ~(n + m < Len(order))
    <3>1. n + m < Len(order) => Len(order) \in (n + m + 1)..Len(order)
      BY <1>1, <2>1
    <3> QED BY <2>1, <2>2, <3>1
  <2>4. Len(order) \in Nat
    BY <2>1
  <2> QED BY <1>1, <2>1, <2>3, <2>4
<1>8. Len(order) = Cardinality(EverDealtIn)
  BY <1>7, LengthIsCount DEF EverDealtIn
<1>9. \A k \in 1..Len(order) : (left(k) <=> k > n) /\ order[k] \in Player
  <2> SUFFICES ASSUME NEW k \in 1..(n + m)
               PROVE  (order[k] \in ToSet(leftPlayers) <=> k > n) /\ order[k] \in Player
    BY <1>7
  <2>1. order[k] \in Player
    BY <1>7
  <2>2. CASE k <= n
    <3>1. k \in 1..n
      BY <1>1, <2>2
    <3> QED BY <1>1, <1>5, <1>7, <2>1, <2>2, <3>1
  <2>3. CASE ~(k <= n)
    <3>1. k \in (n + 1)..(n + m)
      BY <1>1, <2>3
    <3> QED BY <1>1, <1>5, <1>7, <2>1, <2>3, <3>1
  <2> QED BY <2>2, <2>3
<1>10. \A i, j \in 1..Len(order) : i < j /\ (left(i) <=> left(j)) =>
         \/ Exceeds(result[order[i]], result[order[j]])
         \/ result[order[i]] = result[order[j]]
  <2> SUFFICES ASSUME NEW i \in 1..Len(order), NEW j \in 1..Len(order), i < j, left(i) <=> left(j)
               PROVE  \/ Exceeds(result[order[i]], result[order[j]])
                      \/ result[order[i]] = result[order[j]]
    OBVIOUS
  <2>1. i <= n <=> j <= n
    BY <1>1, <1>9
  <2>2. \/ Exceeds(PokerResult(PokerStandings[i]), PokerResult(PokerStandings[j]))
        \/ PokerResult(PokerStandings[i]) = PokerResult(PokerStandings[j])
    BY <1>2, <1>7, <2>1 DEF PokerOrderIs
  <2>3. order[i] = PokerStandings[i] /\ order[j] = PokerStandings[j]
    BY <1>7
  <2>4. result[order[i]] = PokerResult(order[i]) /\ result[order[j]] = PokerResult(order[j])
    BY <1>9 DEF result
  <2> QED BY <2>2, <2>3, <2>4
<1>11. \A k \in 1..Len(order) : result[order[k]] \in Results
  BY <1>1, <1>9, ResultsTyped DEF result
<1>12. Grouped(order, result)
  <2> SUFFICES ASSUME NEW i \in 1..Len(order), NEW k \in 1..Len(order), NEW j \in 1..Len(order),
                      i < k, k < j, SamePlace(order[i], order[j], result)
               PROVE  SamePlace(order[i], order[k], result)
    BY DEF Grouped
  <2>1. result[order[i]] = result[order[j]] /\ (left(i) <=> left(j))
    BY DEF SamePlace
  <2>2. left(k) <=> left(i)
    <3>1. (i > n => k > n) /\ (k > n => j > n)
      BY <1>1
    <3> QED BY <1>9, <2>1, <3>1
  <2>3. /\ \/ Exceeds(result[order[i]], result[order[k]])
           \/ result[order[i]] = result[order[k]]
        /\ \/ Exceeds(result[order[k]], result[order[j]])
           \/ result[order[k]] = result[order[j]]
    BY <1>10, <2>1, <2>2
  <2>4. result[order[i]] = result[order[k]]
    BY <1>11, <2>1, <2>3, ExceedsOrders
  <2> QED BY <2>2, <2>4 DEF SamePlace
<1>13. ASSUME NEW i \in 1..Len(order), NEW j \in 1..Len(order), i < j
       PROVE  /\ left(i) => left(j)
              /\ (Places(order, score)[i] = Places(order, score)[j])
                   <=> (left(i) = left(j) /\ Score(order[i]) = Score(order[j]))
  <2>1. left(i) => left(j)
    BY <1>1, <1>9, <1>13
  <2>2. Places(order, result)[i] = Places(order, result)[j] <=> SamePlace(order[i], order[j], result)
    BY <1>7, <1>12, <1>13, EqualsShare
  <2>3. result[order[i]] = Score(order[i]) /\ result[order[j]] = Score(order[j])
    BY <1>3, <1>9 DEF result
  <2>4. SamePlace(order[i], order[j], result)
          <=> (left(i) = left(j) /\ result[order[i]] = result[order[j]])
    BY DEF SamePlace
  <2> QED BY <1>4, <2>1, <2>2, <2>3, <2>4
<1>14. ToSet(order) = EverDealtIn
  BY <1>7 DEF EverDealtIn
<1> QED BY <1>8, <1>13, <1>14, Zenon DEF PlacesRight, order, score

\* Everybody dealt in to poker gets one place, leavers below whoever stayed, and a place is
\* shared only by equal chips, busts and hands (rankPlayers, standingsLocked, placesLocked).
THEOREM PokerPlacesRight == PokerSpec => []PlacesRight
<1>1. PokerInv => PlacesRight
  BY PokerPlaces
<1> QED BY <1>1, PokerCorrect, PTL

\* The first of the standings is seated.
FirstSeated == players # <<>> => PokerStandings[1] \in ToSet(players)

LEMMA PokerKeepsMatchStep ==
  ASSUME PokerInv, FirstSeated', GamesNext
  PROVE  [TheMatch!MatchNext]_(TheMatch!mvars)
<1>1. game = "poker" /\ TableOk(players, leftPlayers, extra) /\ players \in Seq(Player)
  BY DEF PokerInv, TableOk
<1>2. PokerNext
  BY <1>1 DEF GamesNext, UnoNext, EightsNext, HeartsNext, GinNext
<1>3. ASSUME NEW i \in 0..(Len(players) - 1), PokerStart(i)
      PROVE  [TheMatch!MatchNext]_(TheMatch!mvars)
  <2>1. /\ phase = "Waiting" /\ phase' = "Playing" /\ players' = players
        /\ UNCHANGED <<reason, winner>>
    BY <1>3 DEF PokerStart, Opened
  <2>2. ToSet(players) # {}
    <3>1. 1 \in DOMAIN players
      BY <1>1
    <3> QED BY <3>1 DEF ToSet
  <2>3. TheMatch!Begin
    BY <2>1, <2>2 DEF TheMatch!Begin, TheMatch!Becomes, TheMatch!Now
  <2> QED BY <2>3 DEF TheMatch!MatchNext
<1>4. ASSUME phase = "Playing", NEW o, AfterMove(o.x.matchComplete, PokerStandings', o.over)
      PROVE  [TheMatch!MatchNext]_(TheMatch!mvars)
  <2>1. players' = players /\ players # <<>>
    BY <1>1, <1>4 DEF AfterMove, PokerInv, PlayingOk
  <2>2. PokerStandings'[1] \in ToSet(players)
    BY <2>1 DEF FirstSeated
  <2> QED BY <1>4, <2>2, MoveMatches
<1>5. ASSUME NEW y, Bet(y), phase = "Playing" PROVE [TheMatch!MatchNext]_(TheMatch!mvars)
  <2>1. PICK o \in AfterBetting(y, players, leftPlayers, currentTurn) :
          AfterMove(o.x.matchComplete, PokerStandings', o.over)
    BY <1>5 DEF Bet
  <2> QED BY <1>4, <1>5, <2>1
<1>6. ASSUME NEW p \in Player,
             \/ Fold(p) \/ Check(p) \/ Call(p) \/ AllIn(p)
             \/ \E amount \in 1..(DefaultStack * Cardinality(Player)) : RaiseTo(p, amount)
      PROVE  [TheMatch!MatchNext]_(TheMatch!mvars)
  <2>1. phase = "Playing" /\ \E y : Bet(y)
    BY <1>6 DEF Fold, Check, Call, AllIn, RaiseTo, MayBet, MayAct
  <2> QED BY <1>5, <2>1
<1>7. ASSUME NEW p \in Player, NextHand(p) PROVE [TheMatch!MatchNext]_(TheMatch!mvars)
  <2>1. PICK o \in BeginHand(extra, players, leftPlayers,
                             NextFundedSeat(extra, players, extra.dealer)) :
          AfterMove(o.x.matchComplete, PokerStandings', o.over)
    BY <1>7 DEF NextHand
  <2>2. phase = "Playing"
    BY <1>7 DEF NextHand, MayAct
  <2> QED BY <1>4, <2>1, <2>2
<1>8. ASSUME NEW p \in Player, PokerLeave(p) PROVE [TheMatch!MatchNext]_(TheMatch!mvars)
  <2>1. phase = "Playing" /\ Seated(p) /\ SeatsOk
    BY <1>1, <1>8 DEF PokerLeave, SeatsOk, TableOk
  <2>2. PICK o \in AfterPlayerRemoved(FoldLeaver(extra, p), SeatsWithout(p),
                                      Append(leftPlayers, p), SeatOf(p), CursorWithout(p)) :
          AfterLeave(p, o.x.matchComplete, PokerStandings', o.over)
    BY <1>8 DEF PokerLeave
  <2>3. players' # <<>> => PokerStandings'[1] \in ToSet(players')
    BY DEF FirstSeated
  <2> QED BY <2>1, <2>2, <2>3, LeaveMatches
<1> QED BY <1>2, <1>3, <1>6, <1>7, <1>8 DEF PokerNext

\* With the rules of poker a table keeps what the abstract match promises the lobby: it ends
\* once, for a reason that fits its seats, and the winner is never somebody who left, however
\* the chips lie (CheckWinCondition, rankPlayers, removePlayerLocked).
THEOREM PokerKeepsMatch == PokerSpec => KeepsMatch
<1>1. PokerInv => FirstSeated
  <2> SUFFICES ASSUME PokerInv, players # <<>> PROVE PokerStandings[1] \in ToSet(players)
    BY DEF FirstSeated
  <2>1. TableOk(players, leftPlayers, extra) /\ 1 \in 1..Len(players)
    BY DEF PokerInv, TableOk
  <2>2. PokerOrderIs(PokerStandings)
    BY <2>1, PokerStandingsAre
  <2> QED BY <2>1, <2>2 DEF PokerOrderIs
<1>2. PokerInv /\ FirstSeated' /\ [GamesNext]_tvars => [TheMatch!MatchNext]_(TheMatch!mvars)
  <2> SUFFICES ASSUME PokerInv, FirstSeated', [GamesNext]_tvars
               PROVE  [TheMatch!MatchNext]_(TheMatch!mvars)
    OBVIOUS
  <2>1. CASE UNCHANGED tvars
    BY <2>1 DEF tvars, seating, TheMatch!mvars
  <2>2. CASE GamesNext
    BY <2>2, PokerKeepsMatchStep
  <2> QED BY <2>1, <2>2
<1> QED BY <1>1, <1>2, PokerCorrect, PTL DEF PokerSpec, KeepsMatch
=============================================================================
