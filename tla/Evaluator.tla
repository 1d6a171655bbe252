----------------------------- MODULE Evaluator -----------------------------
(***************************************************************************)
(* The hand evaluator of the poker rules                                   *)
(* (internal/game/poker/evaluator.go): a class and its kickers for any     *)
(* number of cards, found by counting ranks and suits, never by comparing  *)
(* the five-card hands they contain.                                       *)
(***************************************************************************)
EXTENDS Deck

CONSTANT EvalDeck   (* the cards: [rank, suit] *)

\* A deck of at most four suits, each card of a suit once.
ASSUME EvaluatorAssumption ==
  /\ IsFiniteSet(EvalDeck) /\ \A c \in EvalDeck : c.rank \in 1..13
  /\ \A c, d \in EvalDeck : c.rank = d.rank /\ c.suit = d.suit => c = d
  /\ Cardinality({c.suit : c \in EvalDeck}) <= 4

VARIABLE dealt      (* the cards of a hand and the board, as they are dealt *)

Classes == <<"HighCard", "Pair", "TwoPair", "ThreeOfAKind", "Straight", "Flush",
             "FullHouse", "FourOfAKind", "StraightFlush">>

ClassValue(class) == CHOOSE i \in 1..Len(Classes) : Classes[i] = class

Value(c) == RankValue(c.rank)

Values(cards) == {Value(c) : c \in cards}

\* handValue: the class first, then the kickers; score packs them in this order.
HandValue(class, ks) == <<ClassValue(class)>> \o ks \o [i \in 1..(5 - Len(ks)) |-> 0]

Beats(a, b) == \E i \in 1..6 : a[i] > b[i] /\ \A j \in 1..(i - 1) : a[j] = b[j]

Descending(vs) == InOrder(vs, >)

Top(seq, n) == SubSeq(seq, 1, n)

-----------------------------------------------------------------------------
(* rankCounts *)

Count(cards, v) == Cardinality({c \in cards : Value(c) = v})

RanksHeld(cards, n) == {v \in Values(cards) : Count(cards, v) = n}

MaxOr0(vs) == Max(vs \cup {0})

Quad(cards) == MaxOr0(RanksHeld(cards, 4))
Trip(cards) == MaxOr0(RanksHeld(cards, 3))

\* A second three of a kind is only worth a pair.
Pairs(cards) == Descending(RanksHeld(cards, 2) \cup (RanksHeld(cards, 3) \ {Trip(cards)}))

\* The i-th highest of some cards.
Nth(cards, i) ==
  CHOOSE v \in Values(cards) : /\ Cardinality({c \in cards : Value(c) > v}) < i
                               /\ Cardinality({c \in cards : Value(c) >= v}) >= i

\* kickers: the highest other cards, and zeros when they run out.
Kickers(cards, exclude, n) ==
  LET others == {c \in cards : Value(c) \notin exclude}
  IN  [i \in 1..n |-> IF i <= Cardinality(others) THEN Nth(others, i) ELSE 0]

-----------------------------------------------------------------------------
(* straightHigh and bestFlush *)

\* Mutant: the ace never plays low.
HighStraight(vs) == MaxOr0({h \in vs : (h - 4)..h \subseteq vs})

wheel == {14, 2, 3, 4, 5}

StraightHigh(vs) ==
  LET runs == {h \in vs : (h - 4)..h \subseteq vs}
  IN  IF runs # {} THEN Max(runs) ELSE IF wheel \subseteq vs THEN 5 ELSE 0

FlushSuits(cards) ==
  {s \in {c.suit : c \in cards} : Cardinality({c \in cards : c.suit = s}) >= 5}

Suited(cards, s) == Descending(Values({c \in cards : c.suit = s}))

\* The strongest flush; the strongest straight flush is looked for in every flush suit.
BestFlush(cards) ==
  LET ranks == {Top(Suited(cards, s), 5) : s \in FlushSuits(cards)}
      above(a, b) == \E i \in 1..5 : a[i] > b[i] /\ \A j \in 1..(i - 1) : a[j] = b[j]
  IN  IF ranks = {} THEN <<>> ELSE CHOOSE r \in ranks : \A q \in ranks : ~above(q, r)

StraightFlushHigh(cards) ==
  MaxOr0({StraightHigh(Values({c \in cards : c.suit = s})) : s \in FlushSuits(cards)})

\* The classes a hand fits, each with its kickers.
Readings(cards) ==
  LET quads == {Quad(cards)} \ {0}
      trips == {Trip(cards)} \ {0}
      pairs == Pairs(cards)
      pair  == ToSet(Top(pairs, Min({1, Len(pairs)})))
      second == IF Len(pairs) >= 2 THEN {pairs[2]} ELSE {}
      flushes == {BestFlush(cards)} \ {<<>>}
  IN  {HandValue("StraightFlush", <<h>>) : h \in {StraightFlushHigh(cards)} \ {0}}
      \cup {HandValue("FourOfAKind", <<q, q, q, q>> \o Kickers(cards, {q}, 1)) : q \in quads}
      \cup {HandValue("FullHouse", <<t, t, t, p, p>>) : t \in trips, p \in pair}
      \cup {HandValue("Flush", f) : f \in flushes}
      \cup {HandValue("Straight", <<h>>) : h \in {StraightHigh(Values(cards))} \ {0}}
      \cup {HandValue("ThreeOfAKind", <<t, t, t>> \o Kickers(cards, {t}, 2)) : t \in trips}
      \cup {HandValue("TwoPair", <<p, p, q, q>> \o Kickers(cards, {p, q}, 1)) :
              p \in pair, q \in second}
      \cup {HandValue("Pair", <<p, p>> \o Kickers(cards, {p}, 3)) : p \in pair}
      \cup {HandValue("HighCard", Kickers(cards, {}, 5))}

\* classify: the highest class that fits.
Classify(cards) == CHOOSE r \in Readings(cards) : \A s \in Readings(cards) : s[1] <= r[1]

\* classifyHand
ClassifyHand(cards) == IF Cardinality(cards) < 5 THEN <<0, 0, 0, 0, 0, 0>> ELSE Classify(cards)

-----------------------------------------------------------------------------
(* The reference: the best of the five-card hands, each taken at its face. *)

\* The five ranks of a hand, the most frequent first, equals by rank.
Grouped(five) ==
  LET weight(c) == 100 * Count(five, Value(c)) + Value(c)
      heaviest(i) == CHOOSE w \in {weight(c) : c \in five} :
                       /\ Cardinality({c \in five : weight(c) > w}) < i
                       /\ Cardinality({c \in five : weight(c) >= w}) >= i
  IN  [i \in 1..5 |-> heaviest(i) % 100]

\* One rank n times and another m times.
Shaped(five, n, m) == \E v, w \in Values(five) : v # w /\ Count(five, v) = n /\ Count(five, w) = m

FiveCardValue(five) ==
  LET flush == Cardinality({c.suit : c \in five}) = 1
      vs == Values(five)
      high == IF vs = wheel THEN 5 ELSE Max(vs)
      straight == Cardinality(vs) = 5 /\ (vs = wheel \/ Max(vs) - Min(vs) = 4)
      as(class) == <<ClassValue(class)>> \o Grouped(five)
  IN  CASE straight /\ flush              -> HandValue("StraightFlush", <<high>>)
        [] straight /\ ~flush             -> HandValue("Straight", <<high>>)
        [] flush /\ ~straight             -> as("Flush")
        [] Shaped(five, 4, 1)             -> as("FourOfAKind")
        [] Shaped(five, 3, 2)             -> as("FullHouse")
        [] Cardinality(vs) = 3 /\ Shaped(five, 3, 1) -> as("ThreeOfAKind")
        [] Shaped(five, 2, 2)             -> as("TwoPair")
        [] Cardinality(vs) = 4            -> as("Pair")
        [] Cardinality(vs) = 5 /\ ~flush /\ ~straight -> as("HighCard")

FaceValue == [five \in kSubset(5, EvalDeck) |-> FiveCardValue(five)]

-----------------------------------------------------------------------------
EvaluatorInit == dealt = {}

Deal(c) == c \notin dealt /\ Cardinality(dealt) < 7 /\ dealt' = dealt \cup {c}

EvaluatorNext == \E c \in EvalDeck : Deal(c)

EvaluatorSpec == EvaluatorInit /\ [][EvaluatorNext]_dealt

\* Counting finds the best five-card hand among the cards, neither more nor less, kickers
\* included, however flushes, straights, sets and pairs overlap.
EvaluatorIsBest ==
  Cardinality(dealt) >= 5 =>
    LET best == ClassifyHand(dealt)
        fives == {FaceValue[five] : five \in kSubset(5, dealt)}
    IN  best \in fives /\ \A v \in fives : ~Beats(v, best)
=============================================================================
