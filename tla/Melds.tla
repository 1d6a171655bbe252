------------------------------- MODULE Melds -------------------------------
(***************************************************************************)
(* The arithmetic of a gin rummy knock: which splits of a hand into melds  *)
(* there are and which leaves the least deadwood                           *)
(* (internal/game/ginrummy/melds.go), and what a defender may lay off on   *)
(* the knocker's melds (layoffs.go).                                       *)
(*                                                                         *)
(* The order of a hand decides which of several equally good splits the    *)
(* search keeps and in which order cards are laid off.  Hands are sets     *)
(* here, so every one of those outcomes is possible.                       *)
(***************************************************************************)
EXTENDS Table

\* sumDeadwood
Pips(cards) == SumFunction([c \in cards |-> PipValue(c.rank)])

\* setMasks: three or four of a rank.
Sets(hand) ==
  UNION {{m \in SUBSET {c \in hand : c.rank = r} : Cardinality(m) \in 3..4} :
           r \in {c.rank : c \in hand}}

OfSuit(hand, s) == {c \in hand : c.suit = s}

\* Mutant: a block of three is taken for too short.
LongerRuns(hand) ==
  {m \in {{c \in OfSuit(hand, a.suit) : RunOrder(c.rank) \in RunOrder(a.rank)..RunOrder(b.rank)} :
            a, b \in hand} : Cardinality(m) >= 4}

\* runMasks: every stretch of three or more out of a block of consecutive cards.
Runs(hand) ==
  UNION {LET suited == OfSuit(hand, a.suit)
             order(c) == RunOrder(c.rank)
             upTo(b) == {c \in suited : order(c) \in order(a)..order(b)}
         IN  {upTo(b) : b \in {d \in suited : /\ order(d) >= order(a) + 2
                                              /\ order(a)..order(d) = {order(c) : c \in upTo(d)}}} :
         a \in hand}

\* generateMeldMasks
Candidates(hand) == Sets(hand) \cup Runs(hand)

Disjoint(melds) == \A m, n \in melds : m # n => m \cap n = {}

\* What bestSplitBy searches: every disjoint choice of candidates.
Splits(hand) == {melds \in SUBSET Candidates(hand) : Disjoint(melds)}

Deadwood(hand, melds) == hand \ UNION melds

\* bestMeldSplit keeps one of the splits with the least deadwood.
BestSplits(hand) ==
  LET least == Min({Pips(Deadwood(hand, m)) : m \in Splits(hand)})
  IN  {m \in Splits(hand) : Pips(Deadwood(hand, m)) = least}

LeastDeadwood(hand) == Min({Pips(Deadwood(hand, m)) : m \in Splits(hand)})

-----------------------------------------------------------------------------
(* Laying off *)

IsSet(m) == Cardinality(m) \in 3..4 /\ Cardinality({c.rank : c \in m}) = 1

IsRun(m) ==
  /\ Cardinality(m) >= 3
  /\ Cardinality({c.suit : c \in m}) = 1
  /\ LET orders == {RunOrder(c.rank) : c \in m}
     IN  orders = Min(orders)..Max(orders) /\ Cardinality(orders) = Cardinality(m)

\* canAttach
Attaches(c, m) ==
  \/ IsSet(m) /\ Cardinality(m) < 4 /\ \A d \in m : d.rank = c.rank
  \/ IsRun(m) /\ c \notin m /\ IsRun(m \cup {c})

Homes(c, melds) == {m \in melds : Attaches(c, m)}

\* findAttach: runs before sets.
Attach(c, melds) ==
  LET runs == {m \in Homes(c, melds) : IsRun(m)}
  IN  IF runs # {} THEN runs ELSE Homes(c, melds)

\* One pass of laying off: a card of "left" goes to a meld, to a run if findAttach decides.
LaidOff(s, runsFirst) ==
  LET moves == UNION {{[left  |-> s.left \ {c},
                        melds |-> (s.melds \ {m}) \cup {m \cup {c}}] :
                          m \in IF runsFirst THEN Attach(c, s.melds) ELSE Homes(c, s.melds)} : c \in s.left}
  IN  IF moves = {} THEN {s} ELSE moves

\* applyLayoffs: until no card attaches, whatever the order of the cards.
LayoffsBy(deadwood, melds, runsFirst) ==
  LET after[n \in 0..Cardinality(deadwood)] ==
        IF n = 0 THEN {[left |-> deadwood, melds |-> melds]}
        ELSE UNION {LaidOff(s, runsFirst) : s \in after[n - 1]}
  IN  {s.left : s \in after[Cardinality(deadwood)]}

Layoffs(deadwood, melds) == LayoffsBy(deadwood, melds, TRUE)

\* bestMeldSplitAgainst: the split that leaves the least after laying off.  No outcome is
\* worse than the best split in its least lucky order.
Defences(hand, melds) ==
  LET ends(m) == {Pips(left) : left \in Layoffs(Deadwood(hand, m), melds)}
      safe == Min({Max(ends(m)) : m \in Splits(hand)})
  IN  {left \in UNION {Layoffs(Deadwood(hand, m), melds) : m \in Splits(hand)} :
         Pips(left) <= safe}

-----------------------------------------------------------------------------
(* The reference: what the rules of the game entitle a hand to *)

AllMelds(hand) == {m \in SUBSET hand : IsSet(m) \/ IsRun(m)}

\* Every way to put melds down.
AllSplits(hand) == {melds \in SUBSET AllMelds(hand) : Disjoint(melds)}

LeastBare(hand) == Min({Pips(Deadwood(hand, s)) : s \in AllSplits(hand)})

\* The least a defender can be left with: over every split into melds, and every way to
\* lay cards off on whichever meld takes them.
LeastLeft(hand, melds) ==
  Min(UNION {{Pips(left) : left \in LayoffsBy(Deadwood(hand, s), melds, FALSE)} :
               s \in AllSplits(hand)})
=============================================================================
