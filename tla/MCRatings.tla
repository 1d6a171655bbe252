------------------------------ MODULE MCRatings ------------------------------
(* Two and three seats in two games, on a short ladder with a straight curve. *)
EXTENDS Ratings

CONSTANTS poker, hearts, t1, t2, t3

MCMatches == <<
  [game |-> poker,  seats |-> <<1, 2>>,    places |-> <<1, 2>>,    ranked |-> TRUE],
  [game |-> hearts, seats |-> <<2, 1>>,    places |-> <<1, 1>>,    ranked |-> TRUE],
  [game |-> hearts, seats |-> <<3, 1, 2>>, places |-> <<1, 2, 2>>, ranked |-> TRUE],
  [game |-> poker,  seats |-> <<2, 3>>,    places |-> <<1, 2>>,    ranked |-> FALSE] >>

MCResults == {MCMatches[i] : i \in DOMAIN MCMatches}

\* Transactions are alike: it is enough to look at those numbered by their match
\* and, of the same match, by which begins first.
MCInOrder ==
  LET tx == <<t1, t2, t3>>
      Match(i) == CHOOSE m \in DOMAIN MCMatches : MCMatches[m] = result[tx[i]]
  IN  \A i, j \in 1..3 : i < j /\ tx[j] \in Tx /\ result[tx[j]] # None =>
        IF result[tx[i]] = None THEN Match(j) > 1 ELSE Match(i) <= Match(j)

\* In parts: even odds for equals, everything for two points more.
MCExpected(d) == Smaller(Larger((KFactor * Unit) \div 2 + d \div 2, 0), KFactor * Unit)

Rating(elo, played) == [elo |-> elo, played |-> played]

Ladder(first, second, third) ==
  [r \in User \X Game |-> CASE r[1] = 1 -> first [] r[1] = 2 -> second [] r[1] = 3 -> third]

\* Nobody has played; all are established, in the middle and at the ends; a fresh
\* account between two that are not.
MCLadders ==
  { Ladder(None, None, None),
    Ladder(Rating(3, 1), Rating(3, 1), Rating(4, 1)),
    Ladder(Rating(6, 1), Rating(0, 1), Rating(5, 1)),
    Ladder(Rating(0, 1), Rating(0, 2), Rating(1, 1)),
    Ladder(Rating(4, 1), Rating(3, 0), Rating(3, 1)) }
==============================================================================
