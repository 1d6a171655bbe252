-------------------------------- MODULE Deck --------------------------------
(***************************************************************************)
(* Cards (internal/deck/card.go): records of a rank, 1 (ace) to 13 (king), *)
(* and a suit, and what the games read off a rank.  Some decks of Uno hold *)
(* the same card twice; their copies are told apart by a third field.      *)
(***************************************************************************)
EXTENDS Integers, Sequences, FiniteSets, FiniteSetsExt, SequencesExt, Functions

\* The value that decides a trick or a kicker: the ace is high.
RankValue(r) == IF r = 1 THEN 14 ELSE r

\* The order in a run: the ace is low.
RunOrder(r) == r

PipValue(r) == IF RunOrder(r) < 10 THEN RunOrder(r) ELSE 10

HasSuit(cards, suit) == \E c \in cards : c.suit = suit

\* A set in a strict order of its elements.  (SetToSortSeq tries every sequence of them.)
InOrder(S, before(_, _)) ==
  [i \in 1..Cardinality(S) |-> CHOOSE x \in S : Cardinality({y \in S : before(y, x)}) = i - 1]
=============================================================================
