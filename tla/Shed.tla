-------------------------------- MODULE Shed --------------------------------
(***************************************************************************)
(* What the shedding games share (internal/game/shed.go): the first empty  *)
(* hand wins, an empty stock is refilled from under the top of the discard *)
(* pile, and a board nobody can draw from is counted out by "passes".      *)
(***************************************************************************)
EXTENDS Table

CONSTANTS
  Suit,      (* the suits, or Uno's colours        *)
  ShedDeal   (* cards in an opening hand (7)       *)

\* Drawing n cards one by one.  A draw that finds the stock empty first turns the pile
\* under its top card into the new stock (ReshuffleDiscardIntoStock); a board without
\* cards ends the drawing early.
Draws(n, stock, pile, face) ==
  LET under == pile \ {face}
      short == n - Cardinality(stock)
      more  == IF short < Cardinality(under) THEN short ELSE Cardinality(under)
  IN  IF short <= 0
      THEN {[drawn |-> s, deck |-> stock \ s, discard |-> pile] : s \in kSubset(n, stock)}
      ELSE {[drawn |-> stock \cup s, deck |-> under \ s, discard |-> {face}] :
              s \in kSubset(more, under)}

\* The cards a pile may open on: the others are set aside and shuffled back.
Openers(stock, barred) == {c \in stock : c.rank \notin barred}

HandEmptyOrAllPassed ==
  \/ \E p \in ToSet(players) : hands[p] = {}
  \/ players # <<>> /\ extra.passes >= Len(players)

ShedScore(p) == Cardinality(hands[p])

ShedStandings == ByScore(players, [p \in Player |-> ShedScore(p)])

PassesAfter(drawn) == IF drawn = {} THEN extra.passes + 1 ELSE 0

\* Mutant: the count outlives the leaver.
PassesKept == extra.passes

\* The leaver's cards can be drawn again.
PassesOfLeaver == 0

\* Mutant: the leaver's cards leave with the leaver.
StockKept(p) == deck

\* ReturnHandToStock
StockWith(p) == deck \cup hands[p]

\* LeaveShedGame
LeaveShedGame(p) ==
  /\ hands' = [hands EXCEPT ![p] = {}]
  /\ deck' = StockWith(p)
  /\ extra' = [extra EXCEPT !.passes = PassesOfLeaver]
  /\ UNCHANGED <<discard, top>>
=============================================================================
