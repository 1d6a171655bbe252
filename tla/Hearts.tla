------------------------------- MODULE Hearts -------------------------------
(***************************************************************************)
(* Hearts (internal/game/hearts): four seats, a pass of cards before most  *)
(* hands, tricks with their legality rules, and points that are charged by *)
(* the hand.  A won trick stays on the table until the next one is led.    *)
(***************************************************************************)
EXTENDS Table

CONSTANTS
  HeartsDeck,      (* the cards: [rank, suit]                                     *)
  HeartsDeals(_),  (* the deals the shuffle of the n-th hand may produce          *)
  CardsPerHand,    (* 13 in the code                                              *)
  CardsToPass,     (* 3 in the code                                               *)
  PenaltyTotal,    (* the points of a hand: 26 in the code                        *)
  TargetScore      (* 100 in the code                                             *)

twoOfClubs    == [rank |-> 2, suit |-> "Clubs"]
queenOfSpades == [rank |-> 12, suit |-> "Spades"]

ASSUME HeartsAssumption ==
  /\ IsFiniteSet(HeartsDeck) /\ twoOfClubs \in HeartsDeck /\ \A c \in HeartsDeck : c.rank \in Nat
  /\ CardsPerHand \in Nat /\ CardsToPass \in 1..CardsPerHand
  /\ PenaltyTotal \in Nat /\ TargetScore \in Nat

IsPenalty(c) == c.suit = "Hearts" \/ c = queenOfSpades

\* trickPoints, for any set of cards.
Points(cards) ==
  Cardinality({c \in cards : c.suit = "Hearts"}) + IF queenOfSpades \in cards THEN 13 ELSE 0

NoTrick == [p \in {} |-> None]

OnTable == Range(extra.trick)

\* A won trick that still lies on the table is not one in progress.
LeadingTrick == extra.trickComplete \/ extra.trick = NoTrick

-----------------------------------------------------------------------------
(* Dealing: resetHandState and beginHand *)

PassDirections == <<"left", "right", "across", "hold">>

DirectionOf(hand) == PassDirections[((hand - 1) % 4) + 1]

\* findTwoOfClubs
TwoOfClubsSeat(hs) == SeatOf(CHOOSE p \in ToSet(players) : twoOfClubs \in hs[p])

NoPoints == [p \in Player |-> 0]

FreshHand(hand, dealer, totals) ==
  [stage         |-> IF DirectionOf(hand) = "hold" THEN "TrickPlay" ELSE "Passing",
   pending       |-> [p \in {} |-> {}],
   ledSuit       |-> None,
   trick         |-> NoTrick,
   trickComplete |-> FALSE,
   trickLeader   |-> 0,
   heartsBroken  |-> FALSE,
   tricksPlayed  |-> 0,
   points        |-> NoPoints,
   totals        |-> totals,
   handNumber    |-> hand,
   dealer        |-> dealer,
   handComplete  |-> FALSE,
   matchComplete |-> FALSE]

\* The seat beginHand puts on turn: the dealer passes first, or the 2 of clubs leads.
FirstSeat(hand, dealer, hs) ==
  IF DirectionOf(hand) = "hold" THEN TwoOfClubsSeat(hs) ELSE dealer

HeartsBeginHand(hand, dealer, totals) ==
  /\ hands' \in HeartsDeals(hand)
  /\ extra' = FreshHand(hand, dealer, totals)

HeartsInit(seats) ==
  /\ game = "hearts"
  /\ players = seats
  /\ extra = FreshHand(0, 0, NoPoints)

HeartsStart(first) ==
  /\ phase = "Waiting"
  /\ HeartsBeginHand(1, first, NoPoints)
  /\ Opened(FirstSeat(1, first, hands'))
  /\ UNCHANGED piles

-----------------------------------------------------------------------------
(* Standings: the lower score is the better one *)

\* Until the hand is scored, its points count on top of the totals.
HeartsScore(p) ==
  extra.totals[p] + IF extra.handComplete THEN 0 ELSE extra.points[p]

HeartsStandings == ByScore(players, [p \in Player |-> HeartsScore(p)])

-----------------------------------------------------------------------------
(* The pass *)

Passed(p) == p \in DOMAIN extra.pending

\* passRecipient
Recipient(seat, direction) ==
  CASE direction = "left"   -> (seat + 1) % Len(players)
    [] direction = "right"  -> (seat - 1) % Len(players)
    [] direction = "across" -> (seat + 2) % Len(players)

\* applyAllPasses: everybody's cards reach their recipient at once.
AfterAllPasses(hs, pending) ==
  LET giver(p) == CHOOSE q \in ToSet(players) :
                    SeatAt(Recipient(SeatOf(q), DirectionOf(extra.handNumber))) = p
  IN  [p \in Player |-> IF Seated(p) THEN hs[p] \cup pending[giver(p)] ELSE hs[p]]

\* nextUnpassedSeat
NextUnpassed(pending) ==
  LET open == {k \in 1..Len(players) :
                 SeatAt((currentTurn + k) % Len(players)) \notin DOMAIN pending}
  IN  (currentTurn + Min(open)) % Len(players)

PassCards(p, cards) ==
  LET rest    == [hands EXCEPT ![p] = @ \ cards]
      pending == [q \in DOMAIN extra.pending \cup {p} |->
                    IF q = p THEN cards ELSE extra.pending[q]]
      swapped == AfterAllPasses(rest, pending)
  IN
  /\ MayAct(p) /\ extra.stage = "Passing"
  /\ ~Passed(p) /\ cards \subseteq hands[p]
  /\ \/ /\ Cardinality(DOMAIN pending) < Len(players)
        /\ hands' = rest
        /\ extra' = [extra EXCEPT !.pending = pending]
        /\ AfterMove(FALSE, HeartsStandings, NextUnpassed(pending))
     \/ /\ Cardinality(DOMAIN pending) = Len(players)
        /\ hands' = swapped
        /\ extra' = [extra EXCEPT !.stage = "TrickPlay", !.pending = [q \in {} |-> {}]]
        /\ AfterMove(FALSE, HeartsStandings, TwoOfClubsSeat(swapped))
  /\ UNCHANGED piles

-----------------------------------------------------------------------------
(* The play *)

\* Mutant: a hand without anything else may not lead hearts either.
LeadsHeartsNever(hand, c) == LeadingTrick /\ c.suit = "Hearts" /\ ~extra.heartsBroken

LeadsHeartsEarly(hand, c) ==
  /\ LeadingTrick
  /\ c.suit = "Hearts"
  /\ ~extra.heartsBroken
  /\ \E d \in hand : d.suit # "Hearts"

Revokes(hand, c) ==
  /\ ~LeadingTrick
  /\ c.suit # extra.ledSuit
  /\ HasSuit(hand, extra.ledSuit)

DumpsOnTrickOne(hand, c) ==
  /\ extra.tricksPlayed = 0
  /\ IsPenalty(c)
  /\ \E d \in hand : ~IsPenalty(d)

\* validatePlayCard
Playable(hand, c) ==
  /\ c \in hand
  /\ LeadingTrick /\ extra.tricksPlayed = 0 => c = twoOfClubs
  /\ ~LeadsHeartsEarly(hand, c)
  /\ ~Revokes(hand, c)
  /\ ~DumpsOnTrickOne(hand, c)

\* trickWinner: the highest card of the led suit.
TrickWinner(trick, led) ==
  CHOOSE p \in DOMAIN trick :
    /\ trick[p].suit = led
    /\ \A q \in DOMAIN trick :
         trick[q].suit = led => RankValue(trick[q].rank) <= RankValue(trick[p].rank)

\* scoreHand: whoever took every point charges them all to each of the others.
Scored(points, totals) ==
  LET shooters == {p \in ToSet(players) : points[p] = PenaltyTotal} IN
  [p \in Player |->
     totals[p] + IF shooters = {} THEN points[p]
                 ELSE IF p \in shooters THEN 0 ELSE PenaltyTotal]

AnyScoreAtLeast(scores, target) == \E p \in DOMAIN scores : scores[p] >= target

\* startTrick and ApplyAction: a won trick is swept by the next card.
WithCard(p, c) ==
  LET leads == LeadingTrick
      table == IF leads THEN NoTrick ELSE extra.trick
  IN  [extra EXCEPT
         !.trick         = [q \in DOMAIN table \cup {p} |-> IF q = p THEN c ELSE table[q]],
         !.trickComplete = FALSE,
         !.ledSuit       = IF leads THEN c.suit ELSE @,
         !.trickLeader   = IF leads THEN currentTurn ELSE @,
         !.heartsBroken  = @ \/ c.suit = "Hearts"]

\* afterPlay, when the last seat has played: the winner is charged the trick.
WithTrickWon(x) ==
  [x EXCEPT !.points[TrickWinner(x.trick, x.ledSuit)] = @ + Points(Range(x.trick)),
            !.tricksPlayed = @ + 1,
            !.trickComplete = TRUE]

WithHandScored(x) ==
  LET totals == Scored(x.points, x.totals) IN
  [x EXCEPT !.totals = totals,
            !.stage = "HandOver",
            !.handComplete = TRUE,
            !.matchComplete = AnyScoreAtLeast(totals, TargetScore)]

PlayCard(p, c) ==
  LET played == WithCard(p, c)
      won    == WithTrickWon(played)
      scored == WithHandScored(won)
  IN
  /\ MayAct(p) /\ extra.stage = "TrickPlay"
  /\ Playable(hands[p], c)
  /\ hands' = [hands EXCEPT ![p] = @ \ {c}]
  /\ \/ /\ Cardinality(DOMAIN played.trick) < Len(players)
        /\ extra' = played
        /\ AfterMove(FALSE, HeartsStandings, None)
     \/ /\ Cardinality(DOMAIN played.trick) = Len(players)
        /\ won.tricksPlayed < CardsPerHand
        /\ extra' = won
        /\ AfterMove(FALSE, HeartsStandings, SeatOf(TrickWinner(played.trick, played.ledSuit)))
     \/ /\ Cardinality(DOMAIN played.trick) = Len(players)
        /\ won.tricksPlayed = CardsPerHand
        /\ extra' = scored
        /\ AfterMove(scored.matchComplete, HeartsStandings', (extra.dealer + 1) % Len(players))
  /\ UNCHANGED piles

\* The seat after the last dealer deals.
NextHeartsHand(p) ==
  /\ MayAct(p) /\ extra.stage = "HandOver"
  /\ HeartsBeginHand(extra.handNumber + 1, currentTurn, extra.totals)
  /\ AfterMove(FALSE, HeartsStandings, FirstSeat(extra.handNumber + 1, currentTurn, hands'))
  /\ UNCHANGED piles

\* OnPlayerLeave: three cannot play on, so any leave ends the match on the scores so far.
HeartsLeave(p) ==
  /\ phase = "Playing" /\ Seated(p)
  /\ extra' = [extra EXCEPT !.matchComplete = TRUE]
  /\ AfterLeave(p, extra'.matchComplete, HeartsStandings', None)
  /\ UNCHANGED <<hands, piles>>

-----------------------------------------------------------------------------
(* What the clock plays: TimeoutAction *)

\* threeLowestCards; suits break ties, so any choice among equals stands for them.
LowestCards(hand) ==
  CHOOSE s \in kSubset(CardsToPass, hand) :
    \A c \in s, d \in hand \ s : RankValue(c.rank) <= RankValue(d.rank)

HeartsNext ==
  /\ game = "hearts"
  /\ \/ \E i \in 0..(Len(players) - 1) : HeartsStart(i)
     \/ \E p \in Player : NextHeartsHand(p) \/ HeartsLeave(p)
     \/ \E p \in Player : \E cards \in kSubset(CardsToPass, hands[p]) : PassCards(p, cards)
     \/ \E p \in Player, c \in HeartsDeck : PlayCard(p, c)
=============================================================================
