------------------------------- MODULE Games -------------------------------
(***************************************************************************)
(* The games a table can be opened with (internal/game/registry.go): the   *)
(* real rules on the engine's seats and cursor, and what all of them owe   *)
(* the players.                                                            *)
(***************************************************************************)
EXTENDS Uno, CrazyEights, GinRummy, Hearts, Poker

GamesNext == UnoNext \/ EightsNext \/ HeartsNext \/ GinNext \/ PokerNext

NewTable ==
  /\ leftPlayers = <<>> /\ currentTurn = 0
  /\ phase = "Waiting" /\ winner = None /\ reason = None
  /\ hands = [p \in Player |-> {}]
  /\ deck = {} /\ discard = {} /\ top = None

SheddingGame == game \in {"uno", "crazy_eights"}

EverDealtIn == ToSet(players) \cup ToSet(leftPlayers)

-----------------------------------------------------------------------------
(* Cards *)

\* Hearts keeps cards outside the hands while they are passed and while a trick is played.
InPlay ==
  Held(hands) \cup (UNION Range(extra.pending))
              \cup (IF extra.trickComplete THEN {} ELSE OnTable)

\* The places a card can be in do not overlap.
Apart(places) == \A a, b \in DOMAIN places : a # b => places[a] \cap places[b] = {}

HandsApart ==
  Apart(hands) /\ \A p \in Player : hands[p] \cap (deck \cup discard) = {}

ShedDeck == IF game = "uno" THEN UnoDeck ELSE EightsDeck

DeckSharedOut ==
  /\ deck \cap discard = {} /\ top \in discard
  /\ Held(hands) \cup deck \cup discard = ShedDeck

GinCardsKept ==
  /\ deck \cap discard = {} /\ (top = None \/ top \in discard)
  /\ ~extra.handComplete => Held(hands) \cup deck \cup discard = GinDeck

PointsCharged ==
  ~extra.handComplete =>
    SumFunction(extra.points) = Points(HeartsDeck \ InPlay)

\* Cards are neither lost nor duplicated by a draw that reshuffles the pile, a leaver's
\* hand that goes back to the stock, a forced draw or a discard taken back up: the stock,
\* the pile and the hands share out the deck.  In Hearts, whose tricks leave the table, the
\* points charged so far are those of the cards that are out of play.
CardsKept ==
  /\ phase = "Playing" => HandsApart
  /\ phase # "Waiting" /\ SheddingGame => DeckSharedOut
  /\ phase = "Playing" /\ game = "gin_rummy" => GinCardsKept
  /\ phase = "Playing" /\ game = "hearts" => PointsCharged

\* A pass is only counted when nobody could have drawn: the stock is empty and there is no
\* pile to turn.  Otherwise the match could be counted out with cards left to draw.
PassesMeanStuck ==
  phase = "Playing" /\ SheddingGame /\ extra.passes > 0 => deck = {} /\ discard = {top}

-----------------------------------------------------------------------------
(* Turns *)

\* The neighbour the turn of a leaver goes to: the next seat in the direction of play.
Neighbour(p) ==
  IF game = "uno" /\ extra.direction < 0
  THEN SeatAt((SeatOf(p) - 1) % Len(players))
  ELSE SeatAt((SeatOf(p) + 1) % Len(players))

\* Leaving a shedding game never takes a turn from somebody or gives one twice: the turn of
\* a leaver goes to the neighbour in the direction of play, any other turn stays put.
LeaveKeepsTurn ==
  [][SheddingGame /\ phase' = "Playing" =>
       \A p \in ToSet(players) : p \in ToSet(leftPlayers') =>
         OnTurn' = IF p = OnTurn THEN Neighbour(p) ELSE OnTurn]_tvars

\* What the rules answer the clock with (TimeoutAction) is a move they accept themselves:
\* otherwise the clock removes somebody who only has to be waited for.
HeartsClock ==
  CASE extra.stage = "Passing"   -> ~Passed(OnTurn) /\ LowestCards(hands[OnTurn]) \subseteq hands[OnTurn]
    [] extra.stage = "TrickPlay" -> \E c \in hands[OnTurn] : Playable(hands[OnTurn], c)
    [] extra.stage = "HandOver"  -> ~extra.matchComplete

GinClock ==
  CASE extra.handPhase = "Draw"    -> AboveWall \/ top # None
    [] extra.handPhase = "Discard" ->
         LET cards == AutoDiscards(hands[OnTurn], extra.taken)
         IN  cards # {} /\ cards \subseteq hands[OnTurn] \ {extra.taken}
    [] extra.handPhase = "Over"    -> ~extra.matchComplete

PokerClock ==
  IF extra.handComplete THEN ~extra.matchComplete
  ELSE OnTurn \notin extra.folded \cup extra.allIn

ClockCanPlay ==
  phase = "Playing" =>
    CASE game = "hearts"    -> HeartsClock
      [] game = "gin_rummy" -> GinClock
      [] game = "poker"     -> PokerClock
      [] OTHER              -> TRUE

-----------------------------------------------------------------------------
(* Gin rummy *)

\* A knock is settled as the rules of the game have it, over every split of both hands and
\* every way to lay off: the greedy layoff of the code, and its search for runs of cards
\* that lie next to each other, never cost the defender a point.
KnockIsFair ==
  game = "gin_rummy" /\ extra.handComplete /\ extra.result # WallResult =>
    LET r == extra.result
        defender == CHOOSE p \in EverDealtIn : p # r.knocker
    IN  /\ r.gin = (LeastBare(hands[r.knocker]) = 0)
        /\ r.left = IF r.gin THEN LeastBare(hands[defender])
                    ELSE LeastLeft(hands[defender], r.melds)

-----------------------------------------------------------------------------
(* Poker *)

Chips == SumFunction(extra.chips)

\* No chip is made or lost, by a bet, an odd chip, a refund or a leaver, and a hand that is
\* over leaves none in the pool; only a table that everybody left may end in mid-hand.
ChipsKept ==
  game = "poker" =>
    /\ Chips + extra.pool = DefaultStack * Cardinality(EverDealtIn)
    /\ extra.handComplete => extra.pool = 0
    /\ phase = "Finished" /\ reason # "Abandoned" => extra.handComplete

\* While a hand is played, whoever is on turn owes an action and may act, and at least two
\* players contest the pot: a hand is never handed to somebody folded, broke, all in or
\* done, whoever leaves.
TurnOwes ==
  game = "poker" /\ phase = "Playing" /\ ~extra.handComplete =>
    /\ ~CannotAct(extra, OnTurn) /\ Owes(extra, OnTurn)
    /\ Cardinality(Contenders(extra, players, leftPlayers)) >= 2

PokerHandEnds ==
  extra'.handComplete /\ (~extra.handComplete \/ extra'.handNumber # extra.handNumber)

\* What a hand was worth to p: its stack against the chips p brought to the hand.
Won(p, x, y) ==
  y.chips[p] - x.chips[p] - IF y.handNumber = x.handNumber THEN x.contributed[p] ELSE 0

\* What the others put in of what p had put in.
Matched(p, c) == SumFunction([q \in Player \ {p} |-> Min({c[q], c[p]})])

\* Chips above what anybody who contests the pot put in: they go with the last pot.
DeadMoney(live, c) ==
  LET most == Max({c[p] : p \in live})
  IN  IF Cardinality(live) = 1 THEN 0
      ELSE SumFunction([p \in Player |-> Max({c[p] - most, 0})])

\* Nobody wins more from an opponent than they risked themselves, and a hand better than all
\* the others wins all of that, whatever the bets, the all-ins, the folds and the leavers.
FairlyPaid(x, y, live) ==
  LET c == y.contributed
      dead == DeadMoney(live, c)
      best(p) == p \in live /\ \A q \in live \ {p} : y.strength[q] < y.strength[p]
  IN  \A p \in Player :
        /\ Won(p, x, y) <= Matched(p, c) + dead
        /\ best(p) => Won(p, x, y) >= Matched(p, c)

PaidFairly ==
  [][game = "poker" /\ PokerHandEnds =>
       FairlyPaid(extra, extra', Contenders(extra, players, leftPlayers)')]_tvars

-----------------------------------------------------------------------------
(* The end of a match *)

Score(p) ==
  CASE game = "hearts"    -> HeartsScore(p)
    [] game = "gin_rummy" -> GinScore(p)
    [] game = "poker"     -> PokerResult(p)
    [] OTHER              -> ShedScore(p)

Standings ==
  WithLeavers(CASE game = "hearts"    -> HeartsStandings
                [] game = "gin_rummy" -> GinStandings
                [] game = "poker"     -> PokerStandings
                [] OTHER              -> ShedStandings)

\* Everybody dealt in gets exactly one place; whoever left is placed below whoever stayed,
\* and two players share a place only if they scored the same and both left or both stayed.
PlacesRight ==
  phase = "Finished" =>
    LET order == Standings
        places == Places(order, [p \in Player |-> Score(p)])
        left(i) == order[i] \in ToSet(leftPlayers)
    IN  /\ ToSet(order) = EverDealtIn /\ Len(order) = Cardinality(EverDealtIn)
        /\ \A i, j \in 1..Len(order) : i < j =>
             /\ left(i) => left(j)
             /\ (places[i] = places[j]) <=> (left(i) = left(j) /\ Score(order[i]) = Score(order[j]))

\* With the real rules, a table goes through the steps of the abstract match: it ends once,
\* for a reason that fits its seats, and with a winner who is still seated.
TheMatch == INSTANCE Match WITH
  Roster <- Player,
  seats  <- ToSet(players),
  feed   <- TRUE

KeepsMatch == [][TheMatch!MatchNext]_(TheMatch!mvars)
=============================================================================
