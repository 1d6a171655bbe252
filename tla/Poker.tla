------------------------------- MODULE Poker -------------------------------
(***************************************************************************)
(* No-limit hold'em over a match of several hands (internal/game/poker):   *)
(* the betting of a hand, the pots of its showdown, and what becomes of a  *)
(* hand when somebody walks out of it.                                     *)
(*                                                                         *)
(* Cards are left out: a showdown may rank the hands it compares in any    *)
(* way.  Nine hands and a board never exhaust 52 cards, so the refusals of *)
(* an empty deck are left out with them.                                   *)
(***************************************************************************)
EXTENDS Table

CONSTANTS DefaultStack, SmallBlind, BigBlind, HandsTotal

ASSUME PokerAssumption ==
  /\ Player \subseteq Nat /\ IsFiniteSet(Player)
  /\ DefaultStack \in Nat \ {0} /\ HandsTotal \in Nat \ {0}
  /\ BigBlind \in Nat /\ SmallBlind \in 1..BigBlind /\ BigBlind < DefaultStack

Nobody == [p \in Player |-> 0]

PokerInit(seats) ==
  /\ game = "poker"
  /\ players = seats
  /\ extra = [dealer |-> 0, sb |-> 0, bb |-> 0,
              pool |-> 0, currentBet |-> 0, minRaise |-> 0, street |-> None,
              folded |-> {}, allIn |-> {}, acted |-> {},
              chips |-> [p \in Player |-> IF p \in ToSet(seats) THEN DefaultStack ELSE 0],
              bets |-> Nobody, contributed |-> Nobody,
              boardOut |-> FALSE, shown |-> FALSE, strength |-> Nobody,
              handNumber |-> 0, handComplete |-> FALSE, matchComplete |-> FALSE,
              bustedAt |-> Nobody]

-----------------------------------------------------------------------------
(* Seats.  The hooks pass (state, extra) around; here "x" is extra and "seats" and "left"
   are what they read of the state. *)

Who(seats, i) == seats[i + 1]

\* nextSeat: the first seat clockwise of "from" that qualifies, itself the last to be asked.
NextSeat(seats, from, able) ==
  LET n == Len(seats)
      steps == {k \in 1..n : Who(seats, (from + k) % n) \in able}
  IN  IF steps = {} THEN None ELSE (from + Min(steps)) % n

Funded(x, seats) == {p \in ToSet(seats) : x.chips[p] > 0}

NextFundedSeat(x, seats, from) ==
  LET seat == NextSeat(seats, from, Funded(x, seats))
  IN  IF seat = None THEN from ELSE seat

CannotAct(x, p) == p \in x.folded \cup x.allIn \/ x.chips[p] = 0

Owes(x, p) == p \notin x.acted \/ x.bets[p] < x.currentBet

NextToAct(x, seats, from) ==
  NextSeat(seats, from, {p \in ToSet(seats) : ~CannotAct(x, p) /\ Owes(x, p)})

FirstToActPostflop(x, seats, turn) ==
  LET seat == NextSeat(seats, x.dealer, {p \in ToSet(seats) : ~CannotAct(x, p)})
  IN  IF seat = None THEN turn ELSE seat

BettingRoundComplete(x, seats) ==
  \A p \in ToSet(seats) : CannotAct(x, p) \/ ~Owes(x, p)

\* A leaver who is all in has nothing left to decide and still contests the pot.
Contenders(x, seats, left) ==
  (ToSet(seats) \cup (ToSet(left) \cap x.allIn)) \ x.folded

ToCall(x, p) == IF x.currentBet > x.bets[p] THEN x.currentBet - x.bets[p] ELSE 0

-----------------------------------------------------------------------------
(* Chips *)

\* postBlind and commitTo: nobody pays more than they have.
Pay(x, p, amount) ==
  LET pay == Min({amount, x.chips[p]}) IN
  [x EXCEPT !.chips[p] = @ - pay,
            !.bets[p] = @ + pay,
            !.contributed[p] = @ + pay,
            !.pool = @ + pay,
            !.allIn = IF x.chips[p] = pay THEN @ \cup {p} ELSE @]

CommitTo(x, p, total) == IF total < x.bets[p] THEN x ELSE Pay(x, p, total - x.bets[p])

\* Only a full raise reopens the round.
Reopened(x, size) == size >= x.minRaise

\* applyBetIncrease, once the raiser's chips are out.
BetIncreased(x, seats, p) ==
  LET size == x.bets[p] - x.currentBet
      heard == ToSet(seats) \ (x.folded \cup x.allIn \cup {p})
  IN  IF size <= 0 THEN x
      ELSE IF Reopened(x, size)
           THEN [x EXCEPT !.currentBet = @ + size, !.minRaise = size, !.acted = @ \ heard]
           ELSE [x EXCEPT !.currentBet = @ + size]

\* refundUncalled: only a single largest contribution can have an unmatched part.
RefundUncalled(x) ==
  LET most == Max(Range(x.contributed))
      tops == {p \in Player : x.contributed[p] = most}
      p == CHOOSE q \in tops : TRUE
      over == most - Max({0} \cup {x.contributed[q] : q \in Player \ {p}})
  IN  IF Cardinality(tops) > 1 THEN x
      ELSE [x EXCEPT !.contributed[p] = @ - over, !.chips[p] = @ + over, !.pool = @ - over]

\* Mutant: what only folded players paid into is nobody's.
SidePotsNoDead(x, live) ==
  LET levels == Range(x.contributed) \ {0}
      below(l) == Max({0} \cup {m \in levels : m < l})
      amount(l) == (l - below(l)) * Cardinality({p \in Player : x.contributed[p] >= l})
      eligible(l) == {p \in live : x.contributed[p] >= l}
  IN  [l \in {l \in levels : eligible(l) # {}} |-> [amount |-> amount(l), eligible |-> eligible(l)]]

\* buildSidePots: a layer for each contribution.  Whoever may win a layer may win those
\* below it, so dead money only ever lies above the last layer somebody can win.
SidePots(x, live) ==
  LET levels == Range(x.contributed) \ {0}
      below(l) == Max({0} \cup {m \in levels : m < l})
      amount(l) == (l - below(l)) * Cardinality({p \in Player : x.contributed[p] >= l})
      eligible(l) == {p \in live : x.contributed[p] >= l}
      winnable == {l \in levels : eligible(l) # {}}
      dead == SumFunction([l \in levels \ winnable |-> amount(l)])
  IN  [l \in winnable |-> [amount |-> amount(l) + IF l = Max(winnable) THEN dead ELSE 0,
                           eligible |-> eligible(l)]]

\* splitEvenly: the odd chips go to the lowest IDs.
Share(p, ids, amount) ==
  (amount \div Cardinality(ids))
  + IF Cardinality({q \in ids : q < p}) < amount % Cardinality(ids) THEN 1 ELSE 0

PotWinners(x, pot) ==
  {p \in pot.eligible : \A q \in pot.eligible : x.strength[q] <= x.strength[p]}

\* What p takes of a pot.
Taken(x, pot, p) ==
  LET ids == PotWinners(x, pot) IN IF p \in ids THEN Share(p, ids, pot.amount) ELSE 0

\* awardPots
AwardPots(x, live) ==
  LET pots == SidePots(x, live)
  IN  [x EXCEPT !.chips = [p \in Player |->
                             @[p] + SumFunction([l \in DOMAIN pots |-> Taken(x, pots[l], p)])],
                !.pool = @ - SumFunction([l \in DOMAIN pots |-> pots[l].amount])]

\* Mutant: the last one standing takes the whole pool.
AwardWholePool(x, w) == [x EXCEPT !.chips[w] = @ + x.pool, !.pool = 0]

\* awardUncontested: the winner takes what was matched, the rest goes back.
AwardUncontested(x, w) ==
  LET matched == x.contributed[w]
      uncalled == [p \in Player |-> IF p # w /\ x.contributed[p] > matched
                                    THEN x.contributed[p] - matched ELSE 0]
      back == SumFunction(uncalled)
  IN  [x EXCEPT !.chips = [p \in Player |-> @[p] + uncalled[p]
                                            + IF p = w THEN x.pool - back ELSE 0],
                !.pool = 0]

-----------------------------------------------------------------------------
(* The course of a hand.  Each of these is a set of outcomes: what the rules' state becomes
   and which seat is on turn next (OverrideNextTurn). *)

To(x, seat) == [x |-> x, over |-> seat]

\* How the cards of everybody not folded may compare, once there is a board: 0 is the worst.
Strengths(x) ==
  LET hs == IF x.boardOut THEN (ToSet(players) \cup ToSet(leftPlayers)) \ x.folded ELSE {}
      full(s) == [p \in Player |-> IF p \in hs THEN s[p] ELSE 0]
  IN  {full(s) : s \in {s \in [hs -> 0..(Cardinality(hs) - 1)] :
                          Range(s) = 0..(Cardinality(Range(s)) - 1)}}

RecordBustouts(x, seats) ==
  [x EXCEPT !.bustedAt =
     [p \in Player |-> IF p \in ToSet(seats) /\ x.chips[p] = 0 /\ @[p] = 0
                       THEN x.handNumber ELSE @[p]]]

\* finishHand: the match is over, or the turn is parked on the next dealer.
FinishHand(x, seats) ==
  LET over == x.handNumber >= HandsTotal \/ Cardinality(Funded(x, seats)) <= 1
      done == [RecordBustouts(x, seats) EXCEPT !.handComplete = TRUE, !.street = "Showdown",
                                               !.matchComplete = @ \/ over]
  IN  {To(done, IF over THEN None ELSE NextFundedSeat(x, seats, x.dealer))}

FoldedOut(x, seats, w) ==
  UNION {FinishHand([AwardUncontested(x, w) EXCEPT !.strength = s], seats) :
           s \in Strengths(x)}

\* runShowdown
ShownDown(x, seats, left) ==
  LET live == Contenders(x, seats, left)
      ranked(s) == [RefundUncalled(x) EXCEPT !.strength = s, !.shown = TRUE]
  IN  UNION {FinishHand(AwardPots(ranked(s), live), seats) : s \in Strengths(x)}

Streets == <<"PreFlop", "Flop", "Turn", "River">>

StreetAfter(street) ==
  Streets[1 + CHOOSE i \in 1..3 : Streets[i] = street]

\* settleAndAdvance: with fewer than two stacks left to bet, the board runs out.
SettleAndAdvance(x, seats, left, turn) ==
  LET settled == [x EXCEPT !.bets = [p \in Player |-> IF p \in ToSet(seats) THEN 0 ELSE @[p]],
                           !.acted = @ \ ToSet(seats),
                           !.currentBet = 0, !.minRaise = BigBlind,
                           !.boardOut = TRUE]
      bettors == {p \in ToSet(seats) : ~CannotAct(x, p)}
  IN  IF x.street = "River" \/ Cardinality(bettors) < 2
      THEN ShownDown(settled, seats, left)
      ELSE {To([settled EXCEPT !.street = StreetAfter(@)],
               FirstToActPostflop(settled, seats, turn))}

\* afterBettingAction
AfterBetting(x, seats, left, turn) ==
  LET live == Contenders(x, seats, left) IN
  IF Cardinality(live) = 1
  THEN FoldedOut(x, seats, CHOOSE p \in live : TRUE)
  ELSE IF BettingRoundComplete(x, seats)
       THEN SettleAndAdvance(x, seats, left, turn)
       ELSE {To(x, NextToAct(x, seats, turn))}

ResetForHand(x) ==
  [x EXCEPT !.folded = {}, !.allIn = {}, !.acted = {},
            !.bets = Nobody, !.contributed = Nobody, !.strength = Nobody,
            !.pool = 0, !.minRaise = BigBlind, !.street = "PreFlop",
            !.boardOut = FALSE, !.shown = FALSE, !.handComplete = FALSE]

\* beginHand: the broke sit out, the blinds go in, and the seat under the gun is on turn.
\* Heads-up the button posts the small blind and acts first.
BeginHand(x, seats, left, dealer) ==
  LET fresh == ResetForHand(x)
      broke == ToSet(seats) \ Funded(x, seats)
      headsUp == Cardinality(Funded(x, seats)) = 2
      sb == IF headsUp THEN dealer ELSE NextFundedSeat(x, seats, dealer)
      bb == NextFundedSeat(x, seats, sb)
      dealt == [fresh EXCEPT !.handNumber = @ + 1, !.folded = broke, !.acted = broke,
                             !.dealer = dealer, !.sb = sb, !.bb = bb]
      posted == [Pay(Pay(dealt, Who(seats, sb), SmallBlind), Who(seats, bb), BigBlind)
                   EXCEPT !.currentBet = BigBlind]
      first == IF headsUp /\ ~CannotAct(posted, Who(seats, dealer)) THEN dealer
               ELSE NextToAct(posted, seats, bb)
  IN  IF first # None THEN {To(posted, first)}
      ELSE SettleAndAdvance(posted, seats, left, dealer)

-----------------------------------------------------------------------------
(* Standings: rankPlayers.  More chips, a later bust, not folded, the better hand. *)

PokerResult(p) ==
  <<extra.chips[p], extra.bustedAt[p], IF p \in extra.folded THEN 0 ELSE 1,
    extra.strength[p]>>

Exceeds(a, b) == \E i \in 1..4 : a[i] > b[i] /\ \A j \in 1..(i - 1) : a[j] = b[j]

\* Mutant: leavers are ranked among those who stayed.
RankedTogether ==
  LET better(p, q) == \/ Exceeds(PokerResult(p), PokerResult(q))
                      \/ PokerResult(p) = PokerResult(q) /\ p < q
  IN  InOrder(ToSet(players) \cup ToSet(leftPlayers), better)

PokerStandings ==
  LET better(p, q) == \/ Exceeds(PokerResult(p), PokerResult(q))
                      \/ PokerResult(p) = PokerResult(q) /\ p < q
  IN  InOrder(ToSet(players), better) \o InOrder(ToSet(leftPlayers), better)

-----------------------------------------------------------------------------
(* The moves *)

PokerStart(first) ==
  /\ phase = "Waiting"
  /\ \E o \in BeginHand(extra, players, leftPlayers, first) :
       /\ extra' = o.x
       /\ Opened(IF o.over = None THEN first ELSE o.over)
  /\ UNCHANGED <<hands, piles>>

\* A move that leaves the bets at x: what AfterAction and the engine make of it.
Bet(x) ==
  /\ \E o \in AfterBetting(x, players, leftPlayers, currentTurn) :
       /\ extra' = o.x
       /\ AfterMove(o.x.matchComplete, PokerStandings', o.over)
  /\ UNCHANGED <<hands, piles>>

Acted(x, p) == [x EXCEPT !.acted = @ \cup {p}]

MayBet(p) ==
  /\ MayAct(p)
  /\ ~extra.handComplete
  /\ p \notin extra.folded \cup extra.allIn

Fold(p) == MayBet(p) /\ Bet(Acted([extra EXCEPT !.folded = @ \cup {p}], p))

Check(p) == MayBet(p) /\ ToCall(extra, p) = 0 /\ Bet(Acted(extra, p))

Call(p) ==
  /\ MayBet(p) /\ ToCall(extra, p) > 0
  /\ Bet(Acted(CommitTo(extra, p, extra.currentBet), p))

LargestCallableBet(p) ==
  Max({0} \cup {extra.bets[q] + extra.chips[q] :
                  q \in Contenders(extra, players, leftPlayers) \ {p}})

\* validateRaiseTo: less than the minimum only with everything one has.
MayRaiseTo(p, amount) ==
  /\ p \notin extra.acted
  /\ amount > extra.currentBet
  /\ amount <= LargestCallableBet(p)
  /\ amount - extra.bets[p] <= extra.chips[p]
  /\ \/ amount - extra.bets[p] = extra.chips[p]
     \/ amount - extra.currentBet >= extra.minRaise

RaiseTo(p, amount) ==
  /\ MayBet(p) /\ MayRaiseTo(p, amount)
  /\ Bet(Acted(BetIncreased(CommitTo(extra, p, amount), players, p), p))

AllIn(p) ==
  LET newBet == extra.bets[p] + extra.chips[p] IN
  /\ MayBet(p) /\ extra.chips[p] > 0
  /\ newBet > extra.currentBet => p \notin extra.acted
  /\ Bet(Acted(BetIncreased(CommitTo(extra, p, newBet), players, p), p))

NextHand(p) ==
  /\ MayAct(p) /\ extra.handComplete /\ ~extra.matchComplete
  /\ \E o \in BeginHand(extra, players, leftPlayers,
                        NextFundedSeat(extra, players, extra.dealer)) :
       /\ extra' = o.x
       /\ AfterMove(o.x.matchComplete, PokerStandings', o.over)
  /\ UNCHANGED <<hands, piles>>

-----------------------------------------------------------------------------
(* Leaving *)

\* adjustSeatIndex: a marker whose holder leaves moves back.
AdjustSeatIndex(seat, removed, n) ==
  CASE seat > removed -> seat - 1
    [] seat = removed -> (removed - 1) % n
    [] OTHER -> seat

\* Mutant: the seat that slid under the cursor is on turn, whatever it may do.
WhoeverIsThere(x, seats, turn) == turn

StillToAct(x, seats, turn) ==
  IF CannotAct(x, Who(seats, turn)) THEN NextToAct(x, seats, turn) ELSE turn

\* OnPlayerLeave: somebody all in is left alone.
FoldLeaver(x, p) ==
  IF x.handComplete \/ p \in x.allIn THEN x
  ELSE [x EXCEPT !.folded = @ \cup {p}, !.acted = @ \cup {p}]

\* AfterPlayerRemoved, over the seats that are left.
AfterPlayerRemoved(x, seats, left, removed, turn) ==
  LET n == Len(seats)
      moved == [x EXCEPT !.dealer = AdjustSeatIndex(@, removed, n),
                         !.sb = AdjustSeatIndex(@, removed, n),
                         !.bb = AdjustSeatIndex(@, removed, n)]
      live == Contenders(moved, seats, left)
  IN  IF n = 0 THEN {To(x, None)}
      ELSE IF x.handComplete THEN FinishHand(moved, seats)
      ELSE IF Cardinality(live) = 1 THEN FoldedOut(moved, seats, CHOOSE p \in live : TRUE)
      ELSE IF BettingRoundComplete(moved, seats)
           THEN SettleAndAdvance(moved, seats, left, turn)
      ELSE {To(moved, StillToAct(moved, seats, turn))}

PokerLeave(p) ==
  /\ phase = "Playing" /\ Seated(p)
  /\ \E o \in AfterPlayerRemoved(FoldLeaver(extra, p), SeatsWithout(p),
                                 Append(leftPlayers, p), SeatOf(p), CursorWithout(p)) :
       /\ extra' = o.x
       /\ AfterLeave(p, o.x.matchComplete, PokerStandings', o.over)
  /\ UNCHANGED <<hands, piles>>

PokerNext ==
  /\ game = "poker"
  /\ \/ \E i \in 0..(Len(players) - 1) : PokerStart(i)
     \/ \E p \in Player : \/ Fold(p) \/ Check(p) \/ Call(p) \/ AllIn(p)
                          \/ NextHand(p) \/ PokerLeave(p)
     \/ \E p \in Player, amount \in 1..(DefaultStack * Cardinality(Player)) : RaiseTo(p, amount)
=============================================================================
