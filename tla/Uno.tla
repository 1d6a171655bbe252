-------------------------------- MODULE Uno --------------------------------
(***************************************************************************)
(* Uno (internal/game/uno): action cards move the turn in a direction that *)
(* a Reverse flips, so every move names the next seat itself.              *)
(***************************************************************************)
EXTENDS Shed

CONSTANT UnoDeck   (* the cards of the deck: [rank, suit, copy] *)

ASSUME UnoDeckAssumption == IsFiniteSet(UnoDeck)

WildRanks == {"Wild", "WildDrawFour"}

IsWild(c) == c.rank \in WildRanks

\* The seat some steps on, in the direction of play.
Advance(direction, steps) == (currentTurn + direction * steps) % Len(players)

\* How many cards a played card makes the next seat draw.
Forced(c) == CASE c.rank = "DrawTwo" -> 2 [] c.rank = "WildDrawFour" -> 4 [] OTHER -> 0

Flips(c) == c.rank = "Reverse" /\ Len(players) # 2

Direction(c) == IF Flips(c) THEN -extra.direction ELSE extra.direction

\* Heads-up a Reverse is a Skip: the turn comes back to the seat that played it.
Steps(c) ==
  CASE c.rank = "Reverse" /\ Len(players) = 2 -> 0
    [] c.rank = "Skip" \/ Forced(c) > 0 -> 2
    [] OTHER -> 1

UnoInit(seats) ==
  /\ game = "uno"
  /\ players = seats
  /\ extra = [suit |-> None, direction |-> 1, passes |-> 0]

\* The seat that starts once the opening card has had its effect on seat "first".
Opening(first, c) ==
  IF \/ c.rank \in {"Skip", "DrawTwo"}
     \/ c.rank = "Reverse" /\ Len(players) = 2
  THEN (first + 1) % Len(players) ELSE first

\* Start and OnGameStart: no Wild opens, and the opening card is played on the first seat.
UnoStart(first) ==
  /\ phase = "Waiting"
  /\ \E f \in Deals(players, ShedDeal, UnoDeck) :
       LET stock == UnoDeck \ Held(f) IN
       \E c \in Openers(stock, WildRanks) :
       \E d \in Draws(Forced(c), stock \ {c}, {c}, c) :
          /\ hands' = [Dealt(f) EXCEPT ![SeatAt(first)] = @ \cup d.drawn]
          /\ deck' = d.deck
          /\ discard' = d.discard
          /\ top' = c
          /\ extra' = [suit      |-> c.suit,
                       direction |-> Direction(c),
                       passes    |-> IF Forced(c) > 0 /\ d.drawn = {} THEN 1 ELSE 0]
          /\ Opened(Opening(first, c))

\* ValidateAction: a Wild Draw Four needs a hand without the colour in play.
UnoFits(hand, c) ==
  \/ c.rank = "Wild"
  \/ c.rank = "WildDrawFour" /\ ~HasSuit(hand, extra.suit)
  \/ ~IsWild(c) /\ c.suit = extra.suit
  \/ ~IsWild(c) /\ c.rank = top.rank

\* The colours a card may be played in: a Wild names any of them.
Colours(c) == IF IsWild(c) THEN Suit ELSE {c.suit}

UnoPlay(p, c, s) ==
  LET victim == SeatAt(Advance(extra.direction, 1))
      rest   == [hands EXCEPT ![p] = @ \ {c}]
  IN
  /\ MayAct(p)
  /\ c \in hands[p] /\ UnoFits(hands[p], c) /\ s \in Colours(c)
  /\ \E d \in Draws(Forced(c), deck, discard \cup {c}, c) :
       /\ hands' = [rest EXCEPT ![victim] = @ \cup d.drawn]
       /\ deck' = d.deck
       /\ discard' = d.discard
       /\ top' = c
       /\ extra' = [suit      |-> s,
                    direction |-> Direction(c),
                    passes    |-> IF Forced(c) > 0 /\ d.drawn = {} THEN 1 ELSE 0]
       /\ AfterMove(HandEmptyOrAllPassed', ShedStandings',
                    Advance(Direction(c), Steps(c)))

\* A draw is always legal and ends the turn; without a card to draw it is a pass.
UnoDraw(p) ==
  /\ MayAct(p)
  /\ \E d \in Draws(1, deck, discard, top) :
       /\ hands' = [hands EXCEPT ![p] = @ \cup d.drawn]
       /\ deck' = d.deck
       /\ discard' = d.discard
       /\ extra' = [extra EXCEPT !.passes = PassesAfter(d.drawn)]
       /\ UNCHANGED top
       /\ AfterMove(HandEmptyOrAllPassed', ShedStandings', Advance(extra.direction, 1))

\* Mutant: the engine's generic cursor, which is right only clockwise.
HeirClockwise(p) == None

\* AfterPlayerRemoved: counterclockwise the turn of a leaver goes to the seat before.
HeirSeat(p) ==
  LET n == Len(players) - 1 IN
  IF currentTurn = SeatOf(p) /\ extra.direction < 0 /\ n >= 2
  THEN (SeatOf(p) - 1) % n ELSE None

UnoLeave(p) ==
  /\ phase = "Playing" /\ Seated(p)
  /\ LeaveShedGame(p)
  /\ AfterLeave(p, HandEmptyOrAllPassed', ShedStandings', HeirSeat(p))

UnoNext ==
  /\ game = "uno"
  /\ \/ \E i \in 0..(Len(players) - 1) : UnoStart(i)
     \/ \E p \in Player, c \in UnoDeck, s \in Suit : UnoPlay(p, c, s)
     \/ \E p \in Player : UnoDraw(p) \/ UnoLeave(p)
=============================================================================
