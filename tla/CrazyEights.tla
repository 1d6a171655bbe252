---------------------------- MODULE CrazyEights ----------------------------
(***************************************************************************)
(* Crazy Eights (internal/game/crazyeight): an Eight is wild and names the *)
(* suit to follow; the engine's own cursor passes the turn on.             *)
(***************************************************************************)
EXTENDS Shed

CONSTANT EightsDeck   (* the cards of the deck: [rank, suit] *)

ASSUME EightsDeckAssumption == IsFiniteSet(EightsDeck)

Eight == 8

EightsInit(seats) ==
  /\ game = "crazy_eights"
  /\ players = seats
  /\ extra = [suit |-> None, passes |-> 0]

\* Start and OnGameStart: the pile never opens on an Eight.
EightsStart(first) ==
  /\ phase = "Waiting"
  /\ \E f \in Deals(players, ShedDeal, EightsDeck) :
       LET stock == EightsDeck \ Held(f) IN
       \E c \in Openers(stock, {Eight}) :
          /\ hands' = Dealt(f)
          /\ deck' = stock \ {c}
          /\ discard' = {c}
          /\ top' = c
          /\ extra' = [suit |-> c.suit, passes |-> 0]
          /\ Opened(first)

EightsFits(c) == c.rank = Eight \/ c.suit = extra.suit \/ c.rank = top.rank

\* The suits a card may be played in: an Eight names any of them.
Names(c) == IF c.rank = Eight THEN Suit ELSE {c.suit}

EightsPlay(p, c, s) ==
  /\ MayAct(p)
  /\ c \in hands[p] /\ EightsFits(c) /\ s \in Names(c)
  /\ hands' = [hands EXCEPT ![p] = @ \ {c}]
  /\ discard' = discard \cup {c}
  /\ top' = c
  /\ extra' = [suit |-> s, passes |-> 0]
  /\ UNCHANGED deck
  /\ AfterMove(HandEmptyOrAllPassed', ShedStandings', None)

\* A draw is always legal; on an exhausted board it is a forced pass.
EightsDraw(p) ==
  /\ MayAct(p)
  /\ \E d \in Draws(1, deck, discard, top) :
       /\ hands' = [hands EXCEPT ![p] = @ \cup d.drawn]
       /\ deck' = d.deck
       /\ discard' = d.discard
       /\ extra' = [extra EXCEPT !.passes = PassesAfter(d.drawn)]
       /\ UNCHANGED top
       /\ AfterMove(HandEmptyOrAllPassed', ShedStandings', None)

EightsLeave(p) ==
  /\ phase = "Playing" /\ Seated(p)
  /\ LeaveShedGame(p)
  /\ AfterLeave(p, HandEmptyOrAllPassed', ShedStandings', None)

EightsNext ==
  /\ game = "crazy_eights"
  /\ \/ \E i \in 0..(Len(players) - 1) : EightsStart(i)
     \/ \E p \in Player, c \in EightsDeck, s \in Suit : EightsPlay(p, c, s)
     \/ \E p \in Player : EightsDraw(p) \/ EightsLeave(p)
=============================================================================
