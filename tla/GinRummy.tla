------------------------------ MODULE GinRummy ------------------------------
(***************************************************************************)
(* Gin Rummy (internal/game/ginrummy): two seats, draw and discard, a      *)
(* knock that settles the hand, and the wall and the caps that end hands   *)
(* and matches nobody knocks in.                                           *)
(***************************************************************************)
EXTENDS Melds

CONSTANTS
  GinDeck,       (* the cards: [rank, suit]                                      *)
  GinDeals(_),   (* the deals of the n-th hand: [hands, up]                      *)
  WallStock,     (* cards that stay undealt (2)                                  *)
  MaxHandTurns,  (* turns after which a hand is dead (100)                       *)
  MaxHands,      (* hands after which a match ends (50)                          *)
  GinTarget      (* the score that wins the match (100)                          *)

\* A shuffled deck of four suits, each card once, deals everybody cards of their own and lays
\* one more card open.
ASSUME GinAssumption ==
  /\ IsFiniteSet(GinDeck) /\ None \notin GinDeck /\ \A c \in GinDeck : c.rank \in Nat
  /\ \A c, d \in GinDeck : c.rank = d.rank /\ c.suit = d.suit => c = d
  /\ Cardinality({c.suit : c \in GinDeck}) <= 4
  /\ WallStock \in Nat /\ MaxHandTurns \in Nat /\ MaxHands \in Nat \ {0} /\ GinTarget \in Nat
  /\ \A n \in 1..MaxHands : \A d \in GinDeals(n) :
       /\ d.hands \in [Player -> SUBSET GinDeck] /\ d.up \in GinDeck \ Held(d.hands)
       /\ \A p, q \in Player : p # q => d.hands[p] \cap d.hands[q] = {}

KnockThreshold == 10
GinBonus       == 25
UndercutBonus  == 25

GinInit(seats) ==
  /\ game = "gin_rummy"
  /\ players = seats
  /\ extra = [handPhase |-> "Over", taken |-> None, firstActor |-> 0, handNumber |-> 0,
              turns |-> 0, totals |-> [p \in Player |-> 0], handComplete |-> FALSE,
              matchComplete |-> FALSE, result |-> None]

\* beginHand
GinBeginHand(x) ==
  \E d \in GinDeals(x.handNumber + 1) :
    /\ hands' = d.hands
    /\ deck' = GinDeck \ ({d.up} \cup Held(d.hands))
    /\ discard' = {d.up}
    /\ top' = d.up
    /\ extra' = [x EXCEPT !.handNumber = @ + 1, !.handPhase = "Draw", !.taken = None,
                          !.turns = 0, !.handComplete = FALSE, !.result = None]

GinStart(first) ==
  /\ phase = "Waiting"
  /\ GinBeginHand([extra EXCEPT !.firstActor = first])
  /\ Opened(first)

-----------------------------------------------------------------------------
(* Standings: the higher score is the better one *)

GinScore(p) == extra.totals[p]

GinStandings == ByScore(players, [p \in Player |-> -GinScore(p)])

-----------------------------------------------------------------------------
(* Drawing and discarding *)

AboveWall == Cardinality(deck) > WallStock

\* Draw and discard are one turn: the cursor stays.
DrawStock(p) ==
  /\ MayAct(p) /\ extra.handPhase = "Draw"
  /\ AboveWall
  /\ \E c \in deck :
       /\ hands' = [hands EXCEPT ![p] = @ \cup {c}]
       /\ deck' = deck \ {c}
  /\ extra' = [extra EXCEPT !.taken = None, !.handPhase = "Discard"]
  /\ UNCHANGED <<discard, top>>
  /\ AfterMove(FALSE, GinStandings, currentTurn)

\* Nobody looks under the top card before the next one is laid on it.
DrawDiscard(p) ==
  /\ MayAct(p) /\ extra.handPhase = "Draw"
  /\ top # None
  /\ hands' = [hands EXCEPT ![p] = @ \cup {top}]
  /\ discard' = discard \ {top}
  /\ top' = None
  /\ extra' = [extra EXCEPT !.taken = top, !.handPhase = "Discard"]
  /\ UNCHANGED deck
  /\ AfterMove(FALSE, GinStandings, currentTurn)

MatchOver(x) == x.handNumber >= MaxHands \/ \E p \in Player : x.totals[p] >= GinTarget

\* A hand is over: the match is, or the seat that did not start it starts the next one.
HandEnds(x) ==
  LET over == MatchOver(x)
      next == [x EXCEPT !.handComplete = TRUE, !.handPhase = "Over", !.matchComplete = over,
                        !.firstActor = IF over THEN @ ELSE 1 - @]
  IN  /\ extra' = next
      /\ AfterMove(over, GinStandings', next.firstActor)

HitsTheWall(x) == ~AboveWall \/ x.turns >= MaxHandTurns

WallResult == [knocker |-> None, winner |-> None, delta |-> 0, melds |-> {}, left |-> 0, gin |-> FALSE]

DiscardCard(p, c) ==
  LET x == [extra EXCEPT !.taken = None, !.turns = @ + 1, !.handPhase = "Draw"] IN
  /\ MayAct(p) /\ extra.handPhase = "Discard"
  /\ c \in hands[p] /\ c # extra.taken
  /\ hands' = [hands EXCEPT ![p] = @ \ {c}]
  /\ discard' = discard \cup {c}
  /\ top' = c
  /\ UNCHANGED deck
  /\ \/ ~HitsTheWall(x) /\ extra' = x /\ AfterMove(FALSE, GinStandings, None)
     \/ HitsTheWall(x) /\ HandEnds([x EXCEPT !.result = WallResult])

-----------------------------------------------------------------------------
(* The knock: computeKnockOutcome and applyKnock *)

Opponent(p) == SeatAt(1 - SeatOf(p))

\* Gin: no layoffs, the opponent's deadwood and a bonus.
GinOutcome(p, melds) ==
  LET left == LeastDeadwood(hands[Opponent(p)])
  IN  [knocker |-> p, winner |-> p, delta |-> left + GinBonus,
       melds |-> melds, left |-> left, gin |-> TRUE]

\* The defender who ends with no more than the knocker undercuts.
LayoffOutcome(p, melds, mine, left) ==
  [knocker |-> p,
   winner  |-> IF left <= mine THEN Opponent(p) ELSE p,
   delta   |-> IF left <= mine THEN mine - left + UndercutBonus ELSE left - mine,
   melds   |-> melds,
   left    |-> left,
   gin     |-> FALSE]

Knock(p, c) ==
  LET rest == hands[p] \ {c}
      mine == LeastDeadwood(rest)
      settled(r) == [extra EXCEPT !.taken = None, !.result = r, !.totals[r.winner] = @ + r.delta]
  IN
  /\ MayAct(p) /\ extra.handPhase = "Discard"
  /\ c \in hands[p] /\ c # extra.taken
  /\ mine <= KnockThreshold
  /\ hands' = [hands EXCEPT ![p] = rest]
  /\ discard' = {}
  /\ top' = None
  /\ UNCHANGED deck
  /\ \E melds \in BestSplits(rest) :
       \/ mine = 0 /\ HandEnds(settled(GinOutcome(p, melds)))
       \/ /\ mine > 0
          /\ \E left \in Defences(hands[Opponent(p)], melds) :
               HandEnds(settled(LayoffOutcome(p, melds, mine, Pips(left))))

NextGinHand(p) ==
  /\ MayAct(p) /\ extra.handComplete
  /\ GinBeginHand(extra)
  /\ AfterMove(FALSE, GinStandings, extra.firstActor)

\* Gin has no leave handler: one seat is left, and the engine calls a forfeit.
GinLeave(p) ==
  /\ phase = "Playing" /\ Seated(p)
  /\ AfterLeave(p, extra.matchComplete, GinStandings', None)
  /\ UNCHANGED <<hands, piles, extra>>

-----------------------------------------------------------------------------
(* What the clock plays: TimeoutAction and autoDiscard *)

\* The priciest deadwood that may be discarded, or else any card that may be.
AutoDiscards(hand, forbidden) ==
  LET loose(m) == Deadwood(hand, m) \ {forbidden}
      priciest(cards) == {c \in cards : \A d \in cards : PipValue(d.rank) <= PipValue(c.rank)}
  IN  UNION {IF loose(m) # {} THEN priciest(loose(m)) ELSE hand \ {forbidden} :
               m \in BestSplits(hand)}

GinNext ==
  /\ game = "gin_rummy"
  /\ \/ \E i \in 0..(Len(players) - 1) : GinStart(i)
     \/ \E p \in Player : \/ DrawStock(p) \/ DrawDiscard(p)
                          \/ NextGinHand(p) \/ GinLeave(p)
     \/ \E p \in Player, c \in GinDeck : DiscardCard(p, c) \/ Knock(p, c)
=============================================================================
