------------------------------ MODULE MCParts ------------------------------
(***************************************************************************)
(* Model-checking instances of the games a table can be opened with and of *)
(* the server's smaller concurrent parts.  The parts do not call one       *)
(* another: every behaviour exercises one of them, which "part" names, and *)
(* leaves the state of the others alone.                                   *)
(***************************************************************************)
EXTENDS Games, Evaluator, Broadcaster, Limiter, Browse, LockOrder

VARIABLE part

services == <<dealt, cvars, lvars, bvars, kvars>>

C(rank, suit) == [rank |-> rank, suit |-> suit]

Of(suit, ranks) == {C(rank, suit) : rank \in ranks}

-----------------------------------------------------------------------------
(* The cards *)

U(rank, suit) == [rank |-> rank, suit |-> suit, copy |-> 1]

MCUnoDeck ==
  {U("1", "Red"), U("Reverse", "Red"), U("Skip", "Blue"), U("DrawTwo", "Blue"),
   U("1", "Blue"), U("WildDrawFour", "None")}

MCEightsDeck == Of("Red", {1, 2, 8}) \cup Of("Blue", {1, 2})

MCHeartsDeck ==
  Of("Clubs", {2, 3, 13, 1}) \cup Of("Hearts", {2, 5, 10, 1}) \cup Of("Spades", {3, 12})
  \cup Of("Diamonds", {4, 11})

\* Somebody leads with hearts only, somebody has nothing but penalties for the first trick,
\* somebody may shoot the moon.
MCHeartsDeals(hand) ==
  LET mixed == <<{C(2, "Clubs"), C(2, "Hearts"), C(4, "Diamonds")},
                 {C(1, "Clubs"), C(1, "Hearts"), C(10, "Hearts")},
                 {C(3, "Clubs"), C(12, "Spades"), C(11, "Diamonds")},
                 {C(13, "Clubs"), C(5, "Hearts"), C(3, "Spades")}>>
      moon  == <<{C(1, "Clubs"), C(1, "Hearts"), C(12, "Spades")},
                 {C(2, "Clubs"), C(3, "Clubs"), C(4, "Diamonds")},
                 {C(13, "Clubs"), C(11, "Diamonds"), C(3, "Spades")},
                 {C(2, "Hearts"), C(5, "Hearts"), C(10, "Hearts")}>>
  IN  IF hand \in {1, 3} THEN {mixed} ELSE IF hand \in {2, 4} THEN {moon} ELSE {}

\* A set and a run for the knocker, and cards that lay off on both for the other.
MCGinDeck ==
  Of("Spades", {6, 7, 8, 9, 10}) \cup Of("Hearts", {1, 2, 7, 9}) \cup Of("Diamonds", {1, 7})
  \cup Of("Clubs", {1, 2, 7, 12})

MCGinDeals(hand) ==
  LET knocker == Of("Spades", {8, 9, 10}) \cup Of("Hearts", {1, 7}) \cup {C(7, "Diamonds")}
      other   == Of("Spades", {6, 7}) \cup Of("Clubs", {1, 12})
                 \cup {C(1, "Diamonds"), C(2, "Hearts")}
  IN  IF hand > 2 THEN {}
      ELSE {[hands |-> [p \in Player |-> IF p = hand THEN knocker
                                         ELSE IF p \in 1..2 THEN other ELSE {}],
             up |-> C(7, "Clubs")]}

\* Two of everything that makes counting ambiguous: a straight flush, three aces and three
\* sixes, a wheel, and a kicker.
MCEvalDeck ==
  Of("Spades", 1..6) \cup Of("Hearts", {1, 6, 5, 13}) \cup Of("Diamonds", {1, 6})
  \cup Of("Clubs", {1})

-----------------------------------------------------------------------------
(* The starts *)

Idle == EvaluatorInit /\ BroadcasterInit /\ LimiterInit /\ BrowseInit /\ LockInit

Opens(init) == part = "table" /\ Idle /\ NewTable /\ init

\* A state the first hand can end in: the second seat called the blind of two, everybody
\* folded to it on the flop, and the two short stacks are about to post the blinds.
LastHandOfFour ==
  /\ part = "table" /\ Idle
  /\ game = "poker" /\ phase = "Playing"
  /\ players = <<1, 2, 3, 4>> /\ leftPlayers = <<>> /\ currentTurn = 2
  /\ winner = None /\ reason = None
  /\ hands = [p \in Player |-> {}] /\ deck = {} /\ discard = {} /\ top = None
  /\ extra = [dealer |-> 1, sb |-> 2, bb |-> 3,
              pool |-> 0, currentBet |-> 0, minRaise |-> 2, street |-> "Showdown",
              folded |-> {1, 3, 4}, allIn |-> {}, acted |-> {1, 3, 4},
              chips |-> <<3, 7, 1, 1>>, bets |-> Nobody, contributed |-> <<0, 2, 2, 2>>,
              boardOut |-> TRUE, shown |-> FALSE, strength |-> Nobody,
              handNumber |-> 1, handComplete |-> TRUE, matchComplete |-> FALSE,
              bustedAt |-> Nobody]

NoTable == NewTable /\ game = None /\ players = <<>> /\ extra = None

Init ==
  \/ Opens(UnoInit(<<1, 2, 3>>))
  \/ Opens(EightsInit(<<1, 2, 3>>))
  \/ Opens(HeartsInit(<<1, 2, 3, 4>>))
  \/ Opens(GinInit(<<1, 2>>))
  \/ Opens(PokerInit(<<2, 1, 3>>))
  \/ LastHandOfFour
  \/ part \in {"evaluator", "feed", "limiter", "browser", "locks"} /\ NoTable /\ Idle

Next ==
  /\ UNCHANGED part
  /\ \/ part = "table" /\ GamesNext /\ UNCHANGED services
     \/ part = "evaluator" /\ EvaluatorNext /\ UNCHANGED <<tvars, cvars, lvars, bvars, kvars>>
     \/ part = "feed" /\ BroadcasterNext /\ UNCHANGED <<tvars, dealt, lvars, bvars, kvars>>
     \/ part = "limiter" /\ LimiterNext /\ UNCHANGED <<tvars, dealt, cvars, bvars, kvars>>
     \/ part = "browser" /\ BrowseNext /\ UNCHANGED <<tvars, dealt, cvars, lvars, kvars>>
     \/ part = "locks" /\ LockNext /\ UNCHANGED <<tvars, dealt, cvars, lvars, bvars>>

Spec == Init /\ [][Next]_<<part, tvars, services>>

\* Goroutines are told apart by what they hold only.
CallersAlike == Permutations(Caller)
=============================================================================
