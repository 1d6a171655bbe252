------------------------------- MODULE Table -------------------------------
(***************************************************************************)
(* A table with real rules: the state the engine and the rules share       *)
(* (internal/game/state.go) and what the engine does around every hook of  *)
(* the rules (internal/game/engine.go).  The games EXTEND this module and  *)
(* keep their own state in "extra", as they do in State.Extra.             *)
(*                                                                         *)
(* Engine.tla is about the clock and its races and leaves the rules open;  *)
(* here every call is atomic, as the engine's mutex makes it, and the      *)
(* rules are the code's.  A pile that was shuffled is a set: its next card *)
(* is any of its cards.                                                    *)
(***************************************************************************)
EXTENDS Deck

CONSTANTS
  Player,  (* who may sit down                       *)
  None     (* Go's nil: no winner, no override, ...  *)

ASSUME TableAssumption == None \notin Nat

VARIABLES
  game,         (* the rules the table was opened with            *)
  players,      (* State.Players: the seats, in order             *)
  leftPlayers,  (* State.LeftPlayers, in leaving order            *)
  currentTurn,  (* State.CurrentTurn: a 0-based cursor            *)
  phase,        (* State.Phase                                    *)
  winner,       (* State.Winner                                   *)
  reason,       (* why the game ended                             *)
  hands,        (* Player.Cards                                   *)
  deck,         (* State.Deck                                     *)
  discard,      (* State.Discard, all of it                       *)
  top,          (* the card that lies on top of the discard pile  *)
  extra         (* State.Extra: the state of the rules            *)

seating == <<players, leftPlayers, currentTurn, phase, winner, reason>>
piles   == <<deck, discard, top>>
tvars   == <<game, seating, hands, piles, extra>>

-----------------------------------------------------------------------------
(* Hands *)

\* Every way to deal n cards of a shuffled deck to each of some seats.
Deals(seats, n, cards) ==
  {f \in [ToSet(seats) -> kSubset(n, cards)] :
     \A p, q \in ToSet(seats) : p # q => f[p] \cap f[q] = {}}

Held(f) == UNION Range(f)

\* Hands of everybody, with those of f for the players it names.
Dealt(f) == [p \in Player |-> IF p \in DOMAIN f THEN f[p] ELSE {}]

-----------------------------------------------------------------------------
(* Seats and the cursor *)

Seated(p) == \E i \in 1..Len(players) : players[i] = p

SeatAt(i) == players[i + 1]

SeatOf(p) == (CHOOSE i \in 1..Len(players) : players[i] = p) - 1

OnTurn == SeatAt(currentTurn)

MayAct(p) == phase = "Playing" /\ OnTurn = p

Clamp(cursor, n) == IF n = 0 THEN 0 ELSE cursor % n

ShiftCursor(cursor, i) == IF cursor > i THEN cursor - 1 ELSE cursor

SeatsWithout(p) == RemoveAt(players, SeatOf(p) + 1)

CursorWithout(p) == Clamp(ShiftCursor(currentTurn, SeatOf(p)), Len(players) - 1)

-----------------------------------------------------------------------------
(* What the engine does after the hooks.  "over" is OverrideNextTurn: the hook of this
   very step set it, and applyNextTurnLocked consumes it. *)

Finish(why, w) ==
  /\ phase' = "Finished"
  /\ reason' = why
  /\ winner' = w

PlayOn(cursor, over, n) ==
  /\ currentTurn' = Clamp(IF over = None THEN cursor ELSE over, n)
  /\ UNCHANGED <<phase, reason, winner>>

\* Start, once OnGameStart has dealt and seated the first turn.
Opened(first) ==
  /\ phase' = "Playing"
  /\ currentTurn' = Clamp(first, Len(players))
  /\ UNCHANGED <<game, players, leftPlayers, winner, reason>>

\* The end of submitActionLocked: "won" is CheckWinCondition, "order" the rules' Standings.
AfterMove(won, order, over) ==
  /\ UNCHANGED <<game, players, leftPlayers>>
  /\ \/ won /\ Finish("Win", order[1]) /\ UNCHANGED currentTurn
     \/ ~won /\ PlayOn(currentTurn + 1, over, Len(players))

Forfeited(seats, over) == Len(seats) = 1 /\ over = None

\* The end of removePlayerLocked, once the hooks have settled the rules' state.
AfterLeave(p, won, order, over) ==
  LET seats == SeatsWithout(p) IN
  /\ players' = seats
  /\ leftPlayers' = Append(leftPlayers, p)
  /\ \/ seats = <<>> /\ Finish("Abandoned", None) /\ currentTurn' = 0
     \/ seats # <<>> /\ won /\ Finish("Win", order[1]) /\ currentTurn' = CursorWithout(p)
     \/ /\ seats # <<>> /\ ~won /\ Forfeited(seats, over)
        /\ Finish("Forfeit", seats[1])
        /\ currentTurn' = CursorWithout(p)
     \/ /\ seats # <<>> /\ ~won /\ ~Forfeited(seats, over)
        /\ PlayOn(CursorWithout(p), over, Len(seats))
  /\ UNCHANGED game

-----------------------------------------------------------------------------
(* Standings and places *)

\* StandingsByScore: ascending, ties in seat order.
ByScore(seats, score) ==
  LET before(i, j) == \/ score[seats[i]] < score[seats[j]]
                      \/ score[seats[i]] = score[seats[j]] /\ i < j
      order == InOrder(1..Len(seats), before)
  IN  [k \in 1..Len(seats) |-> seats[order[k]]]

\* standingsLocked: whoever the rules did not place follows, the last to leave first.
WithLeavers(order) ==
  LET unplaced == {i \in 1..Len(leftPlayers) : leftPlayers[i] \notin ToSet(order)}
      later(i, j) == i > j
      last == InOrder(unplaced, later)
  IN  order \o [k \in 1..Cardinality(unplaced) |-> leftPlayers[last[k]]]

\* Mutant: only the scores are compared.
SamePlaceByScore(p, q, score) == score[p] = score[q]

\* A leaver never shares a place with somebody who stayed.
SamePlace(p, q, score) ==
  /\ (p \in ToSet(leftPlayers)) = (q \in ToSet(leftPlayers))
  /\ score[p] = score[q]

\* placesLocked: equals share the place of the first of them.
Places(standings, score) ==
  LET fresh(i) == i = 1 \/ ~SamePlace(standings[i], standings[i - 1], score)
  IN  [i \in 1..Len(standings) |-> Max({j \in 1..i : fresh(j)})]
=============================================================================
