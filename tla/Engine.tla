------------------------------- MODULE Engine -------------------------------
(***************************************************************************)
(* One table's rules engine (internal/game/engine.go) with its turn clock  *)
(* (internal/game/turnclock.go).                                           *)
(*                                                                         *)
(* Every method of the engine holds one mutex, so each method is one       *)
(* action.  The exception is the clock: an expired time.AfterFunc runs     *)
(* onTurnTimeout in a goroutine of its own that takes the mutex twice and  *)
(* releases it in between, and Timer.Stop cannot recall a goroutine that   *)
(* has started.  "timeouts" holds those goroutines, several may be in      *)
(* flight, and every other call may run inside their gap.                  *)
(*                                                                         *)
(* The card game is abstract: what a Rules hook decides (is the move       *)
(* legal, does it end the game, who plays next, does it fail or panic) is  *)
(* a nondeterministic choice.                                              *)
(***************************************************************************)
EXTENDS Integers, Sequences, SequencesExt

CONSTANTS
  Player,         (* the players who may hold a seat                        *)
  Seating,        (* the seats in order when the engine is built            *)
  None,           (* Go's nil: no player, no override, no timer             *)
  MaxMissedTurns, (* misses after which a seat is taken (3 in the code)     *)
  Overrides,      (* what a Rules hook may put into OverrideNextTurn        *)
  MaxCalls        (* bound: calls that sessions and the lobby make in a run *)

ASSUME EngineAssumption ==
  /\ Seating \in Seq(Player)
  /\ Seating # <<>>
  /\ \A i, j \in 1..Len(Seating) : Seating[i] = Seating[j] => i = j
  /\ None \notin Player
  /\ None \notin Int \cup {"Standings", "Process"}
  /\ MaxMissedTurns \in Nat \ {0}
  /\ Overrides \subseteq Int
  /\ MaxCalls \in Nat

VARIABLES
  players,          (* State.Players: the seats, in order                   *)
  leftPlayers,      (* State.LeftPlayers, in leaving order                  *)
  currentTurn,      (* State.CurrentTurn: a 0-based cursor into players     *)
  overrideNextTurn, (* State.OverrideNextTurn, or None                      *)
  phase,            (* State.Phase                                          *)
  winner,           (* State.Winner, or None                                *)
  fault,            (* what a panic over the standings cost, or None        *)
  closed,           (* Engine.closed                                        *)
  feedOpen,         (* the broadcaster has not been closed                  *)
  turnSeq,          (* Engine.turnSeq: the turn generation                  *)
  turnTimer,        (* the generation the armed timer was made for, or None *)
  missedTurns,      (* Engine.missedTurns; an absent key counts 0           *)
  timeouts,         (* onTurnTimeout goroutines in flight                   *)
  emitted,          (* the events broadcast by the latest step              *)
  endings,          (* the reasons of all EventGameEnded delivered so far   *)
  calls             (* calls made so far, for the bound MaxCalls            *)

table == <<players, leftPlayers, currentTurn, overrideNextTurn, phase, winner, fault>>
clock == <<turnSeq, turnTimer>>
feed  == <<emitted, endings>>
vars  == <<table, clock, feed, closed, feedOpen, missedTurns, timeouts, calls>>

Phases     == {"Waiting", "Playing", "Finished"}
EndReasons == {"Win", "RulesError", "Forfeit", "Abandoned"}

\* A goroutine waits to resolve its turn, or has resolved it to a player.
Stages   == {"Taking", "Playing", "Refused", "Panicked"}
Timeouts == [seq : Nat, stage : {"Resolving"}, player : {None}]
            \cup [seq : Nat, stage : Stages, player : Player]

-----------------------------------------------------------------------------
(* Seats and the cursor *)

CurrentPlayer ==
  IF currentTurn \in 0..(Len(players) - 1) THEN players[currentTurn + 1] ELSE None

\* Mutant: an off-by-one moves the cursor back only from two seats behind the leaver.
ShiftCursorLate(cursor, i) == IF cursor > i THEN cursor - 1 ELSE cursor

\* Where the cursor stands once the seat at position i (1-based) is gone.
ShiftCursor(cursor, i) == IF cursor > i - 1 THEN cursor - 1 ELSE cursor

Clamp(cursor, n) == IF n = 0 THEN 0 ELSE cursor % n

\* What a hook that ends a hand, or panics, leaves in CurrentTurn: a hook writes it
\* only to a seat it also puts into OverrideNextTurn, which it may then clear.
HookCursors(cursor) == Overrides \cup {cursor}

NextCursor(cursor, over, advance, n) ==
  Clamp(IF over # None THEN over ELSE IF advance THEN cursor + 1 ELSE cursor, n)

\* What the rules' hooks leave in OverrideNextTurn: a seat, nil, or what was there.
RulesOverride == Overrides \cup {None, overrideNextTurn}

\* The rules rank the seats in an order of their own; nobody seated, nobody wins.
Winners(seats) == IF seats = <<>> THEN {None} ELSE ToSet(seats)

-----------------------------------------------------------------------------
(* The feed: a closed broadcaster swallows what is sent to it *)

Delivered(events) == IF feedOpen THEN events ELSE {}

Broadcast(events) ==
  /\ emitted' = Delivered(events)
  /\ UNCHANGED endings

BroadcastEnd(events, reason) ==
  /\ emitted' = Delivered(events \cup {<<"GameEnded", reason>>})
  /\ endings' = IF feedOpen THEN Append(endings, reason) ELSE endings

-----------------------------------------------------------------------------
(* The turn clock *)

\* Mutant: the generation is not bumped.
SameSeq == turnSeq

\* stopTurnTimerLocked starts a new generation even when no timer was armed.
NextSeq == turnSeq + 1

StopTurnTimer ==
  /\ turnSeq' = NextSeq
  /\ turnTimer' = None

\* Mutant: a single seat is taken for an empty table.
ArmForSeveral(seats, ph) ==
  /\ turnSeq' = NextSeq
  /\ turnTimer' = IF closed \/ ph # "Playing" \/ Len(seats) <= 1 THEN None ELSE NextSeq

ArmTurnTimer(seats, ph) ==
  /\ turnSeq' = NextSeq
  /\ turnTimer' = IF closed \/ ph # "Playing" \/ seats = <<>> THEN None ELSE NextSeq

ApplyNextTurn(seats, cursor, over, advance) ==
  /\ currentTurn' = NextCursor(cursor, over, advance, Len(seats))
  /\ overrideNextTurn' = None
  /\ ArmTurnTimer(seats, "Playing")

FinishGame(seats, reason, events) ==
  /\ phase' = "Finished"
  /\ winner' \in Winners(seats)
  /\ StopTurnTimer
  /\ BroadcastEnd(events, reason)
  /\ UNCHANGED fault

\* finishGameLocked cut short: the rules panicked over the standings.
FinishUnranked(events) ==
  /\ phase' = "Finished"
  /\ fault' = "Standings"
  /\ StopTurnTimer
  /\ Broadcast(events)
  /\ UNCHANGED winner

\* applyNextTurnLocked cut short: TurnTimeout panicked, the timer was stopped before.
ApplyNextTurnUntimed(seats, cursor, over, advance) ==
  /\ currentTurn' = NextCursor(cursor, over, advance, Len(seats))
  /\ overrideNextTurn' = None
  /\ StopTurnTimer

\* Mutant: nobody looks at the generation again.
NeverStale(t) == FALSE

\* Is the goroutine's turn generation over?
Stale(t) == t.seq # turnSeq

Leaves(t) == timeouts' = timeouts \ {t}
Enters(t, stage, p) ==
  timeouts' = (timeouts \ {t}) \cup {[seq |-> t.seq, stage |-> stage, player |-> p]}

-----------------------------------------------------------------------------
(* Start: a failure deals the cards back and leaves the table Waiting *)

Start ==
  /\ ~closed
  /\ phase = "Waiting"
  /\ players # <<>>
  /\ \E first \in 0..(Len(players) - 1), over \in RulesOverride :
        ApplyNextTurn(players, first, over, FALSE)
  /\ phase' = "Playing"
  /\ Broadcast({<<"GameStarted", None>>})
  /\ UNCHANGED <<players, leftPlayers, winner, fault, closed, feedOpen, missedTurns, timeouts, calls>>

StartFails ==
  /\ ~closed
  /\ phase = "Waiting"
  /\ players # <<>>
  /\ currentTurn' = 0
  /\ overrideNextTurn' \in RulesOverride
  /\ Broadcast({})
  /\ UNCHANGED <<players, leftPlayers, phase, winner, fault, closed, feedOpen, clock, missedTurns,
                 timeouts, calls>>

-----------------------------------------------------------------------------
(* Playing a move: what submitActionLocked does once the move is accepted *)

MayAct(p) ==
  /\ ~closed
  /\ phase = "Playing"
  /\ CurrentPlayer = p

\* ApplyAction or AfterAction failed: the state is half applied, the game is over.
MoveFails ==
  /\ \E over \in RulesOverride :
        /\ overrideNextTurn' = over
        /\ currentTurn' \in HookCursors(currentTurn)
  /\ FinishGame(players, "RulesError", {})

MoveWins(p) ==
  /\ \E over \in RulesOverride :
        /\ overrideNextTurn' = over
        /\ currentTurn' \in HookCursors(currentTurn)
  /\ FinishGame(players, "Win", {<<"ActionApplied", p>>})

MoveAdvances(p) ==
  /\ \E over \in RulesOverride : ApplyNextTurn(players, currentTurn, over, TRUE)
  /\ Broadcast({<<"ActionApplied", p>>, <<"TurnAdvanced", None>>})
  /\ UNCHANGED <<phase, winner, fault>>

AcceptedMove(p) ==
  /\ MoveFails \/ MoveWins(p) \/ MoveAdvances(p)
  /\ UNCHANGED <<players, leftPlayers, closed, feedOpen>>

\* A player who acts for themselves is present: the count is deleted.
ClearMisses(p) == missedTurns' = [missedTurns EXCEPT ![p] = 0]

\* SubmitAction.  A move that is refused changes nothing and is not a step.
SubmitAction(p) ==
  /\ calls < MaxCalls
  /\ MayAct(p)
  /\ ClearMisses(p)
  /\ AcceptedMove(p)
  /\ calls' = calls + 1
  /\ UNCHANGED timeouts

-----------------------------------------------------------------------------
(* Giving up a seat: removePlayerLocked; "before" went out in the same hold *)

Seated(p) == Contains(players, p)
SeatOf(p) == CHOOSE i \in 1..Len(players) : players[i] = p

\* Mutant: a finished table lets its seats go.
RemovableAnytime(p) == Seated(p)

\* A finished table keeps its roster, for the standings.
Removable(p) == phase # "Finished" /\ Seated(p)

\* Mutant: the leaver is forgotten.
LeaveTraceless(p, seats) ==
  /\ players' = seats
  /\ missedTurns' = [missedTurns EXCEPT ![p] = 0]
  /\ UNCHANGED leftPlayers

LeaveTable(p, seats) ==
  /\ players' = seats
  /\ leftPlayers' = Append(leftPlayers, p)
  /\ missedTurns' = [missedTurns EXCEPT ![p] = 0]

CursorWithout(p, seats) == Clamp(ShiftCursor(currentTurn, SeatOf(p)), Len(seats))

\* A table that never started cannot be won.
LeaveUnstarted(seats, cursor, over, events) ==
  /\ phase # "Playing"
  /\ currentTurn' \in HookCursors(cursor)
  /\ overrideNextTurn' = over
  /\ Broadcast(events)
  /\ UNCHANGED <<phase, winner, fault, clock>>

LeaveEnds(seats, cursor, over, events) ==
  /\ phase = "Playing"
  /\ currentTurn' \in HookCursors(cursor)
  /\ overrideNextTurn' = over
  /\ \/ seats = <<>> /\ FinishGame(seats, "Abandoned", events)
     \/ seats # <<>> /\ FinishGame(seats, "Win", events)
     \/ Len(seats) = 1 /\ over = None /\ FinishGame(seats, "Forfeit", events)

\* An override keeps the last seat playing: it has a hand left to settle.
MayPlayOn(seats, over) == Len(seats) > 1 \/ (Len(seats) = 1 /\ over # None)

LeavePlaysOn(seats, cursor, over, events) ==
  /\ phase = "Playing"
  /\ MayPlayOn(seats, over)
  /\ ApplyNextTurn(seats, cursor, over, FALSE)
  /\ Broadcast(events \cup {<<"TurnAdvanced", None>>})
  /\ UNCHANGED <<phase, winner, fault>>

RemoveSeat(p, before) ==
  LET seats  == RemoveAt(players, SeatOf(p))
      cursor == CursorWithout(p, seats)
      events == before \cup {<<"PlayerLeft", p>>}
  IN  /\ Removable(p)
      /\ \E over \in RulesOverride :
            /\ LeaveTable(p, seats)
            /\ \/ LeaveUnstarted(seats, cursor, over, events)
               \/ LeaveEnds(seats, cursor, over, events)
               \/ LeavePlaysOn(seats, cursor, over, events)
      /\ UNCHANGED <<closed, feedOpen>>

RemovePlayer(p) ==
  /\ calls < MaxCalls
  /\ RemoveSeat(p, {})
  /\ calls' = calls + 1
  /\ UNCHANGED timeouts

-----------------------------------------------------------------------------
(* Close releases the mutex before it closes the broadcaster *)

Close ==
  /\ calls < MaxCalls
  /\ closed' = TRUE
  /\ StopTurnTimer
  /\ Broadcast({})
  /\ calls' = calls + 1
  /\ UNCHANGED <<table, feedOpen, missedTurns, timeouts>>

CloseFeed ==
  /\ closed
  /\ feedOpen
  /\ feedOpen' = FALSE
  /\ Broadcast({})
  /\ UNCHANGED <<table, closed, clock, missedTurns, timeouts, calls>>

-----------------------------------------------------------------------------
(* The clock's goroutine: fire, resolve, then take the seat or play for it *)

TimerFires ==
  /\ turnTimer # None
  /\ turnTimer' = None
  /\ timeouts' = timeouts \cup {[seq |-> turnTimer, stage |-> "Resolving", player |-> None]}
  /\ Broadcast({})
  /\ UNCHANGED <<table, closed, feedOpen, turnSeq, missedTurns, calls>>

Unaffected == UNCHANGED <<table, closed, feedOpen, clock, calls>>

\* The generation moved on while the goroutine waited for the mutex.
ResolveStale(t) ==
  /\ t.stage = "Resolving"
  /\ Stale(t) \/ phase # "Playing" \/ CurrentPlayer = None
  /\ Leaves(t)
  /\ Broadcast({})
  /\ UNCHANGED missedTurns
  /\ Unaffected

Misses(p) == missedTurns[p] + 1

Resolvable(t) ==
  /\ t.stage = "Resolving"
  /\ ~Stale(t)
  /\ phase = "Playing"
  /\ CurrentPlayer # None

\* A full set of misses: the seat is to be taken.
ResolveIdle(t) ==
  /\ Resolvable(t)
  /\ Misses(CurrentPlayer) >= MaxMissedTurns
  /\ missedTurns' = [missedTurns EXCEPT ![CurrentPlayer] = Misses(CurrentPlayer)]
  /\ Enters(t, "Taking", CurrentPlayer)
  /\ Broadcast({})
  /\ Unaffected

\* The rules offer no safe move: the seat goes, charged with a full set of misses.
ResolveNoMove(t) ==
  /\ Resolvable(t)
  /\ Misses(CurrentPlayer) < MaxMissedTurns
  /\ missedTurns' = [missedTurns EXCEPT ![CurrentPlayer] = MaxMissedTurns]
  /\ Enters(t, "Taking", CurrentPlayer)
  /\ Broadcast({})
  /\ Unaffected

\* One miss is charged and a safe move chosen; the hold that charges it says so.
ResolveAutoPlay(t) ==
  /\ Resolvable(t)
  /\ Misses(CurrentPlayer) < MaxMissedTurns
  /\ missedTurns' = [missedTurns EXCEPT ![CurrentPlayer] = Misses(CurrentPlayer)]
  /\ Enters(t, "Playing", CurrentPlayer)
  /\ Broadcast({<<"TurnTimedOut", CurrentPlayer>>})
  /\ Unaffected

\* TimeoutAction panicked after the miss was charged.
ResolvePanics(t) ==
  /\ Resolvable(t)
  /\ Misses(CurrentPlayer) < MaxMissedTurns
  /\ missedTurns' = [missedTurns EXCEPT ![CurrentPlayer] = Misses(CurrentPlayer)]
  /\ Enters(t, "Panicked", CurrentPlayer)
  /\ Broadcast({})
  /\ Unaffected

\* removeIfStillIdle and submitTimedOutAction find a newer generation and give up.
GapStale(t) ==
  /\ t.stage \in {"Taking", "Playing"}
  /\ Stale(t)
  /\ Leaves(t)
  /\ Broadcast({})
  /\ UNCHANGED missedTurns
  /\ Unaffected

\* The sequence is the whole check that the player is still idle.
MayTake(t) == t.stage = "Taking" /\ ~Stale(t)

TakeSeat(t) ==
  /\ MayTake(t)
  /\ RemoveSeat(t.player, {<<"PlayerIdle", t.player>>})
  /\ Leaves(t)
  /\ UNCHANGED calls

\* What a hook leaves of the turn when it panics, or ends the match.
HookLeaves(cursor) ==
  /\ currentTurn' \in HookCursors(cursor)
  /\ overrideNextTurn' \in RulesOverride

\* OnPlayerLeave panicked: the idle notice is out, the seat is still held.
TakeSeatPanics(t) ==
  /\ MayTake(t)
  /\ Removable(t.player)
  /\ HookLeaves(currentTurn)
  /\ Enters(t, "Panicked", t.player)
  /\ Broadcast({<<"PlayerIdle", t.player>>})
  /\ UNCHANGED <<players, leftPlayers, phase, winner, fault, closed, feedOpen, clock,
                 missedTurns, calls>>

\* A later hook panicked with the seat gone: AfterPlayerRemoved, CheckWinCondition once
\* the leave was announced, the standings of a match that is won, or TurnTimeout.
TakeSeatPanicsLate(t) ==
  LET seats  == RemoveAt(players, SeatOf(t.player))
      cursor == CursorWithout(t.player, seats)
      idle   == {<<"PlayerIdle", t.player>>}
      left   == idle \cup {<<"PlayerLeft", t.player>>}
  IN  /\ MayTake(t)
      /\ Removable(t.player)
      /\ LeaveTable(t.player, seats)
      /\ \/ HookLeaves(cursor) /\ Broadcast(idle) /\ UNCHANGED <<phase, winner, fault, clock>>
         \/ /\ seats # <<>> /\ phase = "Playing"
            /\ HookLeaves(cursor) /\ Broadcast(left) /\ UNCHANGED <<phase, winner, fault, clock>>
         \/ /\ seats # <<>> /\ phase = "Playing"
            /\ HookLeaves(cursor) /\ FinishUnranked(left)
         \/ /\ phase = "Playing" /\ ~closed
            /\ \E over \in RulesOverride :
                  MayPlayOn(seats, over) /\ ApplyNextTurnUntimed(seats, cursor, over, FALSE)
            /\ Broadcast(left) /\ UNCHANGED <<phase, winner, fault>>
      /\ Enters(t, "Panicked", t.player)
      /\ UNCHANGED <<closed, feedOpen, calls>>

\* Mutant: the move is submitted without a look at the generation.
MayPlayUnfenced(t) == t.stage = "Playing"

MayPlayFor(t) == t.stage = "Playing" /\ ~Stale(t)

\* A move that ended the match as a rules error counts as refused.
AutoPlay(t) ==
  /\ MayPlayFor(t)
  /\ MayAct(t.player)
  /\ \/ MoveFails /\ Enters(t, "Refused", t.player)
     \/ (MoveWins(t.player) \/ MoveAdvances(t.player)) /\ Leaves(t)
  /\ UNCHANGED <<players, leftPlayers, closed, feedOpen, missedTurns, calls>>

\* ValidateAction refuses the move TimeoutAction chose (or the table cannot be played).
AutoPlayRefused(t) ==
  /\ MayPlayFor(t)
  /\ Enters(t, "Refused", t.player)
  /\ Broadcast({})
  /\ UNCHANGED missedTurns
  /\ Unaffected

\* A hook panicked: while the move was applied, in CheckWinCondition once it was
\* announced, over the standings of a match it ended, or in TurnTimeout.
AutoPlayPanics(t) ==
  LET applied == {<<"ActionApplied", t.player>>} IN
  /\ MayPlayFor(t)
  /\ MayAct(t.player)
  /\ \/ /\ HookLeaves(currentTurn)
        /\ Broadcast({}) \/ Broadcast(applied)
        /\ UNCHANGED <<phase, winner, fault, clock>>
     \/ /\ HookLeaves(currentTurn)
        /\ FinishUnranked({}) \/ FinishUnranked(applied)
     \/ /\ \E over \in RulesOverride : ApplyNextTurnUntimed(players, currentTurn, over, TRUE)
        /\ Broadcast(applied)
        /\ UNCHANGED <<phase, winner, fault>>
  /\ Enters(t, "Panicked", t.player)
  /\ UNCHANGED <<players, leftPlayers, closed, feedOpen, missedTurns, calls>>

\* rearmTurnTimer takes the mutex again and checks no generation.
Rearm(t) ==
  /\ t.stage = "Refused"
  /\ ArmTurnTimer(players, phase)
  /\ Leaves(t)
  /\ Broadcast({})
  /\ UNCHANGED <<table, closed, feedOpen, missedTurns, calls>>

\* TurnTimeout panicked.
RearmPanics(t) ==
  /\ t.stage = "Refused"
  /\ phase = "Playing" /\ ~closed /\ players # <<>>
  /\ StopTurnTimer
  /\ Enters(t, "Panicked", t.player)
  /\ Broadcast({})
  /\ UNCHANGED <<table, closed, feedOpen, missedTurns, calls>>

\* Mutants: a finished table is ended again; a playing table is left as it is.
RecoverEndsAgain == ~closed
RecoverNeverEnds == FALSE

\* recoverRulesPanic ends a table that is still open and playing, and only that.
RecoverEnds == phase = "Playing" /\ ~closed

Recover(t) ==
  /\ t.stage = "Panicked"
  /\ IF RecoverEnds
     THEN FinishGame(players, "RulesError", {})
     ELSE Broadcast({}) /\ UNCHANGED <<phase, winner, fault, clock>>
  /\ Leaves(t)
  /\ UNCHANGED <<players, leftPlayers, currentTurn, overrideNextTurn, closed, feedOpen,
                 missedTurns, calls>>

\* The standings panic inside the recover: nothing above it recovers, the process dies.
RecoverPanics(t) ==
  /\ t.stage = "Panicked"
  /\ RecoverEnds
  /\ fault' = "Process"
  /\ Broadcast({})
  /\ UNCHANGED <<players, leftPlayers, currentTurn, overrideNextTurn, phase, winner, closed, feedOpen,
                 clock, missedTurns, timeouts, calls>>

-----------------------------------------------------------------------------

Init ==
  /\ players = Seating
  /\ leftPlayers = <<>>
  /\ currentTurn = 0
  /\ overrideNextTurn = None
  /\ phase = "Waiting"
  /\ winner = None
  /\ fault = None
  /\ closed = FALSE
  /\ feedOpen = TRUE
  /\ turnSeq = 0
  /\ turnTimer = None
  /\ missedTurns = [p \in Player |-> 0]
  /\ timeouts = {}
  /\ emitted = {}
  /\ endings = <<>>
  /\ calls = 0

Running == fault # "Process"

Outside ==
  /\ Running
  /\ \/ Start \/ StartFails \/ Close
     \/ \E p \in Player : SubmitAction(p) \/ RemovePlayer(p)

Resolve(t) == \/ ResolveStale(t) \/ ResolveIdle(t) \/ ResolveNoMove(t)
              \/ ResolveAutoPlay(t) \/ ResolvePanics(t)

Settle(t) == \/ GapStale(t)
             \/ TakeSeat(t) \/ TakeSeatPanics(t) \/ TakeSeatPanicsLate(t)
             \/ AutoPlay(t) \/ AutoPlayRefused(t) \/ AutoPlayPanics(t)
             \/ Rearm(t) \/ RearmPanics(t) \/ Recover(t) \/ RecoverPanics(t)

Clock == Running /\ (TimerFires \/ \E t \in timeouts : Resolve(t) \/ Settle(t))

Feed == Running /\ CloseFeed

Next == Outside \/ Feed \/ Clock

\* The runtime fires every armed timer and runs every goroutine; nobody has to play.
Fairness == WF_vars(Clock) /\ WF_vars(Feed)

Spec == Init /\ [][Next]_vars /\ Fairness
-----------------------------------------------------------------------------
(* Properties *)

\* Every variable has its type.
TypeOK ==
  /\ players \in Seq(Player)
  /\ leftPlayers \in Seq(Player)
  /\ currentTurn \in Int
  /\ overrideNextTurn \in Int \cup {None}
  /\ phase \in Phases
  /\ winner \in Player \cup {None}
  /\ fault \in {None, "Standings", "Process"}
  /\ closed \in BOOLEAN
  /\ feedOpen \in BOOLEAN
  /\ turnSeq \in Nat
  /\ turnTimer \in Nat \cup {None}
  /\ missedTurns \in [Player -> Nat]
  /\ timeouts \in SUBSET Timeouts
  /\ endings \in Seq(EndReasons)
  /\ calls \in Nat

Panicking == \E t \in timeouts : t.stage = "Panicked"

\* The claim of removeIfStillIdle (turnclock.go:153): a goroutine in the gap between its
\* two holds whose generation is still current acts on the player on turn, whose misses
\* were not cleared behind its back, at a table that is still playing.
TurnFence ==
  \A t \in timeouts :
    t.stage \in {"Taking", "Playing"} /\ ~Stale(t) =>
      /\ phase = "Playing"
      /\ ~closed
      /\ CurrentPlayer = t.player
      /\ missedTurns[t.player] > 0
      /\ t.stage = "Taking" => missedTurns[t.player] >= MaxMissedTurns

\* A playing table is never left without a clock: a timer is armed for this turn, or a
\* goroutine in flight will settle the turn, arm a new one or end the table.
ClockNeverLost ==
  phase = "Playing" /\ ~closed =>
    \/ turnTimer = turnSeq
    \/ \E t \in timeouts : t.seq = turnSeq \/ t.stage \in {"Refused", "Panicked"}

\* No clock is left running into a finished or closed table, and an armed timer belongs
\* to the turn in progress (finishGameLocked, Close).
ClockStopsWithTable ==
  turnTimer # None => turnTimer = turnSeq /\ phase = "Playing" /\ ~closed

\* At most one owner per turn generation: an armed timer or a goroutine, never both, and
\* only at a table that is open and playing.
OneOwner ==
  /\ \A t \in timeouts : t.seq <= turnSeq
  /\ \A t, u \in timeouts : t.seq = u.seq => t = u
  /\ turnTimer # None => \A t \in timeouts : t.seq # turnSeq
  /\ \A t \in timeouts : t.seq = turnSeq => phase = "Playing" /\ ~closed

\* The end is announced once, and to everyone who was listening when it happened, unless
\* the rules panicked over its standings: the lobby's watcher records one match per table.
AnnouncedOnce ==
  /\ Len(endings) <= 1
  /\ endings # <<>> => phase = "Finished"
  /\ phase = "Finished" /\ feedOpen => endings # <<>> \/ fault = "Standings"

\* Nobody sits twice, nobody both sits and has left, and nobody vanishes: the standings
\* the match is recorded from hold every player who was dealt in, once.
EveryoneAccounted ==
  /\ IsInjective(players)
  /\ IsInjective(leftPlayers)
  /\ ToSet(players) \cap ToSet(leftPlayers) = {}
  /\ ToSet(players) \cup ToSet(leftPlayers) = ToSet(Seating)

\* A leave handler's or a rule's seat index never leaves the turn with nobody, and an
\* override is consumed in the hold that set it (clampTurnLocked, applyNextTurnLocked).
TurnIsSomeones ==
  phase = "Playing" /\ ~closed /\ ~Panicking =>
    CurrentPlayer # None /\ overrideNextTurn = None

\* While a table plays, somebody is on turn and timed; no other table has a clock running.
TurnIsTimed == TurnIsSomeones /\ ClockNeverLost /\ ClockStopsWithTable

\* The inductive invariant behind the clock: no part is preserved without the others.
ClockInv ==
  /\ OneOwner
  /\ TurnFence
  /\ ClockStopsWithTable
  /\ ClockNeverLost
  /\ TurnIsSomeones

\* The winner of a finished table holds a seat at it: leaving afterwards cannot make a
\* leaver the winner, and only an empty table has none, or one the rules failed to rank.
WinnerIsSeated ==
  phase = "Finished" =>
    IF players = <<>> \/ fault = "Standings" THEN winner = None ELSE Seated(winner)

\* What the lobby records of a table is sound: everybody dealt in is in the standings
\* once, the end is announced once, and the winner is somebody who stayed.
ResultSound == EveryoneAccounted /\ AnnouncedOnce /\ WinnerIsSeated

\* A seat is taken for idling only from the player on turn, with a full set of misses.
OnlyIdleRemoved ==
  [][\A p \in Player : <<"PlayerIdle", p>> \in emitted' =>
        CurrentPlayer = p /\ missedTurns[p] >= MaxMissedTurns]_vars

\* The clock plays only for somebody whose miss still stands: a player who acted in the
\* gap of an auto-play is never played for a second time (submitTimedOutAction).
NoDoublePlay ==
  [][\A p \in Player : calls' = calls /\ <<"ActionApplied", p>> \in emitted' =>
        CurrentPlayer = p /\ missedTurns[p] > 0]_vars

\* EventGameEnded is the last event a table sends, so a feed that drops its oldest
\* events when full cannot lose it (broadcaster.go: latest wins).
EndIsLastEvent == [][endings # <<>> => emitted' = {}]_vars

\* Whose turn it is once p is gone: it stays where it was, or passes to p's neighbour.
Heir(p) == IF CurrentPlayer # p THEN CurrentPlayer ELSE players[(SeatOf(p) % Len(players)) + 1]

OverrideSeats == {players[Clamp(o, Len(players)) + 1] : o \in Overrides}

\* A leave neither skips anybody nor hands out a second turn: the cursor follows the seat
\* it pointed at when an earlier seat is deleted, unless the rules name another seat.
TurnSurvivesLeave ==
  [][\A p \in Player :
        /\ Seated(p) /\ ~Seated(p)'
        /\ phase = "Playing" /\ CurrentPlayer # None
        /\ phase' = "Playing" /\ ~Panicking'
        => CurrentPlayer' \in {Heir(p)} \cup OverrideSeats']_vars

\* If nobody plays, the clock ends the table: auto-plays and idle removals cannot go on
\* forever.  (The process may die of a panic first.)
SilentTableEnds == phase = "Playing" ~> (phase = "Finished" \/ closed \/ ~Running)

\* The engine implements the promise the lobby relies on.
M == INSTANCE Match WITH
  Roster <- ToSet(Seating),
  seats  <- ToSet(players),
  reason <- IF endings = <<>> THEN None ELSE endings[1],
  feed   <- feedOpen
KeepsPromise == M!MatchSpec

=============================================================================
