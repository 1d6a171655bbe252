---------------------------- MODULE EngineProofs ----------------------------
(***************************************************************************)
(* Proofs about the engine and its turn clock, for any number of seats,    *)
(* any rules and any number of calls.                                      *)
(***************************************************************************)
EXTENDS Engine, DataLemmas

\* A clamped cursor names one of n seats (clampTurnLocked).
LEMMA ClampInRange ==
  ASSUME NEW c \in Int, NEW n \in Nat
  PROVE  /\ Clamp(c, n) \in Int
         /\ n # 0 => Clamp(c, n) \in 0..(n - 1)
<1>1. CASE n = 0
  BY <1>1 DEF Clamp
<1>2. CASE n # 0
  <2>1. c % n \in 0..(n - 1)
    BY <1>2, ModInRange
  <2> QED BY <1>2, <2>1 DEF Clamp
<1> QED BY <1>1, <1>2

-----------------------------------------------------------------------------
(* Types *)

\* The seat of a player at the table is one of its positions.
LEMMA SeatOfSeated ==
  ASSUME TypeOK, NEW p \in Player, Seated(p)
  PROVE  SeatOf(p) \in 1..Len(players) /\ players[SeatOf(p)] = p
BY DEF Seated, SeatOf, Contains

\* Somebody is on turn exactly when the cursor is inside the seats.
LEMMA CurrentPlayerType ==
  ASSUME TypeOK
  PROVE  /\ CurrentPlayer \in Player \cup {None}
         /\ CurrentPlayer # None => /\ CurrentPlayer \in Player
                                    /\ currentTurn \in 0..(Len(players) - 1)
                                    /\ players # <<>>
                                    /\ CurrentPlayer = players[currentTurn + 1]
BY DEF TypeOK, CurrentPlayer

\* What a hook may write keeps its type.
LEMMA OverrideType ==
  ASSUME TypeOK
  PROVE  /\ RulesOverride \subseteq Int \cup {None}
         /\ \A c \in Int : HookCursors(c) \subseteq Int
BY EngineAssumption DEF TypeOK, RulesOverride, HookCursors

\* Stopping and arming the clock keep the types of its two fields.
LEMMA ClockType ==
  ASSUME TypeOK
  PROVE  /\ StopTurnTimer => turnSeq' \in Nat /\ turnTimer' \in Nat \cup {None}
         /\ \A seats, ph : ArmTurnTimer(seats, ph) =>
               turnSeq' \in Nat /\ turnTimer' \in Nat \cup {None}
BY DEF TypeOK, StopTurnTimer, ArmTurnTimer, NextSeq

\* The cursor stays an integer, and names a seat whenever there is one.
LEMMA NextCursorType ==
  ASSUME TypeOK, NEW c \in Int, NEW over \in RulesOverride, NEW advance \in BOOLEAN,
         NEW n \in Nat
  PROVE  /\ NextCursor(c, over, advance, n) \in Int
         /\ n # 0 => NextCursor(c, over, advance, n) \in 0..(n - 1)
<1> DEFINE d == IF over # None THEN over ELSE IF advance THEN c + 1 ELSE c
<1>1. d \in Int
  BY OverrideType
<1>2. NextCursor(c, over, advance, n) = Clamp(d, n)
  BY DEF NextCursor
<1> HIDE DEF d
<1> QED BY <1>1, <1>2, ClampInRange

\* finishGameLocked keeps the types of what it writes.
LEMMA FinishType ==
  ASSUME TypeOK, NEW seats \in Seq(Player), NEW reason \in EndReasons, NEW events,
         FinishGame(seats, reason, events)
  PROVE  /\ phase' \in Phases /\ phase' = "Finished"
         /\ winner' \in Player \cup {None} /\ fault' = fault
         /\ turnSeq' \in Nat /\ turnTimer' \in Nat \cup {None}
         /\ endings' \in Seq(EndReasons)
<1>1. phase' \in Phases /\ phase' = "Finished" /\ fault' = fault
  BY DEF FinishGame, Phases
<1>2. winner' \in Player \cup {None}
  BY DEF FinishGame, Winners, ToSet
<1>3. turnSeq' \in Nat /\ turnTimer' \in Nat \cup {None}
  BY ClockType DEF FinishGame
<1>4. endings' \in Seq(EndReasons)
  BY DEF FinishGame, BroadcastEnd, Delivered, TypeOK
<1> QED BY <1>1, <1>2, <1>3, <1>4

\* applyNextTurnLocked keeps the types of what it writes.
LEMMA ApplyNextTurnType ==
  ASSUME TypeOK, NEW seats \in Seq(Player), NEW c \in Int, NEW over \in RulesOverride,
         NEW advance \in BOOLEAN, ApplyNextTurn(seats, c, over, advance)
  PROVE  /\ currentTurn' \in Int
         /\ seats # <<>> => currentTurn' \in 0..(Len(seats) - 1)
         /\ overrideNextTurn' = None
         /\ turnSeq' \in Nat /\ turnTimer' \in Nat \cup {None}
<1>1. Len(seats) \in Nat /\ (seats # <<>> => Len(seats) # 0)
  OBVIOUS
<1>2. currentTurn' = NextCursor(c, over, advance, Len(seats))
  BY DEF ApplyNextTurn
<1>3. overrideNextTurn' = None /\ turnSeq' \in Nat /\ turnTimer' \in Nat \cup {None}
  BY ClockType DEF ApplyNextTurn
<1> QED BY <1>1, <1>2, <1>3, NextCursorType

\* What a panic leaves behind keeps its type, wherever in the hold it came.
LEMMA PanicType ==
  ASSUME TypeOK, NEW c \in Int
  PROVE  /\ HookLeaves(c) => currentTurn' \in Int /\ overrideNextTurn' \in Int \cup {None}
         /\ \A events : FinishUnranked(events) =>
               /\ phase' = "Finished" /\ fault' = "Standings"
               /\ UNCHANGED <<winner, endings>>
               /\ turnSeq' \in Nat /\ turnTimer' \in Nat \cup {None}
         /\ \A seats \in Seq(Player), over \in RulesOverride, advance \in BOOLEAN :
               ApplyNextTurnUntimed(seats, c, over, advance) =>
                 /\ currentTurn' \in Int /\ overrideNextTurn' \in Int \cup {None}
                 /\ turnSeq' \in Nat /\ turnTimer' \in Nat \cup {None}
<1>1. HookLeaves(c) => currentTurn' \in Int /\ overrideNextTurn' \in Int \cup {None}
  BY OverrideType DEF HookLeaves
<1>2. ASSUME NEW events, FinishUnranked(events)
      PROVE  /\ phase' = "Finished" /\ fault' = "Standings"
             /\ UNCHANGED <<winner, endings>>
             /\ turnSeq' \in Nat /\ turnTimer' \in Nat \cup {None}
  BY <1>2, ClockType DEF FinishUnranked, Broadcast
<1>3. ASSUME NEW seats \in Seq(Player), NEW over \in RulesOverride, NEW advance \in BOOLEAN,
             ApplyNextTurnUntimed(seats, c, over, advance)
      PROVE  /\ currentTurn' \in Int /\ overrideNextTurn' \in Int \cup {None}
             /\ turnSeq' \in Nat /\ turnTimer' \in Nat \cup {None}
  <2>1. Len(seats) \in Nat
    OBVIOUS
  <2> QED BY <1>3, <2>1, ClockType, NextCursorType DEF ApplyNextTurnUntimed
<1> QED BY <1>1, <1>2, <1>3

\* An accepted move keeps the types of what it writes.
LEMMA AcceptedMoveType ==
  ASSUME TypeOK, NEW p \in Player, AcceptedMove(p)
  PROVE  /\ players' = players /\ leftPlayers' = leftPlayers
         /\ closed' = closed /\ feedOpen' = feedOpen
         /\ currentTurn' \in Int /\ overrideNextTurn' \in Int \cup {None}
         /\ phase' \in Phases /\ winner' \in Player \cup {None} /\ fault' = fault
         /\ turnSeq' \in Nat /\ turnTimer' \in Nat \cup {None}
         /\ endings' \in Seq(EndReasons)
<1> USE DEF TypeOK
<1>0. players' = players /\ leftPlayers' = leftPlayers /\ closed' = closed /\ feedOpen' = feedOpen
  BY DEF AcceptedMove
<1>1. CASE MoveFails
  BY <1>0, <1>1, FinishType, OverrideType DEF MoveFails, EndReasons
<1>2. CASE MoveWins(p)
  BY <1>0, <1>2, FinishType, OverrideType DEF MoveWins, EndReasons
<1>3. CASE MoveAdvances(p)
  <2>1. PICK over \in RulesOverride : ApplyNextTurn(players, currentTurn, over, TRUE)
    BY <1>3 DEF MoveAdvances
  <2>2. UNCHANGED <<phase, winner, fault, endings>>
    BY <1>3 DEF MoveAdvances, Broadcast
  <2> QED BY <1>0, <2>1, <2>2, ApplyNextTurnType
<1> QED BY <1>1, <1>2, <1>3 DEF AcceptedMove

\* Giving up a seat leaves typed seats and a typed cursor.
LEMMA SeatsWithoutType ==
  ASSUME TypeOK, NEW p \in Player, Seated(p)
  PROVE  /\ RemoveAt(players, SeatOf(p)) \in Seq(Player)
         /\ CursorWithout(p, RemoveAt(players, SeatOf(p))) \in Int
<1> DEFINE seats == RemoveAt(players, SeatOf(p))
<1>1. SeatOf(p) \in 1..Len(players) /\ players \in Seq(Player)
  BY SeatOfSeated DEF TypeOK
<1>2. seats \in Seq(Player)
  BY <1>1, RemoveAtType
<1>3. ShiftCursor(currentTurn, SeatOf(p)) \in Int
  BY <1>1 DEF ShiftCursor, TypeOK
<1> HIDE DEF seats
<1>4. Len(seats) \in Nat
  BY <1>2
<1>5. CursorWithout(p, seats) \in Int
  BY <1>3, <1>4, ClampInRange DEF CursorWithout
<1> QED BY <1>2, <1>5 DEF seats

\* removePlayerLocked keeps the types of what it writes.
LEMMA RemoveSeatType ==
  ASSUME TypeOK, NEW p \in Player, NEW before, RemoveSeat(p, before)
  PROVE  /\ players' \in Seq(Player) /\ leftPlayers' \in Seq(Player)
         /\ closed' = closed /\ feedOpen' = feedOpen
         /\ currentTurn' \in Int /\ overrideNextTurn' \in Int \cup {None}
         /\ phase' \in Phases /\ winner' \in Player \cup {None} /\ fault' = fault
         /\ turnSeq' \in Nat /\ turnTimer' \in Nat \cup {None}
         /\ endings' \in Seq(EndReasons)
         /\ missedTurns' \in [Player -> Nat]
<1> DEFINE seats  == RemoveAt(players, SeatOf(p))
           cursor == CursorWithout(p, seats)
           events == before \cup {<<"PlayerLeft", p>>}
<1>1. Seated(p) /\ closed' = closed /\ feedOpen' = feedOpen
  BY DEF RemoveSeat, Removable
<1>2. seats \in Seq(Player) /\ cursor \in Int
  BY <1>1, SeatsWithoutType
<1>3. PICK over \in RulesOverride :
        /\ LeaveTable(p, seats)
        /\ \/ LeaveUnstarted(seats, cursor, over, events)
           \/ LeaveEnds(seats, cursor, over, events)
           \/ LeavePlaysOn(seats, cursor, over, events)
  BY DEF RemoveSeat
<1> HIDE DEF seats, cursor, events
<1>4. over \in Int \cup {None} /\ HookCursors(cursor) \subseteq Int
  BY <1>2, OverrideType
<1>5. /\ players' \in Seq(Player) /\ leftPlayers' \in Seq(Player)
      /\ missedTurns' \in [Player -> Nat]
  BY <1>2, <1>3 DEF LeaveTable, TypeOK
<1>6. CASE LeaveUnstarted(seats, cursor, over, events)
  BY <1>1, <1>4, <1>5, <1>6 DEF LeaveUnstarted, Broadcast, TypeOK, clock
<1>7. CASE LeaveEnds(seats, cursor, over, events)
  <2>1. currentTurn' \in Int /\ overrideNextTurn' \in Int \cup {None}
    BY <1>4, <1>7 DEF LeaveEnds
  <2>2. PICK reason \in EndReasons : FinishGame(seats, reason, events)
    BY <1>7 DEF LeaveEnds, EndReasons
  <2> QED BY <1>1, <1>2, <1>5, <2>1, <2>2, FinishType
<1>8. CASE LeavePlaysOn(seats, cursor, over, events)
  <2>1. ApplyNextTurn(seats, cursor, over, FALSE) /\ UNCHANGED <<phase, winner, fault, endings>>
    BY <1>8 DEF LeavePlaysOn, Broadcast
  <2> QED BY <1>1, <1>2, <1>5, <2>1, ApplyNextTurnType DEF TypeOK
<1> QED BY <1>3, <1>6, <1>7, <1>8

\* A goroutine that leaves, or goes on to its second hold, stays a Timeout.
LEMMA EntersType ==
  ASSUME TypeOK, NEW t \in timeouts
  PROVE  /\ Leaves(t) => timeouts' \in SUBSET Timeouts
         /\ \A stage \in Stages, p \in Player : Enters(t, stage, p) => timeouts' \in SUBSET Timeouts
<1>1. timeouts \ {t} \in SUBSET Timeouts
  BY DEF TypeOK
<1>2. \A stage \in Stages, p \in Player : [seq |-> t.seq, stage |-> stage, player |-> p] \in Timeouts
  BY DEF TypeOK, Timeouts
<1> QED BY <1>1, <1>2 DEF Leaves, Enters

\* A charged miss keeps the counts numbers.
LEMMA MissType ==
  ASSUME TypeOK, NEW p \in Player, NEW n \in Nat, missedTurns' = [missedTurns EXCEPT ![p] = n]
  PROVE  missedTurns' \in [Player -> Nat]
BY DEF TypeOK

\* A call of a session or the lobby preserves TypeOK.
LEMMA OutsideType ==
  ASSUME TypeOK, Outside
  PROVE  TypeOK'
<1>1. CASE Start
  <2>1. PICK first \in 0..(Len(players) - 1), over \in RulesOverride :
          ApplyNextTurn(players, first, over, FALSE)
    BY <1>1 DEF Start
  <2>2. players \in Seq(Player) /\ first \in Int
    BY DEF TypeOK
  <2>3. /\ currentTurn' \in Int /\ overrideNextTurn' = None
        /\ turnSeq' \in Nat /\ turnTimer' \in Nat \cup {None}
    BY <2>1, <2>2, ApplyNextTurnType
  <2> QED BY <1>1, <2>3 DEF Start, TypeOK, Broadcast, Phases
<1>2. CASE StartFails
  BY <1>2, OverrideType DEF StartFails, TypeOK, Broadcast, clock
<1>3. CASE Close
  BY <1>3, ClockType DEF Close, TypeOK, Broadcast, table
<1>4. ASSUME NEW p \in Player, SubmitAction(p)
      PROVE  TypeOK'
  <2>1. AcceptedMove(p) /\ ClearMisses(p) /\ calls' = calls + 1 /\ UNCHANGED timeouts
    BY <1>4 DEF SubmitAction
  <2> QED BY <2>1, AcceptedMoveType, MissType DEF TypeOK, ClearMisses
<1>5. ASSUME NEW p \in Player, RemovePlayer(p)
      PROVE  TypeOK'
  <2>1. RemoveSeat(p, {}) /\ calls' = calls + 1 /\ UNCHANGED timeouts
    BY <1>5 DEF RemovePlayer
  <2>2. /\ players' \in Seq(Player) /\ leftPlayers' \in Seq(Player)
        /\ closed' = closed /\ feedOpen' = feedOpen
        /\ currentTurn' \in Int /\ overrideNextTurn' \in Int \cup {None}
        /\ phase' \in Phases /\ winner' \in Player \cup {None} /\ fault' = fault
        /\ turnSeq' \in Nat /\ turnTimer' \in Nat \cup {None}
        /\ endings' \in Seq(EndReasons)
        /\ missedTurns' \in [Player -> Nat]
    BY <2>1, RemoveSeatType
  <2> QED BY <2>1, <2>2 DEF TypeOK
<1> QED BY <1>1, <1>2, <1>3, <1>4, <1>5 DEF Outside

\* The first hold of the clock's goroutine preserves TypeOK.
LEMMA ResolveType ==
  ASSUME TypeOK, NEW t \in timeouts, Resolve(t)
  PROVE  TypeOK'
<1>1. UNCHANGED <<players, leftPlayers, currentTurn, overrideNextTurn, phase, winner, fault, closed,
                  feedOpen, turnSeq, turnTimer, endings, calls>>
  BY DEF Resolve, ResolveStale, ResolveIdle, ResolveNoMove, ResolveAutoPlay, ResolvePanics,
         Unaffected, table, clock, Broadcast
<1>2. CASE ResolveStale(t)
  BY <1>1, <1>2, EntersType DEF ResolveStale, TypeOK
<1>3. CASE Resolvable(t)
  <2>1. CurrentPlayer \in Player
    BY <1>3, CurrentPlayerType DEF Resolvable
  <2>2. Misses(CurrentPlayer) \in Nat /\ MaxMissedTurns \in Nat
    BY <2>1, EngineAssumption DEF Misses, TypeOK
  <2>3. missedTurns' \in [Player -> Nat]
    BY <2>1, <2>2 DEF Resolve, ResolveStale, ResolveIdle, ResolveNoMove, ResolveAutoPlay,
                      ResolvePanics, TypeOK
  <2>4. timeouts' \in SUBSET Timeouts
    BY <2>1, EntersType DEF Resolve, ResolveStale, ResolveIdle, ResolveNoMove, ResolveAutoPlay,
                      ResolvePanics, Stages
  <2> QED BY <1>1, <2>3, <2>4 DEF TypeOK
<1> QED BY <1>2, <1>3 DEF Resolve, ResolveIdle, ResolveNoMove, ResolveAutoPlay, ResolvePanics

\* A goroutine in its second hold has resolved its turn to a player.
LEMMA SettlesForSomebody ==
  ASSUME TypeOK, NEW t \in timeouts, Settle(t)
  PROVE  t.player \in Player /\ t.stage \in Stages
<1>1. t \in Timeouts
  BY DEF TypeOK
<1>2. t.stage \in Stages
  BY DEF Settle, GapStale, TakeSeat, TakeSeatPanics, TakeSeatPanicsLate, AutoPlay, AutoPlayRefused,
         AutoPlayPanics, Rearm, RearmPanics, Recover, RecoverPanics, MayTake, MayPlayFor, Stages
<1> QED BY <1>1, <1>2 DEF Timeouts, Stages

\* The second hold of the clock's goroutine preserves TypeOK.
LEMMA SettleType ==
  ASSUME TypeOK, NEW t \in timeouts, Settle(t)
  PROVE  TypeOK'
<1>1. t.player \in Player
  BY SettlesForSomebody
<1>2. CASE GapStale(t)
  BY <1>2, EntersType DEF GapStale, Unaffected, table, clock, Broadcast, TypeOK
<1>3. CASE TakeSeat(t)
  BY <1>1, <1>3, EntersType, RemoveSeatType DEF TakeSeat, TypeOK
<1>4. ASSUME Enters(t, "Panicked", t.player) PROVE timeouts' \in SUBSET Timeouts
  BY <1>1, <1>4, EntersType DEF Stages
<1>5. CASE TakeSeatPanics(t)
  <2>1. HookLeaves(currentTurn) /\ timeouts' \in SUBSET Timeouts /\ currentTurn \in Int
    BY <1>4, <1>5 DEF TakeSeatPanics, TypeOK
  <2>2. currentTurn' \in Int /\ overrideNextTurn' \in Int \cup {None}
    BY <2>1, PanicType
  <2> QED BY <1>5, <2>1, <2>2 DEF TakeSeatPanics, clock, Broadcast, TypeOK
<1>6. CASE TakeSeatPanicsLate(t)
  <2> DEFINE seats  == RemoveAt(players, SeatOf(t.player))
             cursor == CursorWithout(t.player, seats)
             left   == {<<"PlayerIdle", t.player>>} \cup {<<"PlayerLeft", t.player>>}
  <2>1. seats \in Seq(Player) /\ cursor \in Int
    BY <1>1, <1>6, SeatsWithoutType DEF TakeSeatPanicsLate, Removable
  <2>2. /\ LeaveTable(t.player, seats) /\ timeouts' \in SUBSET Timeouts
        /\ UNCHANGED <<closed, feedOpen, calls>>
    BY <1>4, <1>6 DEF TakeSeatPanicsLate
  <2>3. \/ /\ HookLeaves(cursor) /\ UNCHANGED <<phase, winner, fault, clock>>
           /\ \E events : Broadcast(events)
        \/ HookLeaves(cursor) /\ FinishUnranked(left)
        \/ /\ \E over \in RulesOverride : ApplyNextTurnUntimed(seats, cursor, over, FALSE)
           /\ Broadcast(left) /\ UNCHANGED <<phase, winner, fault>>
    BY <1>6 DEF TakeSeatPanicsLate
  <2> HIDE DEF seats, cursor, left
  <2>4. /\ players' \in Seq(Player) /\ leftPlayers' \in Seq(Player)
        /\ missedTurns' \in [Player -> Nat]
    BY <1>1, <2>1, <2>2 DEF LeaveTable, TypeOK
  <2>5. CASE HookLeaves(cursor) /\ UNCHANGED <<phase, winner, fault, clock>>
             /\ \E events : Broadcast(events)
    <3>1. currentTurn' \in Int /\ overrideNextTurn' \in Int \cup {None}
      BY <2>1, <2>5, PanicType
    <3> QED BY <2>2, <2>4, <2>5, <3>1 DEF clock, Broadcast, TypeOK
  <2>6. CASE HookLeaves(cursor) /\ FinishUnranked(left)
    <3>1. /\ currentTurn' \in Int /\ overrideNextTurn' \in Int \cup {None}
          /\ phase' = "Finished" /\ fault' = "Standings"
          /\ UNCHANGED <<winner, endings>>
          /\ turnSeq' \in Nat /\ turnTimer' \in Nat \cup {None}
      BY <2>1, <2>6, PanicType
    <3> QED BY <2>2, <2>4, <3>1 DEF TypeOK, Phases
  <2>7. CASE /\ \E over \in RulesOverride : ApplyNextTurnUntimed(seats, cursor, over, FALSE)
             /\ Broadcast(left) /\ UNCHANGED <<phase, winner, fault>>
    <3>1. /\ currentTurn' \in Int /\ overrideNextTurn' \in Int \cup {None}
          /\ turnSeq' \in Nat /\ turnTimer' \in Nat \cup {None}
      BY <2>1, <2>7, PanicType
    <3> QED BY <2>2, <2>4, <2>7, <3>1 DEF Broadcast, TypeOK
  <2> QED BY <2>3, <2>5, <2>6, <2>7
<1>7. CASE AutoPlay(t)
  <2>1. AcceptedMove(t.player) /\ UNCHANGED <<missedTurns, calls>>
    BY <1>7 DEF AutoPlay, AcceptedMove
  <2>2. timeouts' \in SUBSET Timeouts
    BY <1>1, <1>7, EntersType DEF AutoPlay, Stages
  <2> QED BY <1>1, <2>1, <2>2, AcceptedMoveType DEF TypeOK
<1>8. CASE AutoPlayRefused(t)
  BY <1>1, <1>8, EntersType DEF AutoPlayRefused, Unaffected, table, clock, Broadcast, TypeOK, Stages
<1>9. CASE AutoPlayPanics(t)
  <2>1. /\ timeouts' \in SUBSET Timeouts /\ currentTurn \in Int /\ players \in Seq(Player)
        /\ UNCHANGED <<players, leftPlayers, closed, feedOpen, missedTurns, calls>>
    BY <1>4, <1>9 DEF AutoPlayPanics, TypeOK
  <2>2. CASE HookLeaves(currentTurn) /\ UNCHANGED <<phase, winner, fault, clock>>
             /\ \E events : Broadcast(events)
    <3>1. currentTurn' \in Int /\ overrideNextTurn' \in Int \cup {None}
      BY <2>1, <2>2, PanicType
    <3> QED BY <2>1, <2>2, <3>1 DEF clock, Broadcast, TypeOK
  <2>3. CASE HookLeaves(currentTurn) /\ \E events : FinishUnranked(events)
    <3>1. /\ currentTurn' \in Int /\ overrideNextTurn' \in Int \cup {None}
          /\ phase' = "Finished" /\ fault' = "Standings"
          /\ UNCHANGED <<winner, endings>>
          /\ turnSeq' \in Nat /\ turnTimer' \in Nat \cup {None}
      BY <2>1, <2>3, PanicType
    <3> QED BY <2>1, <3>1 DEF TypeOK, Phases
  <2>4. CASE /\ \E over \in RulesOverride : ApplyNextTurnUntimed(players, currentTurn, over, TRUE)
             /\ \E events : Broadcast(events)
             /\ UNCHANGED <<phase, winner, fault>>
    <3>1. /\ currentTurn' \in Int /\ overrideNextTurn' \in Int \cup {None}
          /\ turnSeq' \in Nat /\ turnTimer' \in Nat \cup {None}
      BY <2>1, <2>4, PanicType
    <3> QED BY <2>1, <2>4, <3>1 DEF Broadcast, TypeOK
  <2> QED BY <1>9, <2>2, <2>3, <2>4 DEF AutoPlayPanics
<1>10. CASE Rearm(t)
  BY <1>10, EntersType, ClockType DEF Rearm, table, Broadcast, TypeOK
<1>11. CASE RearmPanics(t)
  BY <1>4, <1>11, ClockType DEF RearmPanics, table, Broadcast, TypeOK
<1>12. CASE Recover(t)
  <2>1. timeouts' \in SUBSET Timeouts
    BY <1>12, EntersType DEF Recover
  <2>2. CASE RecoverEnds
    BY <1>12, <2>1, <2>2, FinishType DEF Recover, TypeOK, EndReasons
  <2>3. CASE ~RecoverEnds
    BY <1>12, <2>1, <2>3 DEF Recover, Broadcast, clock, TypeOK
  <2> QED BY <2>2, <2>3
<1>13. CASE RecoverPanics(t)
  BY <1>13 DEF RecoverPanics, Broadcast, clock, TypeOK
<1> QED BY <1>2, <1>3, <1>5, <1>6, <1>7, <1>8, <1>9, <1>10, <1>11, <1>12, <1>13 DEF Settle

\* Types hold in every reachable state.
THEOREM TypeCorrect == Spec => []TypeOK
<1>1. Init => TypeOK
  <2> SUFFICES ASSUME Init PROVE TypeOK
    OBVIOUS
  <2>0. players = Seating /\ leftPlayers = <<>> /\ endings = <<>>
    BY DEF Init
  <2>1. players \in Seq(Player) /\ leftPlayers \in Seq(Player) /\ endings \in Seq(EndReasons)
    BY <2>0, EngineAssumption
  <2>2. timeouts \in SUBSET Timeouts /\ missedTurns \in [Player -> Nat]
    BY DEF Init
  <2>3. /\ currentTurn \in Int /\ turnSeq \in Nat /\ calls \in Nat
        /\ phase \in Phases
    BY DEF Init, Phases
  <2>5. closed \in BOOLEAN /\ feedOpen \in BOOLEAN
    BY DEF Init
  <2>4. overrideNextTurn = None /\ winner = None /\ fault = None /\ turnTimer = None
    BY DEF Init
  <2> QED BY <2>1, <2>2, <2>3, <2>4, <2>5 DEF TypeOK
<1>2. TypeOK /\ [Next]_vars => TypeOK'
  <2> SUFFICES ASSUME TypeOK, [Next]_vars
               PROVE  TypeOK'
    OBVIOUS
  <2>1. CASE Outside
    BY <2>1, OutsideType
  <2>2. CASE CloseFeed
    BY <2>2 DEF CloseFeed, TypeOK, table, clock, Broadcast
  <2>3. CASE TimerFires
    BY <2>3 DEF TimerFires, TypeOK, Timeouts, table, Broadcast
  <2>4. ASSUME NEW t \in timeouts, Resolve(t)
        PROVE  TypeOK'
    BY <2>4, ResolveType
  <2>5. ASSUME NEW t \in timeouts, Settle(t)
        PROVE  TypeOK'
    BY <2>5, SettleType
  <2>6. CASE UNCHANGED vars
    BY <2>6 DEF vars, table, clock, feed, TypeOK
  <2> QED BY <2>1, <2>2, <2>3, <2>4, <2>5, <2>6 DEF Next, Feed, Clock
<1> QED BY <1>1, <1>2, PTL DEF Spec

-----------------------------------------------------------------------------
(* The clock *)

\* No goroutine starts: they stay as they are, leave, or one of them goes on.
NoneStarts ==
  \/ timeouts' \subseteq timeouts
  \/ \E t \in timeouts, stage \in Stages, p \in Player : Enters(t, stage, p)

\* A step that opens a new generation outlives every goroutine in flight: they are all
\* stale from here on.
LEMMA NewGeneration ==
  ASSUME TypeOK, ClockInv,
         turnSeq' = turnSeq + 1,
         NoneStarts,
         turnTimer' # None => turnTimer' = turnSeq' /\ phase' = "Playing" /\ ~closed',
         phase' = "Playing" /\ ~closed' =>
           turnTimer' = turnSeq' \/ \E t \in timeouts' : t.stage \in {"Refused", "Panicked"},
         TurnIsSomeones'
  PROVE  ClockInv'
<1>1. /\ \A t \in timeouts' : t.seq \in Nat /\ t.seq <= turnSeq
      /\ \A t, u \in timeouts' : t.seq = u.seq => t = u
      /\ turnSeq \in Nat
  <2>1. /\ \A t \in timeouts : t.seq \in Nat /\ t.seq <= turnSeq
        /\ \A t, u \in timeouts : t.seq = u.seq => t = u
        /\ turnSeq \in Nat
    BY DEF ClockInv, OneOwner, TypeOK, Timeouts
  <2>2. CASE timeouts' \subseteq timeouts
    BY <2>1, <2>2
  <2>3. ASSUME NEW t \in timeouts, NEW stage \in Stages, NEW p \in Player, Enters(t, stage, p)
        PROVE  /\ \A v \in timeouts' : v.seq \in Nat /\ v.seq <= turnSeq
               /\ \A v, w \in timeouts' : v.seq = w.seq => v = w
    <3> DEFINE u == [seq |-> t.seq, stage |-> stage, player |-> p]
    <3>1. timeouts' = (timeouts \ {t}) \cup {u} /\ u.seq = t.seq
      BY <2>3 DEF Enters
    <3> HIDE DEF u
    <3> QED BY <2>1, <3>1
  <2> QED BY <2>1, <2>2, <2>3 DEF NoneStarts
<1>2. \A t \in timeouts' : t.seq < turnSeq' /\ t.seq # turnSeq'
  BY <1>1
<1>3. OneOwner'
  BY <1>1, <1>2 DEF ClockInv, OneOwner
<1>4. TurnFence'
  BY <1>2 DEF TurnFence, Stale
<1>5. ClockStopsWithTable' /\ ClockNeverLost'
  BY DEF ClockStopsWithTable, ClockNeverLost
<1> QED BY <1>3, <1>4, <1>5 DEF ClockInv

\* The end of a table preserves ClockInv: the generation moves past every goroutine.
LEMMA FinishStep ==
  ASSUME TypeOK, ClockInv, NEW seats, NEW reason, NEW events,
         FinishGame(seats, reason, events), NoneStarts
  PROVE  ClockInv'
<1>1. turnSeq' = turnSeq + 1 /\ turnTimer' = None /\ phase' = "Finished"
  BY DEF FinishGame, StopTurnTimer, NextSeq
<1> QED BY <1>1, NewGeneration DEF TurnIsSomeones

\* A goroutine panics after the timer was stopped: it is still there to end the table.
LEMMA PanicStep ==
  ASSUME TypeOK, ClockInv, NEW t \in timeouts, NEW p \in Player,
         Enters(t, "Panicked", p), StopTurnTimer
  PROVE  ClockInv'
<1> DEFINE u == [seq |-> t.seq, stage |-> "Panicked", player |-> p]
<1>1. u \in timeouts' /\ u.stage = "Panicked"
  BY DEF Enters
<1>2. turnSeq' = turnSeq + 1 /\ turnTimer' = None /\ NoneStarts
  BY DEF StopTurnTimer, NextSeq, NoneStarts, Stages
<1> HIDE DEF u
<1>3. TurnIsSomeones'
  BY <1>1 DEF TurnIsSomeones, Panicking
<1> QED BY <1>1, <1>2, <1>3, NewGeneration

\* A new turn preserves ClockInv: its generation has one owner, the armed timer.
LEMMA ApplyNextTurnStep ==
  ASSUME TypeOK, ClockInv, NEW seats \in Seq(Player), seats # <<>>, NEW c \in Int,
         NEW over \in RulesOverride, NEW advance \in BOOLEAN,
         ApplyNextTurn(seats, c, over, advance),
         players' = seats, phase' = "Playing", closed' = closed,
         timeouts' \subseteq timeouts
  PROVE  ClockInv'
<1>1. turnSeq' = turnSeq + 1 /\ turnTimer' = IF closed THEN None ELSE turnSeq'
  BY DEF ApplyNextTurn, ArmTurnTimer, NextSeq
<1>2. currentTurn' \in 0..(Len(players') - 1) /\ overrideNextTurn' = None
  BY ApplyNextTurnType
<1>3. players'[currentTurn' + 1] \in Player
  BY <1>2
<1>4. CurrentPlayer' # None
  BY <1>2, <1>3, EngineAssumption DEF CurrentPlayer
<1>5. TurnIsSomeones'
  BY <1>2, <1>4 DEF TurnIsSomeones
<1> QED BY <1>1, <1>5, NewGeneration DEF NoneStarts

\* A goroutine whose generation is current moves on: it is the only one that matters.
LEMMA OwnerStep ==
  ASSUME TypeOK, ClockInv, NEW t \in timeouts, NEW stage \in Stages, NEW p \in Player,
         ~Stale(t), Enters(t, stage, p),
         UNCHANGED <<turnSeq, turnTimer, phase, closed>>,
         stage # "Panicked" => UNCHANGED <<players, currentTurn, overrideNextTurn>>,
         stage \in {"Taking", "Playing"} =>
           CurrentPlayer = p /\ missedTurns'[p] > 0,
         stage = "Taking" => missedTurns'[p] >= MaxMissedTurns,
         t.stage # "Panicked"
  PROVE  ClockInv'
<1> DEFINE u == [seq |-> t.seq, stage |-> stage, player |-> p]
<1>1. t.seq = turnSeq /\ phase = "Playing" /\ ~closed /\ turnTimer = None
  BY DEF Stale, ClockInv, OneOwner
<1>2. timeouts' = (timeouts \ {t}) \cup {u} /\ u.seq = turnSeq /\ u.stage = stage /\ u.player = p
  BY <1>1 DEF Enters
<1> HIDE DEF u
<1>3. \A v \in timeouts' : v # u => v \in timeouts /\ v # t /\ v.seq # turnSeq
  BY <1>1, <1>2 DEF ClockInv, OneOwner
<1>4. OneOwner'
  BY <1>1, <1>2, <1>3 DEF ClockInv, OneOwner
<1>5. stage # "Panicked" => CurrentPlayer' = CurrentPlayer
  BY DEF CurrentPlayer
<1>6. TurnFence'
  BY <1>1, <1>2, <1>3, <1>5 DEF TurnFence, Stale
<1>7. ClockStopsWithTable' /\ ClockNeverLost'
  BY <1>1, <1>2 DEF ClockStopsWithTable, ClockNeverLost
<1>8. TurnIsSomeones'
  <2>1. CASE stage = "Panicked"
    BY <1>2, <2>1 DEF TurnIsSomeones, Panicking
  <2>2. CASE stage # "Panicked"
    <3>1. \A v \in timeouts : v.stage = "Panicked" => v \in timeouts'
      BY <1>2
    <3>2. Panicking => Panicking'
      BY <3>1 DEF Panicking
    <3> QED BY <1>5, <2>2, <3>2 DEF TurnIsSomeones, ClockInv
  <2> QED BY <2>1, <2>2
<1> QED BY <1>4, <1>6, <1>7, <1>8 DEF ClockInv

\* A step at a table that is not playing, or that changes no seat, turn or clock, and
\* starts or ends no goroutine.
LEMMA BystanderStep ==
  ASSUME TypeOK, ClockInv,
         UNCHANGED <<turnSeq, turnTimer, phase, closed, timeouts>>,
         phase = "Playing" => UNCHANGED <<players, currentTurn, overrideNextTurn, missedTurns>>
  PROVE  ClockInv'
<1>1. OneOwner' /\ ClockStopsWithTable' /\ ClockNeverLost'
  BY DEF ClockInv, OneOwner, ClockStopsWithTable, ClockNeverLost
<1>2. CASE phase = "Playing"
  <2>1. CurrentPlayer' = CurrentPlayer
    BY <1>2 DEF CurrentPlayer
  <2> QED BY <1>1, <1>2, <2>1 DEF ClockInv, TurnFence, Stale, TurnIsSomeones, Panicking
<1>3. CASE phase # "Playing"
  <2>1. \A t \in timeouts : t.seq # turnSeq
    BY <1>3 DEF ClockInv, OneOwner
  <2> QED BY <1>1, <1>3, <2>1 DEF ClockInv, TurnFence, Stale, TurnIsSomeones
<1> QED BY <1>2, <1>3

\* A goroutine that ends without having owned the turn, or that leaves another to end the
\* table, takes no clock away.
LEMMA DropStep ==
  ASSUME TypeOK, ClockInv, NEW t \in timeouts, t.stage \notin {"Panicked", "Refused"},
         Leaves(t),
         UNCHANGED <<turnSeq, turnTimer, phase, closed, players, currentTurn,
                     overrideNextTurn, missedTurns>>,
         Stale(t) \/ phase # "Playing" \/ CurrentPlayer = None
  PROVE  ClockInv'
<1>1. timeouts' = timeouts \ {t}
  BY DEF Leaves
<1>2. CurrentPlayer' = CurrentPlayer
  BY DEF CurrentPlayer
<1>3. OneOwner' /\ TurnFence' /\ ClockStopsWithTable'
  BY <1>1, <1>2 DEF ClockInv, OneOwner, TurnFence, Stale, ClockStopsWithTable
<1>4. \A u \in timeouts : u.stage = "Panicked" => u \in timeouts'
  BY <1>1
<1>5. TurnIsSomeones'
  BY <1>2, <1>4 DEF ClockInv, TurnIsSomeones, Panicking
<1>6. ClockNeverLost'
  <2> SUFFICES ASSUME phase' = "Playing", ~closed', turnTimer' # turnSeq'
               PROVE  \E u \in timeouts' : u.seq = turnSeq' \/ u.stage \in {"Refused", "Panicked"}
    BY DEF ClockNeverLost
  <2>1. CASE Stale(t)
    BY <1>1, <2>1 DEF ClockInv, ClockNeverLost, Stale
  <2>2. CASE CurrentPlayer = None
    BY <1>4, <2>2 DEF ClockInv, TurnIsSomeones, Panicking
  <2> QED BY <2>1, <2>2
<1> QED BY <1>3, <1>5, <1>6 DEF ClockInv

\* An accepted move preserves ClockInv, whichever of its three ends it takes.
LEMMA AcceptedMoveStep ==
  ASSUME TypeOK, ClockInv, NEW p \in Player, MayAct(p), AcceptedMove(p),
         NoneStarts, MoveAdvances(p) => timeouts' \subseteq timeouts
  PROVE  ClockInv'
<1>1. CASE MoveFails
  BY <1>1, FinishStep DEF MoveFails
<1>2. CASE MoveWins(p)
  BY <1>2, FinishStep DEF MoveWins
<1>3. CASE MoveAdvances(p)
  <2>1. PICK over \in RulesOverride : ApplyNextTurn(players, currentTurn, over, TRUE)
    BY <1>3 DEF MoveAdvances
  <2>4. timeouts' \subseteq timeouts
    BY <1>3
  <2>2. phase' = "Playing" /\ closed' = closed /\ players' = players
    BY <1>3 DEF MoveAdvances, AcceptedMove, MayAct
  <2>3. players # <<>> /\ players \in Seq(Player) /\ currentTurn \in Int
    BY CurrentPlayerType, EngineAssumption DEF MayAct, TypeOK
  <2> QED BY <2>1, <2>2, <2>3, <2>4, ApplyNextTurnStep
<1> QED BY <1>1, <1>2, <1>3 DEF AcceptedMove

\* Giving up a seat preserves ClockInv, at a waiting table and at a playing one.
LEMMA RemoveSeatStep ==
  ASSUME TypeOK, ClockInv, NEW p \in Player, NEW before, RemoveSeat(p, before),
         timeouts' \subseteq timeouts,
         phase = "Playing" \/ timeouts' = timeouts
  PROVE  ClockInv'
<1> DEFINE seats  == RemoveAt(players, SeatOf(p))
           cursor == CursorWithout(p, seats)
           events == before \cup {<<"PlayerLeft", p>>}
<1>1. Seated(p) /\ closed' = closed
  BY DEF RemoveSeat, Removable
<1>2. seats \in Seq(Player) /\ cursor \in Int
  BY <1>1, SeatsWithoutType
<1>3. PICK over \in RulesOverride :
        /\ LeaveTable(p, seats)
        /\ \/ LeaveUnstarted(seats, cursor, over, events)
           \/ LeaveEnds(seats, cursor, over, events)
           \/ LeavePlaysOn(seats, cursor, over, events)
  BY DEF RemoveSeat
<1> HIDE DEF seats, cursor, events
<1>4. players' = seats
  BY <1>3 DEF LeaveTable
<1>5. CASE LeaveUnstarted(seats, cursor, over, events)
  BY <1>1, <1>5, BystanderStep DEF LeaveUnstarted, clock
<1>6. CASE LeaveEnds(seats, cursor, over, events)
  BY <1>6, FinishStep DEF LeaveEnds, NoneStarts
<1>7. CASE LeavePlaysOn(seats, cursor, over, events)
  <2>1. ApplyNextTurn(seats, cursor, over, FALSE) /\ phase' = "Playing"
    BY <1>7 DEF LeavePlaysOn
  <2>2. seats # <<>>
    BY <1>7 DEF LeavePlaysOn, MayPlayOn
  <2> QED BY <1>1, <1>2, <1>4, <2>1, <2>2, ApplyNextTurnStep
<1> QED BY <1>3, <1>5, <1>6, <1>7

\* A call of a session or the lobby preserves ClockInv.
LEMMA OutsideStep ==
  ASSUME TypeOK, ClockInv, Outside
  PROVE  ClockInv'
<1>1. CASE Start
  <2>1. PICK first \in 0..(Len(players) - 1), over \in RulesOverride :
          ApplyNextTurn(players, first, over, FALSE)
    BY <1>1 DEF Start
  <2>2. players \in Seq(Player) /\ players # <<>> /\ first \in Int
    BY <1>1 DEF Start, TypeOK
  <2>3. players' = players /\ phase' = "Playing" /\ closed' = closed /\ timeouts' = timeouts
    BY <1>1 DEF Start
  <2> QED BY <2>1, <2>2, <2>3, ApplyNextTurnStep
<1>2. CASE StartFails
  BY <1>2, BystanderStep DEF StartFails, clock
<1>3. CASE Close
  <2>1. turnSeq' = turnSeq + 1 /\ turnTimer' = None /\ closed' /\ timeouts' = timeouts
    BY <1>3 DEF Close, StopTurnTimer, NextSeq
  <2> QED BY <2>1, NewGeneration DEF TurnIsSomeones, NoneStarts
<1>4. ASSUME NEW p \in Player, SubmitAction(p)
      PROVE  ClockInv'
  BY <1>4, AcceptedMoveStep DEF SubmitAction, NoneStarts
<1>5. ASSUME NEW p \in Player, RemovePlayer(p)
      PROVE  ClockInv'
  BY <1>5, RemoveSeatStep DEF RemovePlayer
<1> QED BY <1>1, <1>2, <1>3, <1>4, <1>5 DEF Outside

\* A firing timer preserves ClockInv: it hands its generation to one goroutine.
LEMMA TimerFiresStep ==
  ASSUME TypeOK, ClockInv, TimerFires
  PROVE  ClockInv'
<1> DEFINE u == [seq |-> turnTimer, stage |-> "Resolving", player |-> None]
<1>1. turnTimer = turnSeq /\ phase = "Playing" /\ ~closed
  BY DEF TimerFires, ClockInv, ClockStopsWithTable
<1>2. timeouts' = timeouts \cup {u} /\ u.seq = turnSeq /\ u.stage = "Resolving"
  BY <1>1 DEF TimerFires
<1>3. UNCHANGED <<players, currentTurn, overrideNextTurn, phase, closed, turnSeq, missedTurns>>
      /\ turnTimer' = None
  BY DEF TimerFires, table
<1> HIDE DEF u
<1>4. \A t \in timeouts : t.seq # turnSeq /\ t.seq <= turnSeq
  BY <1>1, <1>3 DEF ClockInv, OneOwner, TimerFires
<1>5. turnSeq \in Nat
  BY DEF TypeOK
<1>6. OneOwner'
  BY <1>1, <1>2, <1>3, <1>4, <1>5 DEF ClockInv, OneOwner
<1>7. TurnFence' /\ ClockStopsWithTable' /\ ClockNeverLost'
  BY <1>1, <1>2, <1>3, <1>4 DEF TurnFence, Stale, ClockStopsWithTable, ClockNeverLost
<1>8. CurrentPlayer' = CurrentPlayer
  BY <1>3 DEF CurrentPlayer
<1>9. Panicking => Panicking'
  BY <1>2 DEF Panicking
<1>10. TurnIsSomeones'
  BY <1>3, <1>8, <1>9 DEF ClockInv, TurnIsSomeones
<1> QED BY <1>6, <1>7, <1>10 DEF ClockInv

\* The first hold of the clock's goroutine preserves ClockInv.
LEMMA ResolveStep ==
  ASSUME TypeOK, ClockInv, NEW t \in timeouts, Resolve(t)
  PROVE  ClockInv'
<1>1. UNCHANGED <<turnSeq, turnTimer, phase, closed, players, currentTurn, overrideNextTurn>>
      /\ t.stage = "Resolving"
  BY DEF Resolve, ResolveStale, ResolveIdle, ResolveNoMove, ResolveAutoPlay, ResolvePanics,
         Resolvable, Unaffected, table, clock
<1>2. CASE ResolveStale(t)
  BY <1>1, <1>2, DropStep DEF ResolveStale
<1>3. CASE Resolvable(t)
  <2>1. CurrentPlayer \in Player /\ ~Stale(t)
    BY <1>3, CurrentPlayerType DEF Resolvable
  <2>2. /\ Misses(CurrentPlayer) \in Nat /\ Misses(CurrentPlayer) > 0
        /\ MaxMissedTurns \in Nat /\ MaxMissedTurns > 0
    BY <2>1, EngineAssumption DEF Misses, TypeOK
  <2>3. \A n : missedTurns' = [missedTurns EXCEPT ![CurrentPlayer] = n] =>
                 missedTurns'[CurrentPlayer] = n
    BY <2>1 DEF TypeOK
  <2>4. CASE ResolveIdle(t)
    <3>1. missedTurns'[CurrentPlayer] = Misses(CurrentPlayer)
      BY <2>3, <2>4 DEF ResolveIdle
    <3> QED BY <1>1, <2>1, <2>2, <2>4, <3>1, OwnerStep DEF ResolveIdle, Stages
  <2>5. CASE ResolveNoMove(t)
    <3>1. missedTurns'[CurrentPlayer] = MaxMissedTurns
      BY <2>3, <2>5 DEF ResolveNoMove
    <3> QED BY <1>1, <2>1, <2>2, <2>5, <3>1, OwnerStep DEF ResolveNoMove, Stages
  <2>6. CASE ResolveAutoPlay(t)
    <3>1. missedTurns'[CurrentPlayer] = Misses(CurrentPlayer)
      BY <2>3, <2>6 DEF ResolveAutoPlay
    <3> QED BY <1>1, <2>1, <2>2, <2>6, <3>1, OwnerStep DEF ResolveAutoPlay, Stages
  <2>7. CASE ResolvePanics(t)
    BY <1>1, <2>1, <2>7, OwnerStep DEF ResolvePanics, Stages
  <2> QED BY <1>2, <2>4, <2>5, <2>6, <2>7 DEF Resolve
<1> QED BY <1>2, <1>3 DEF Resolve, ResolveIdle, ResolveNoMove, ResolveAutoPlay, ResolvePanics

\* The second hold of the clock's goroutine preserves ClockInv.
LEMMA SettleStep ==
  ASSUME TypeOK, ClockInv, NEW t \in timeouts, Settle(t)
  PROVE  ClockInv'
<1>1. t.player \in Player
  BY SettlesForSomebody
<1>2. Leaves(t) => timeouts' \subseteq timeouts /\ NoneStarts
  BY DEF Leaves, NoneStarts
<1>3. CASE GapStale(t)
  BY <1>3, DropStep DEF GapStale, Unaffected, table, clock
<1>4. CASE TakeSeat(t)
  <2>1. phase = "Playing"
    BY <1>4 DEF TakeSeat, MayTake, ClockInv, TurnFence
  <2> QED BY <1>1, <1>2, <1>4, <2>1, RemoveSeatStep DEF TakeSeat
<1>5. CASE TakeSeatPanics(t)
  BY <1>1, <1>5, OwnerStep DEF TakeSeatPanics, MayTake, clock, Stages
<1>6. CASE TakeSeatPanicsLate(t)
  <2>1. /\ t.stage = "Taking" /\ ~Stale(t) /\ closed' = closed
        /\ Enters(t, "Panicked", t.player)
        /\ UNCHANGED <<phase, turnSeq, turnTimer>> \/ StopTurnTimer
    BY <1>6 DEF TakeSeatPanicsLate, MayTake, clock, FinishUnranked, ApplyNextTurnUntimed
  <2> QED BY <1>1, <2>1, OwnerStep, PanicStep DEF Stages
<1>7. CASE AutoPlay(t)
  <2>1. /\ MayAct(t.player) /\ AcceptedMove(t.player) /\ NoneStarts
        /\ MoveAdvances(t.player) => timeouts' \subseteq timeouts
    <3>1. AcceptedMove(t.player) /\ MayAct(t.player)
      BY <1>7 DEF AutoPlay, AcceptedMove
    <3>2. NoneStarts
      BY <1>1, <1>2, <1>7 DEF AutoPlay, NoneStarts, Stages
    <3>3. MoveAdvances(t.player) => ~MoveFails
      BY <3>1 DEF MoveAdvances, MoveFails, FinishGame, MayAct
    <3> QED BY <1>2, <1>7, <3>1, <3>2, <3>3 DEF AutoPlay
  <2> QED BY <1>1, <2>1, AcceptedMoveStep
<1>8. CASE AutoPlayRefused(t)
  BY <1>1, <1>8, OwnerStep DEF AutoPlayRefused, MayPlayFor, Unaffected, table, clock, Stages
<1>9. CASE AutoPlayPanics(t)
  <2>1. /\ t.stage = "Playing" /\ ~Stale(t) /\ closed' = closed
        /\ Enters(t, "Panicked", t.player)
        /\ UNCHANGED <<phase, turnSeq, turnTimer>> \/ StopTurnTimer
    BY <1>9 DEF AutoPlayPanics, MayPlayFor, clock, FinishUnranked, ApplyNextTurnUntimed
  <2> QED BY <1>1, <2>1, OwnerStep, PanicStep DEF Stages
<1>10. CASE Rearm(t)
  <2>1. /\ turnSeq' = turnSeq + 1
        /\ turnTimer' = IF closed \/ phase # "Playing" \/ players = <<>> THEN None ELSE turnSeq'
        /\ UNCHANGED <<players, currentTurn, overrideNextTurn, phase, closed>>
        /\ timeouts' = timeouts \ {t} /\ t.stage = "Refused"
    BY <1>10 DEF Rearm, ArmTurnTimer, NextSeq, table, Leaves
  <2>2. CurrentPlayer' = CurrentPlayer
    BY <2>1 DEF CurrentPlayer
  <2>3. \A u \in timeouts : u.stage = "Panicked" => u \in timeouts'
    BY <2>1
  <2>4. TurnIsSomeones'
    BY <2>1, <2>2, <2>3 DEF ClockInv, TurnIsSomeones, Panicking
  <2>5. players = <<>> => CurrentPlayer = None
    BY DEF CurrentPlayer
  <2>6. phase' = "Playing" /\ ~closed' =>
          turnTimer' = turnSeq' \/ \E u \in timeouts' : u.stage \in {"Refused", "Panicked"}
    BY <2>1, <2>3, <2>5 DEF ClockInv, TurnIsSomeones, Panicking
  <2> QED BY <2>1, <2>4, <2>6, NewGeneration DEF NoneStarts
<1>12. CASE RearmPanics(t)
  BY <1>1, <1>12, PanicStep DEF RearmPanics
<1>13. CASE RecoverPanics(t)
  BY <1>13, BystanderStep DEF RecoverPanics, clock
<1>11. CASE Recover(t)
  <2>1. CASE RecoverEnds
    BY <1>2, <1>11, <2>1, FinishStep DEF Recover
  <2>2. CASE ~RecoverEnds
    <3>1. UNCHANGED <<players, currentTurn, overrideNextTurn, phase, closed, turnSeq, turnTimer,
                      missedTurns>> /\ timeouts' = timeouts \ {t}
      BY <1>11, <2>2 DEF Recover, clock, Leaves
    <3>2. CurrentPlayer' = CurrentPlayer
      BY <3>1 DEF CurrentPlayer
    <3>3. OneOwner' /\ TurnFence' /\ ClockStopsWithTable'
      BY <3>1, <3>2 DEF ClockInv, OneOwner, TurnFence, Stale, ClockStopsWithTable
    <3>4. ClockNeverLost' /\ TurnIsSomeones'
      BY <2>2, <3>1 DEF RecoverEnds, ClockNeverLost, TurnIsSomeones
    <3> QED BY <3>3, <3>4 DEF ClockInv
  <2> QED BY <2>1, <2>2
<1> QED BY <1>3, <1>4, <1>5, <1>6, <1>7, <1>8, <1>9, <1>10, <1>11, <1>12, <1>13 DEF Settle

\* The clock's inductive invariant holds in every reachable state.
THEOREM ClockCorrect == Spec => []ClockInv
<1>1. Init => ClockInv
  BY EngineAssumption DEF Init, ClockInv, OneOwner, TurnFence, ClockStopsWithTable,
     ClockNeverLost, TurnIsSomeones
<1>2. TypeOK /\ ClockInv /\ [Next]_vars => ClockInv'
  <2> SUFFICES ASSUME TypeOK, ClockInv, [Next]_vars
               PROVE  ClockInv'
    OBVIOUS
  <2>1. CASE Outside
    BY <2>1, OutsideStep
  <2>2. CASE CloseFeed
    BY <2>2, BystanderStep DEF CloseFeed, table, clock
  <2>3. CASE TimerFires
    BY <2>3, TimerFiresStep
  <2>4. ASSUME NEW t \in timeouts, Resolve(t)
        PROVE  ClockInv'
    BY <2>4, ResolveStep
  <2>5. ASSUME NEW t \in timeouts, Settle(t)
        PROVE  ClockInv'
    BY <2>5, SettleStep
  <2>6. CASE UNCHANGED vars
    BY <2>6, BystanderStep DEF vars, table, clock
  <2> QED BY <2>1, <2>2, <2>3, <2>4, <2>5, <2>6 DEF Next, Feed, Clock
<1> QED BY <1>1, <1>2, TypeCorrect, PTL DEF Spec

\* A goroutine that acts in the gap acts on the player on turn, still idle (TurnFence).
THEOREM FenceHolds == Spec => []TurnFence
<1>1. ClockInv => TurnFence
  BY DEF ClockInv
<1> QED BY <1>1, ClockCorrect, PTL

\* A playing table always has a clock, and no other table has one.
THEOREM ClockFollowsTable == Spec => []TurnIsTimed
<1>1. ClockInv => TurnIsTimed
  BY DEF ClockInv, TurnIsTimed
<1> QED BY <1>1, ClockCorrect, PTL

\* It is always the turn of somebody who sits at the table.
THEOREM TurnNeverNobodys == Spec => []TurnIsSomeones
<1>1. ClockInv => TurnIsSomeones
  BY DEF ClockInv
<1> QED BY <1>1, ClockCorrect, PTL

-----------------------------------------------------------------------------
(* What a step may announce *)

\* What reaches the feed was handed to the broadcaster, or is the end of the game.
LEMMA FeedSaid ==
  ASSUME NEW events, NEW e \in emitted'
  PROVE  /\ Broadcast(events) => e \in events
         /\ \A reason : BroadcastEnd(events, reason) => e \in events \/ e = <<"GameEnded", reason>>
BY DEF Broadcast, BroadcastEnd, Delivered

\* What an accepted move announces: the move of p, a new turn or the end.
LEMMA AcceptedMoveSaid ==
  ASSUME NEW p \in Player, AcceptedMove(p), NEW e \in emitted'
  PROVE  e[1] \in {"GameEnded", "TurnAdvanced"} \/ e = <<"ActionApplied", p>>
<1>1. CASE MoveFails
  <2>1. BroadcastEnd({}, "RulesError")
    BY <1>1 DEF MoveFails, FinishGame
  <2>2. e = <<"GameEnded", "RulesError">>
    BY <2>1, FeedSaid
  <2> QED BY <2>2
<1>2. CASE MoveWins(p)
  <2>1. BroadcastEnd({<<"ActionApplied", p>>}, "Win")
    BY <1>2 DEF MoveWins, FinishGame
  <2>2. e \in {<<"ActionApplied", p>>} \/ e = <<"GameEnded", "Win">>
    BY <2>1, FeedSaid
  <2> QED BY <2>2
<1>3. CASE MoveAdvances(p)
  <2>1. Broadcast({<<"ActionApplied", p>>, <<"TurnAdvanced", None>>})
    BY <1>3 DEF MoveAdvances
  <2>2. e \in {<<"ActionApplied", p>>, <<"TurnAdvanced", None>>}
    BY <2>1, FeedSaid
  <2> QED BY <2>2
<1> QED BY <1>1, <1>2, <1>3 DEF AcceptedMove

\* What giving up a seat announces beside what the same hold already sent.
LEMMA RemoveSeatSaid ==
  ASSUME NEW p \in Player, NEW before, RemoveSeat(p, before), NEW e \in emitted'
  PROVE  e[1] \in {"PlayerLeft", "GameEnded", "TurnAdvanced"} \/ e \in before
<1> DEFINE seats  == RemoveAt(players, SeatOf(p))
           cursor == CursorWithout(p, seats)
           events == before \cup {<<"PlayerLeft", p>>}
<1>1. PICK over \in RulesOverride :
        \/ LeaveUnstarted(seats, cursor, over, events)
        \/ LeaveEnds(seats, cursor, over, events)
        \/ LeavePlaysOn(seats, cursor, over, events)
  BY DEF RemoveSeat
<1>2. CASE LeaveUnstarted(seats, cursor, over, events)
  <2>1. Broadcast(events)
    BY <1>2 DEF LeaveUnstarted
  <2> QED BY <2>1, FeedSaid
<1>3. CASE LeaveEnds(seats, cursor, over, events)
  <2>1. PICK reason : BroadcastEnd(events, reason)
    BY <1>3 DEF LeaveEnds, FinishGame
  <2>2. e \in events \/ e = <<"GameEnded", reason>>
    BY <2>1, FeedSaid
  <2> QED BY <2>2
<1>4. CASE LeavePlaysOn(seats, cursor, over, events)
  <2>1. Broadcast(events \cup {<<"TurnAdvanced", None>>})
    BY <1>4 DEF LeavePlaysOn
  <2>2. e \in events \/ e = <<"TurnAdvanced", None>>
    BY <2>1, FeedSaid
  <2> QED BY <2>2
<1> QED BY <1>1, <1>2, <1>3, <1>4

\* What a goroutine of the clock may announce besides what the table says anyway.
LEMMA SettleSaid ==
  ASSUME TypeOK, ClockInv, NEW t \in timeouts, Settle(t), NEW e \in emitted'
  PROVE  \/ e[1] \in {"PlayerLeft", "GameEnded", "TurnAdvanced"}
         \/ e = <<"PlayerIdle", t.player>> /\ MayTake(t)
         \/ e = <<"ActionApplied", t.player>> /\ MayPlayFor(t)
<1>1. t.player \in Player
  BY SettlesForSomebody
<1>2. CASE TakeSeat(t)
  <2>1. RemoveSeat(t.player, {<<"PlayerIdle", t.player>>}) /\ MayTake(t)
    BY <1>2 DEF TakeSeat
  <2> QED BY <1>1, <2>1, RemoveSeatSaid
<1>3. CASE TakeSeatPanics(t) \/ TakeSeatPanicsLate(t)
  <2> DEFINE idle == <<"PlayerIdle", t.player>>
             left == <<"PlayerLeft", t.player>>
  <2>1. MayTake(t) /\ (Broadcast({idle}) \/ Broadcast({idle} \cup {left}))
    BY <1>3 DEF TakeSeatPanics, TakeSeatPanicsLate, FinishUnranked
  <2>2. e = idle \/ e = left
    BY <2>1, FeedSaid
  <2> QED BY <2>1, <2>2
<1>4. CASE AutoPlay(t)
  <2>1. AcceptedMove(t.player) /\ MayPlayFor(t)
    BY <1>4 DEF AutoPlay, AcceptedMove
  <2> QED BY <1>1, <2>1, AcceptedMoveSaid
<1>5. CASE \/ GapStale(t) \/ AutoPlayRefused(t) \/ Rearm(t) \/ RearmPanics(t)
           \/ RecoverPanics(t)
  BY <1>5, FeedSaid DEF GapStale, AutoPlayRefused, Rearm, RearmPanics, RecoverPanics
<1>7. CASE AutoPlayPanics(t)
  <2>1. MayPlayFor(t) /\ (Broadcast({}) \/ Broadcast({<<"ActionApplied", t.player>>}))
    BY <1>7 DEF AutoPlayPanics, FinishUnranked
  <2> QED BY <2>1, FeedSaid
<1>6. CASE Recover(t)
  <2>1. CASE RecoverEnds
    <3>1. BroadcastEnd({}, "RulesError")
      BY <1>6, <2>1 DEF Recover, FinishGame
    <3>2. e = <<"GameEnded", "RulesError">>
      BY <3>1, FeedSaid
    <3> QED BY <3>2
  <2>2. CASE ~RecoverEnds
    BY <1>6, <2>2, FeedSaid DEF Recover
  <2> QED BY <2>1, <2>2
<1> QED BY <1>2, <1>3, <1>4, <1>5, <1>6, <1>7 DEF Settle

\* The remaining steps announce no idle player, and a move only when a session called.
LEMMA OtherSaid ==
  ASSUME TypeOK, Outside \/ CloseFeed \/ TimerFires \/ \E t \in timeouts : Resolve(t), NEW e \in emitted'
  PROVE  \/ e[1] \in {"GameStarted", "PlayerLeft", "GameEnded", "TurnAdvanced", "TurnTimedOut"}
         \/ e[1] = "ActionApplied" /\ calls' # calls
<1>1. CASE Start
  <2>1. Broadcast({<<"GameStarted", None>>})
    BY <1>1 DEF Start
  <2>2. e = <<"GameStarted", None>>
    BY <2>1, FeedSaid
  <2> QED BY <2>2
<1>2. CASE StartFails \/ Close \/ CloseFeed \/ TimerFires
  BY <1>2, FeedSaid DEF StartFails, Close, CloseFeed, TimerFires
<1>3. ASSUME NEW p \in Player, SubmitAction(p)
      PROVE  \/ e[1] \in {"GameEnded", "TurnAdvanced"}
             \/ e[1] = "ActionApplied" /\ calls' # calls
  BY <1>3, AcceptedMoveSaid DEF SubmitAction, TypeOK
<1>4. ASSUME NEW p \in Player, RemovePlayer(p)
      PROVE  e[1] \in {"PlayerLeft", "GameEnded", "TurnAdvanced"}
  BY <1>4, RemoveSeatSaid DEF RemovePlayer
<1>5. ASSUME NEW t \in timeouts, Resolve(t)
      PROVE  e[1] = "TurnTimedOut"
  BY <1>5, FeedSaid DEF Resolve, ResolveStale, ResolveIdle, ResolveNoMove, ResolveAutoPlay,
                        ResolvePanics
<1> QED BY <1>1, <1>2, <1>3, <1>4, <1>5 DEF Outside

IdleStep ==
  \A p \in Player : <<"PlayerIdle", p>> \in emitted' =>
    CurrentPlayer = p /\ missedTurns[p] >= MaxMissedTurns

\* Whatever the rules and the players do, a seat is taken for idling only from the player
\* on turn and only with a full set of misses.
THEOREM IdleRemovalSafe == Spec => OnlyIdleRemoved
<1>1. TypeOK /\ ClockInv /\ [Next]_vars => [IdleStep]_vars
  <2> SUFFICES ASSUME TypeOK, ClockInv, Next, NEW p \in Player, <<"PlayerIdle", p>> \in emitted'
               PROVE  CurrentPlayer = p /\ missedTurns[p] >= MaxMissedTurns
    BY DEF IdleStep
  <2> DEFINE e == <<"PlayerIdle", p>>
  <2>1. e \in emitted' /\ e[1] = "PlayerIdle" /\ e[2] = p
    OBVIOUS
  <2> HIDE DEF e
  <2>2. PICK t \in timeouts : Settle(t)
    BY <2>1, OtherSaid DEF Next, Feed, Clock
  <2>3. e = <<"PlayerIdle", t.player>> /\ MayTake(t)
    BY <2>1, <2>2, SettleSaid
  <2>4. p = t.player
    BY <2>1, <2>3
  <2> QED BY <2>3, <2>4 DEF MayTake, ClockInv, TurnFence
<1>2. Spec => [][IdleStep]_vars
  BY <1>1, TypeCorrect, ClockCorrect, PTL DEF Spec
<1> QED BY <1>2 DEF OnlyIdleRemoved, IdleStep

PlayStep ==
  \A p \in Player : calls' = calls /\ <<"ActionApplied", p>> \in emitted' =>
    CurrentPlayer = p /\ missedTurns[p] > 0

\* The clock never plays for somebody who acted after their turn expired.
THEOREM AutoPlaySafe == Spec => NoDoublePlay
<1>1. TypeOK /\ ClockInv /\ [Next]_vars => [PlayStep]_vars
  <2> SUFFICES ASSUME TypeOK, ClockInv, Next, NEW p \in Player, calls' = calls,
                      <<"ActionApplied", p>> \in emitted'
               PROVE  CurrentPlayer = p /\ missedTurns[p] > 0
    BY DEF PlayStep
  <2> DEFINE e == <<"ActionApplied", p>>
  <2>1. e \in emitted' /\ e[1] = "ActionApplied" /\ e[2] = p
    OBVIOUS
  <2> HIDE DEF e
  <2>2. PICK t \in timeouts : Settle(t)
    BY <2>1, OtherSaid DEF Next, Feed, Clock
  <2>3. e = <<"ActionApplied", t.player>> /\ MayPlayFor(t)
    BY <2>1, <2>2, SettleSaid
  <2>4. p = t.player
    BY <2>1, <2>3
  <2> QED BY <2>3, <2>4 DEF MayPlayFor, ClockInv, TurnFence
<1>2. Spec => [][PlayStep]_vars
  BY <1>1, TypeCorrect, ClockCorrect, PTL DEF Spec
<1> QED BY <1>2 DEF NoDoublePlay, PlayStep

-----------------------------------------------------------------------------
(* The result of a table *)

\* What keeps ResultSound from one step to the next: nobody has won before the end, the
\* standings fail only at the end, and the feed outlives the table.
ResultInv ==
  /\ ResultSound
  /\ phase # "Finished" => winner = None /\ fault # "Standings"
  /\ ~closed => feedOpen

\* A step that moves nobody, ends nothing and opens no feed.
LEMMA ResultUntouched ==
  ASSUME ResultInv, UNCHANGED <<players, leftPlayers, phase, winner, fault, endings>>,
         feedOpen' => feedOpen, ~closed' => feedOpen'
  PROVE  ResultInv'
BY DEF ResultInv, ResultSound, EveryoneAccounted, AnnouncedOnce, WinnerIsSeated, Seated

\* A playing table ends: this is the first end it announces, and the winner has a seat.
LEMMA ResultOfFinish ==
  ASSUME TypeOK, ResultInv, NEW reason, NEW events, phase = "Playing",
         FinishGame(players', reason, events), players' \in Seq(Player),
         UNCHANGED <<feedOpen, closed>>, EveryoneAccounted'
  PROVE  ResultInv'
<1>1. /\ phase' = "Finished" /\ winner' \in Winners(players')
      /\ fault' = fault /\ fault # "Standings"
      /\ endings' = IF feedOpen THEN Append(endings, reason) ELSE endings
  BY DEF FinishGame, BroadcastEnd, ResultInv
<1>2. endings = <<>>
  BY DEF ResultInv, ResultSound, AnnouncedOnce
<1>3. Append(<<>>, reason) = <<reason>> /\ Len(<<reason>>) = 1 /\ <<reason>> # <<>>
  OBVIOUS
<1>4. AnnouncedOnce'
  BY <1>1, <1>2, <1>3 DEF AnnouncedOnce
<1>5. WinnerIsSeated'
  <2>1. CASE players' = <<>>
    BY <1>1, <2>1 DEF WinnerIsSeated, Winners
  <2>2. CASE players' # <<>>
    BY <1>1, <2>2 DEF WinnerIsSeated, Winners, Seated, Contains, ToSet
  <2> QED BY <2>1, <2>2
<1> QED BY <1>1, <1>4, <1>5 DEF ResultInv, ResultSound

\* A playing table ends unannounced: it has no winner, and it says why.
LEMMA ResultOfPanic ==
  ASSUME ResultInv, phase = "Playing", NEW events, FinishUnranked(events),
         UNCHANGED <<feedOpen, closed>>, EveryoneAccounted'
  PROVE  ResultInv'
<1>1. phase' = "Finished" /\ fault' = "Standings" /\ winner' = None /\ endings' = endings
  BY DEF FinishUnranked, Broadcast, ResultInv
<1> QED BY <1>1 DEF ResultInv, ResultSound, AnnouncedOnce, WinnerIsSeated

\* An unfinished table stays unfinished.
LEMMA ResultOfTurn ==
  ASSUME ResultInv, phase # "Finished", UNCHANGED <<winner, fault, endings, feedOpen, closed>>,
         phase' # "Finished", EveryoneAccounted'
  PROVE  ResultInv'
BY DEF ResultInv, ResultSound, AnnouncedOnce, WinnerIsSeated

\* Somebody gives up a seat: they are among those who left, and nobody else moves.
LEMMA RosterAfterLeave ==
  ASSUME TypeOK, EveryoneAccounted, NEW p \in Player, Seated(p),
         LeaveTable(p, RemoveAt(players, SeatOf(p)))
  PROVE  /\ EveryoneAccounted' /\ players' \in Seq(Player)
         /\ p \in ToSet(players) /\ ToSet(players') = ToSet(players) \ {p}
<1> DEFINE seats == RemoveAt(players, SeatOf(p))
<1>1. players' = seats /\ leftPlayers' = Append(leftPlayers, p)
  BY DEF LeaveTable
<1>2. /\ players \in Seq(Player) /\ leftPlayers \in Seq(Player)
      /\ SeatOf(p) \in 1..Len(players) /\ players[SeatOf(p)] = p
  BY SeatOfSeated DEF TypeOK
<1>3. /\ IsInjective(players) /\ IsInjective(leftPlayers)
      /\ ToSet(players) \cap ToSet(leftPlayers) = {}
      /\ ToSet(players) \cup ToSet(leftPlayers) = ToSet(Seating)
  BY DEF EveryoneAccounted
<1>4. p \in ToSet(players)
  BY <1>2 DEF ToSet
<1>5. seats \in Seq(Player) /\ IsInjective(seats) /\ ToSet(seats) = ToSet(players) \ {p}
  BY <1>2, <1>3, RemoveAtSet, RemoveAtType
<1>6. IsInjective(leftPlayers') /\ ToSet(leftPlayers') = ToSet(leftPlayers) \cup {p}
  BY <1>1, <1>2, <1>3, <1>4, AppendSet
<1> HIDE DEF seats
<1>7. EveryoneAccounted'
  BY <1>1, <1>3, <1>4, <1>5, <1>6 DEF EveryoneAccounted
<1> QED BY <1>1, <1>4, <1>5, <1>7

LEMMA ResultOfMove ==
  ASSUME TypeOK, ResultInv, NEW p \in Player, MayAct(p), AcceptedMove(p)
  PROVE  ResultInv'
<1>1. /\ phase = "Playing" /\ UNCHANGED <<players, leftPlayers, closed, feedOpen>>
      /\ players' \in Seq(Player) /\ EveryoneAccounted'
  BY DEF MayAct, AcceptedMove, TypeOK, ResultInv, ResultSound, EveryoneAccounted
<1>2. CASE MoveFails \/ MoveWins(p)
  <2>1. PICK reason, events : FinishGame(players', reason, events)
    BY <1>1, <1>2 DEF MoveFails, MoveWins
  <2> QED BY <1>1, <2>1, ResultOfFinish
<1>3. CASE MoveAdvances(p)
  BY <1>1, <1>3, ResultOfTurn DEF MoveAdvances, Broadcast
<1> QED BY <1>2, <1>3 DEF AcceptedMove

\* A seat is given up at a table that has not finished.
LEMMA ResultOfLeave ==
  ASSUME TypeOK, ResultInv, NEW p \in Player, NEW before, RemoveSeat(p, before)
  PROVE  ResultInv'
<1> DEFINE seats  == RemoveAt(players, SeatOf(p))
           cursor == CursorWithout(p, seats)
           events == before \cup {<<"PlayerLeft", p>>}
<1>1. Seated(p) /\ phase # "Finished" /\ UNCHANGED <<closed, feedOpen>>
  BY DEF RemoveSeat, Removable
<1>2. PICK over \in RulesOverride :
        /\ LeaveTable(p, seats)
        /\ \/ LeaveUnstarted(seats, cursor, over, events)
           \/ LeaveEnds(seats, cursor, over, events)
           \/ LeavePlaysOn(seats, cursor, over, events)
  BY DEF RemoveSeat
<1>3. players' = seats
  BY <1>2 DEF LeaveTable
<1>4. EveryoneAccounted' /\ players' \in Seq(Player)
  BY <1>1, <1>2, RosterAfterLeave DEF ResultInv, ResultSound
<1> HIDE DEF seats, cursor, events
<1>5. CASE LeaveUnstarted(seats, cursor, over, events) \/ LeavePlaysOn(seats, cursor, over, events)
  <2>1. UNCHANGED <<phase, winner, fault, endings>>
    BY <1>5 DEF LeaveUnstarted, LeavePlaysOn, Broadcast
  <2> QED BY <1>1, <1>4, <2>1, ResultOfTurn
<1>6. CASE LeaveEnds(seats, cursor, over, events)
  <2>1. phase = "Playing" /\ \E reason : FinishGame(players', reason, events)
    BY <1>3, <1>6 DEF LeaveEnds
  <2> QED BY <1>1, <1>4, <2>1, ResultOfFinish
<1> QED BY <1>2, <1>5, <1>6

\* Only a goroutine that plays, takes the seat or recovers touches the result.
LEMMA ResultOfClock ==
  ASSUME TypeOK, ClockInv, ResultInv, Clock
  PROVE  ResultInv'
<1>1. ~closed => feedOpen
  BY DEF ResultInv
<1>2. CASE TimerFires
  BY <1>1, <1>2, ResultUntouched DEF TimerFires, table, Broadcast
<1>3. ASSUME NEW t \in timeouts, Resolve(t) PROVE ResultInv'
  BY <1>1, <1>3, ResultUntouched
     DEF Resolve, ResolveStale, ResolveIdle, ResolveNoMove, ResolveAutoPlay, ResolvePanics,
         Unaffected, table, Broadcast
<1>4. ASSUME NEW t \in timeouts, Settle(t) PROVE ResultInv'
  <2>1. t.player \in Player
    BY <1>4, SettlesForSomebody
  <2>2. CASE GapStale(t) \/ TakeSeatPanics(t) \/ AutoPlayRefused(t) \/ Rearm(t) \/ RearmPanics(t)
    BY <1>1, <2>2, ResultUntouched
       DEF GapStale, TakeSeatPanics, AutoPlayRefused, Rearm, RearmPanics, Unaffected, table,
           Broadcast
  <2>3. CASE AutoPlayPanics(t)
    <3>1. /\ phase = "Playing" /\ UNCHANGED <<players, leftPlayers, closed, feedOpen>>
          /\ EveryoneAccounted'
      BY <2>3 DEF AutoPlayPanics, MayAct, ResultInv, ResultSound, EveryoneAccounted
    <3>2. CASE \E events : FinishUnranked(events)
      BY <3>1, <3>2, ResultOfPanic
    <3>3. CASE UNCHANGED <<phase, winner, fault, endings>>
      BY <3>1, <3>3, ResultOfTurn
    <3> QED BY <2>3, <3>2, <3>3 DEF AutoPlayPanics, Broadcast
  <2>4. CASE TakeSeat(t)
    BY <2>1, <2>4, ResultOfLeave DEF TakeSeat
  <2>5. CASE AutoPlay(t)
    BY <2>1, <2>5, ResultOfMove DEF AutoPlay, AcceptedMove
  <2>6. CASE TakeSeatPanicsLate(t)
    <3>1. /\ Seated(t.player) /\ phase = "Playing" /\ UNCHANGED <<closed, feedOpen>>
          /\ LeaveTable(t.player, RemoveAt(players, SeatOf(t.player)))
      BY <2>6 DEF TakeSeatPanicsLate, Removable, MayTake, ClockInv, TurnFence
    <3>2. EveryoneAccounted'
      BY <2>1, <3>1, RosterAfterLeave DEF ResultInv, ResultSound
    <3>3. CASE \E events : FinishUnranked(events)
      BY <3>1, <3>2, <3>3, ResultOfPanic
    <3>4. CASE UNCHANGED <<phase, winner, fault, endings>>
      BY <3>1, <3>2, <3>4, ResultOfTurn
    <3> QED BY <2>6, <3>3, <3>4 DEF TakeSeatPanicsLate, Broadcast
  <2>7. CASE Recover(t)
    <3>1. UNCHANGED <<players, leftPlayers, closed, feedOpen>>
      BY <2>7 DEF Recover
    <3>2. CASE RecoverEnds
      <4>1. phase = "Playing" /\ FinishGame(players', "RulesError", {})
        BY <2>7, <3>1, <3>2 DEF Recover, RecoverEnds
      <4>2. players' \in Seq(Player) /\ EveryoneAccounted'
        BY <3>1 DEF TypeOK, ResultInv, ResultSound, EveryoneAccounted
      <4> QED BY <3>1, <4>1, <4>2, ResultOfFinish
    <3>3. CASE ~RecoverEnds
      BY <1>1, <2>7, <3>1, <3>3, ResultUntouched DEF Recover, Broadcast
    <3> QED BY <3>2, <3>3
  <2>8. CASE RecoverPanics(t)
    <3>1. /\ phase = "Playing" /\ fault' = "Process"
          /\ UNCHANGED <<players, leftPlayers, phase, winner, endings, closed, feedOpen>>
      BY <2>8 DEF RecoverPanics, RecoverEnds, Broadcast
    <3> QED BY <3>1 DEF ResultInv, ResultSound, EveryoneAccounted, AnnouncedOnce, WinnerIsSeated
  <2> QED BY <1>4, <2>2, <2>3, <2>4, <2>5, <2>6, <2>7, <2>8 DEF Settle
<1> QED BY <1>2, <1>3, <1>4 DEF Clock

\* The inductive invariant behind ResultSound: it says what a table is that has not ended.
THEOREM ResultInvariant == Spec => []ResultInv
<1>1. Init => ResultInv
  <2> SUFFICES ASSUME Init PROVE ResultInv
    OBVIOUS
  <2>1. /\ players = Seating /\ leftPlayers = <<>> /\ phase = "Waiting" /\ endings = <<>>
        /\ winner = None /\ fault = None /\ feedOpen
    BY DEF Init
  <2>2. IsInjective(players)
    BY <2>1, EngineAssumption DEF IsInjective
  <2>3. ToSet(<<>>) = {} /\ IsInjective(<<>>) /\ Len(<<>>) = 0
    BY DEF ToSet, IsInjective
  <2>4. None # "Standings"
    BY EngineAssumption
  <2> QED BY <2>1, <2>2, <2>3, <2>4
          DEF ResultInv, ResultSound, EveryoneAccounted, AnnouncedOnce, WinnerIsSeated
<1>2. TypeOK /\ ClockInv /\ ResultInv /\ [Next]_vars => ResultInv'
  <2> SUFFICES ASSUME TypeOK, ClockInv, ResultInv, [Next]_vars PROVE ResultInv'
    OBVIOUS
  <2>0. ~closed => feedOpen
    BY DEF ResultInv
  <2>1. CASE Start
    <3>1. /\ phase = "Waiting" /\ phase' = "Playing"
          /\ UNCHANGED <<players, leftPlayers, winner, fault, feedOpen, closed, endings>>
      BY <2>1 DEF Start, Broadcast
    <3>2. EveryoneAccounted'
      BY <3>1 DEF ResultInv, ResultSound, EveryoneAccounted
    <3> QED BY <3>1, <3>2, ResultOfTurn
  <2>2. CASE StartFails \/ Close \/ CloseFeed
    BY <2>0, <2>2, ResultUntouched DEF StartFails, Close, CloseFeed, table, Broadcast
  <2>3. ASSUME NEW p \in Player, SubmitAction(p) PROVE ResultInv'
    BY <2>3, ResultOfMove DEF SubmitAction
  <2>4. ASSUME NEW p \in Player, RemovePlayer(p) PROVE ResultInv'
    BY <2>4, ResultOfLeave DEF RemovePlayer
  <2>5. CASE Clock
    BY <2>5, ResultOfClock
  <2>6. CASE UNCHANGED vars
    BY <2>0, <2>6, ResultUntouched DEF vars, table, feed
  <2> QED BY <2>1, <2>2, <2>3, <2>4, <2>5, <2>6 DEF Next, Feed, Outside
<1> QED BY <1>1, <1>2, TypeCorrect, ClockCorrect, PTL DEF Spec

\* What is recorded of a table is sound (removePlayerLocked, finishGameLocked,
\* recoverRulesPanic): everybody dealt in is accounted for once, the end is announced once,
\* and the winner is seated, whatever the rules, the clock and the leavers do.  The end goes
\* unannounced, and the match unwon, only if the rules panicked over its standings.
THEOREM ResultCorrect == Spec => []ResultSound
<1>1. ResultInv => ResultSound
  BY DEF ResultInv
<1> QED BY <1>1, ResultInvariant, PTL

SilentStep == endings # <<>> => emitted' = {}

\* Once a table has announced its end it says nothing more (finishGameLocked), so a feed
\* that drops its oldest events keeps the end.
THEOREM EndIsLast == Spec => EndIsLastEvent
<1>1. ResultSound /\ [Next]_vars => [SilentStep]_vars
  <2> SUFFICES ASSUME ResultSound, Next, endings # <<>> PROVE emitted' = {}
    BY DEF SilentStep
  <2>1. phase = "Finished"
    BY DEF ResultSound, AnnouncedOnce
  <2>2. Broadcast({}) => emitted' = {}
    BY DEF Broadcast, Delivered
  <2>3. /\ ~Start /\ ~StartFails /\ \A p \in Player : ~SubmitAction(p) /\ ~RemovePlayer(p)
        /\ Close => Broadcast({})
    BY <2>1 DEF Start, StartFails, SubmitAction, MayAct, RemovePlayer, RemoveSeat, Removable, Close
  <2>4. \A t \in timeouts : Resolve(t) => Broadcast({})
    BY <2>1 DEF Resolve, ResolveStale, ResolveIdle, ResolveNoMove, ResolveAutoPlay,
                ResolvePanics, Resolvable
  <2>5. \A t \in timeouts : Settle(t) => Broadcast({})
    BY <2>1 DEF Settle, GapStale, TakeSeat, TakeSeatPanics, TakeSeatPanicsLate, AutoPlay,
                AutoPlayRefused, AutoPlayPanics, Rearm, RearmPanics, Recover, RecoverEnds,
                RecoverPanics, RemoveSeat, Removable, MayAct
  <2>6. (CloseFeed \/ TimerFires) => Broadcast({})
    BY DEF CloseFeed, TimerFires
  <2> QED BY <2>2, <2>3, <2>4, <2>5, <2>6 DEF Next, Feed, Outside, Clock
<1>2. Spec => [][SilentStep]_vars
  BY <1>1, ResultCorrect, PTL DEF Spec
<1> QED BY <1>2 DEF EndIsLastEvent, SilentStep

-----------------------------------------------------------------------------
(* The turn of a leaver *)

\* What an override holds was put there by a hook.
OverrideKnown == overrideNextTurn \in Overrides \cup {None}

LEMMA OverrideStep ==
  ASSUME OverrideKnown, [Next]_vars
  PROVE  OverrideKnown'
<1>1. RulesOverride \subseteq Overrides \cup {None}
  BY DEF RulesOverride, OverrideKnown
<1>2. CASE Start \/ StartFails \/ Close \/ CloseFeed
  BY <1>1, <1>2 DEF Start, StartFails, Close, CloseFeed, ApplyNextTurn, OverrideKnown, table
<1>3. ASSUME NEW p, AcceptedMove(p) PROVE OverrideKnown'
  BY <1>1, <1>3 DEF AcceptedMove, MoveFails, MoveWins, MoveAdvances, ApplyNextTurn, OverrideKnown
<1>4. ASSUME NEW p, NEW before, RemoveSeat(p, before) PROVE OverrideKnown'
  BY <1>1, <1>4 DEF RemoveSeat, LeaveUnstarted, LeaveEnds, LeavePlaysOn, ApplyNextTurn, OverrideKnown
<1>5. CASE TimerFires
  BY <1>5 DEF TimerFires, table, OverrideKnown
<1>6. ASSUME NEW t \in timeouts, Resolve(t) PROVE OverrideKnown'
  BY <1>6 DEF Resolve, ResolveStale, ResolveIdle, ResolveNoMove, ResolveAutoPlay, ResolvePanics,
              Unaffected, table, OverrideKnown
<1>7. ASSUME NEW t \in timeouts, Settle(t) PROVE OverrideKnown'
  <2>1. CASE TakeSeat(t)
    BY <1>4, <2>1 DEF TakeSeat
  <2>2. CASE AutoPlay(t)
    BY <1>3, <2>2 DEF AutoPlay, AcceptedMove
  <2>3. CASE TakeSeatPanics(t) \/ TakeSeatPanicsLate(t) \/ AutoPlayPanics(t)
    BY <1>1, <2>3 DEF TakeSeatPanics, TakeSeatPanicsLate, AutoPlayPanics, HookLeaves,
                      ApplyNextTurnUntimed, OverrideKnown
  <2>4. CASE \/ GapStale(t) \/ AutoPlayRefused(t) \/ Rearm(t) \/ RearmPanics(t)
             \/ Recover(t) \/ RecoverPanics(t)
    BY <2>4 DEF GapStale, AutoPlayRefused, Rearm, RearmPanics, Recover, RecoverPanics, Unaffected,
                table, OverrideKnown
  <2> QED BY <1>7, <2>1, <2>2, <2>3, <2>4 DEF Settle
<1>8. CASE UNCHANGED vars
  BY <1>8 DEF vars, table, OverrideKnown
<1> QED BY <1>2, <1>3, <1>4, <1>5, <1>6, <1>7, <1>8
        DEF Next, Feed, Outside, Clock, SubmitAction, RemovePlayer

LeaverFollowed(p) ==
  /\ Seated(p) /\ ~Seated(p)'
  /\ phase = "Playing" /\ CurrentPlayer # None
  /\ phase' = "Playing" /\ ~Panicking'
  => CurrentPlayer' \in {Heir(p)} \cup OverrideSeats'

\* A seat is given up at a table that plays on (removePlayerLocked, applyNextTurnLocked).
LEMMA LeaverStep ==
  ASSUME TypeOK, OverrideKnown, EveryoneAccounted, NEW p \in Player, NEW q \in Player,
         NEW before, RemoveSeat(q, before)
  PROVE  LeaverFollowed(p)
<1> SUFFICES ASSUME Seated(p), ~Seated(p)', phase = "Playing", CurrentPlayer # None,
                    phase' = "Playing"
             PROVE  CurrentPlayer' \in {Heir(p)} \cup OverrideSeats'
  BY DEF LeaverFollowed
<1> DEFINE i == SeatOf(q)
           seats  == RemoveAt(players, i)
           cursor == CursorWithout(q, seats)
           events == before \cup {<<"PlayerLeft", q>>}
<1>1. Seated(q) /\ i \in 1..Len(players) /\ players[i] = q /\ players \in Seq(Player)
  BY SeatOfSeated DEF RemoveSeat, Removable, TypeOK
<1>2. PICK over \in RulesOverride : LeaveTable(q, seats) /\ LeavePlaysOn(seats, cursor, over, events)
  BY DEF RemoveSeat, LeaveUnstarted, LeaveEnds, FinishGame
<1>3. /\ players' = seats /\ MayPlayOn(seats, over)
      /\ currentTurn' = NextCursor(cursor, over, FALSE, Len(seats))
  BY <1>2 DEF LeaveTable, LeavePlaysOn, ApplyNextTurn
<1>4. seats \in Seq(Player) /\ Len(seats) = Len(players) - 1
  BY <1>1, RemoveAtType
<1>5. Len(seats) >= 1 /\ Len(players) >= 2 /\ Len(seats) \in Nat /\ Len(players) \in Nat
  BY <1>3, <1>4 DEF MayPlayOn
<1>6. p = q
  <2>1. ToSet(players') = ToSet(players) \ {q}
    BY <1>1, <1>2, RosterAfterLeave
  <2> QED BY <2>1 DEF Seated, Contains, ToSet
<1> HIDE DEF seats
<1>7. CASE over = None
  <2>1. PICK c \in 0..(Len(players) - 1) :
          c = currentTurn /\ CurrentPlayer = players[c + 1]
    BY CurrentPlayerType
  <2>2. PICK s \in Seq(Player) : s = players
    BY <1>1
  <2>3. PICK k \in 1..Len(s) : k = i
    BY <1>1, <2>2
  <2>4. CursorFollows(s, k, c)
    BY <1>5, <2>2, CursorKept
  <2>5. PICK m : m = (IF c > k - 1 THEN c - 1 ELSE c) % (Len(s) - 1)
    OBVIOUS
  <2>6. /\ m \in 0..(Len(seats) - 1) /\ m % Len(seats) = m
        /\ seats[m + 1] = IF c = i - 1 THEN players[(i % Len(players)) + 1] ELSE players[c + 1]
    BY <1>4, <2>2, <2>3, <2>4, <2>5 DEF CursorFollows, seats
  <2>7. currentTurn' = m
    <3>1. Len(seats) # 0 /\ Len(seats) = Len(s) - 1
      BY <1>4, <1>5, <2>2
    <3>2. cursor = (IF c > k - 1 THEN c - 1 ELSE c) % (Len(s) - 1)
      BY <2>1, <2>3, <3>1 DEF CursorWithout, Clamp, ShiftCursor
    <3>3. currentTurn' = Clamp(cursor, Len(seats))
      BY <1>3, <1>7 DEF NextCursor
    <3> QED BY <2>5, <2>6, <3>1, <3>2, <3>3 DEF Clamp
  <2>8. CurrentPlayer' = seats[m + 1]
    BY <1>3, <2>6, <2>7 DEF CurrentPlayer
  <2>9. CurrentPlayer = q <=> c = i - 1
    <3>1. c + 1 \in 1..Len(players)
      BY <1>5, <2>1
    <3>2. players[c + 1] = players[i] => c + 1 = i
      BY <1>1, <3>1 DEF EveryoneAccounted, IsInjective
    <3> QED BY <1>1, <2>1, <3>2
  <2>10. Heir(p) = IF c = i - 1 THEN players[(i % Len(players)) + 1] ELSE players[c + 1]
    BY <1>6, <2>1, <2>9 DEF Heir
  <2> QED BY <2>6, <2>10, <2>8
<1>8. CASE over # None
  <2>1. over \in Overrides /\ over \in Int
    BY <1>8, EngineAssumption DEF RulesOverride, OverrideKnown
  <2>2. currentTurn' = Clamp(over, Len(seats))
    <3>1. \A z \in 0..(Len(seats) - 1) : z % Len(seats) = z
      BY <1>5
    <3> QED BY <1>3, <1>8, <2>1 DEF NextCursor
  <2>3. Clamp(over, Len(seats)) \in 0..(Len(seats) - 1)
    BY <1>5, <2>1, ClampInRange
  <2>4. CurrentPlayer' = players'[Clamp(over, Len(players')) + 1]
    BY <1>3, <2>2, <2>3 DEF CurrentPlayer
  <2> QED BY <2>1, <2>4 DEF OverrideSeats
<1> QED BY <1>7, <1>8

\* When somebody leaves and the table plays on, the turn stays where it was or passes to the
\* leaver's neighbour, unless the rules name a seat: nobody is skipped and nobody acts twice,
\* whoever leaves from wherever, by a call or by the clock.
THEOREM LeaversPassTurn == Spec => TurnSurvivesLeave
<1> DEFINE Followed == \A p \in Player : LeaverFollowed(p)
<1>1. TypeOK /\ ResultSound /\ OverrideKnown /\ [Next]_vars => [Followed]_vars
  <2> SUFFICES ASSUME TypeOK, ResultSound, OverrideKnown, Next, NEW p \in Player,
                      Seated(p), ~Seated(p)', ~Panicking'
               PROVE  LeaverFollowed(p)
    BY DEF LeaverFollowed
  <2>1. EveryoneAccounted /\ players' # players
    BY DEF ResultSound, Seated
  <2>2. ASSUME NEW q \in Player, RemovePlayer(q) PROVE LeaverFollowed(p)
    BY <2>1, <2>2, LeaverStep DEF RemovePlayer
  <2>3. ASSUME NEW t \in timeouts, TakeSeat(t) PROVE LeaverFollowed(p)
    <3>1. t.player \in Player
      BY <2>3 DEF TypeOK, Timeouts, TakeSeat, MayTake
    <3> QED BY <2>1, <2>3, <3>1, LeaverStep DEF TakeSeat
  <2>4. ASSUME NEW t \in timeouts, TakeSeatPanicsLate(t) PROVE FALSE
    <3>1. PICK u : u = [seq |-> t.seq, stage |-> "Panicked", player |-> t.player]
      OBVIOUS
    <3>2. u \in timeouts' /\ u.stage = "Panicked"
      BY <2>4, <3>1 DEF TakeSeatPanicsLate, Enters
    <3> QED BY <3>2 DEF Panicking
  <2>5. ASSUME NEW q \in Player, SubmitAction(q) PROVE FALSE
    BY <2>1, <2>5 DEF SubmitAction, AcceptedMove
  <2>6. ASSUME Start \/ StartFails \/ Close \/ CloseFeed \/ TimerFires PROVE FALSE
    BY <2>1, <2>6 DEF Start, StartFails, Close, CloseFeed, TimerFires, table
  <2>7. ASSUME NEW t \in timeouts, Resolve(t) PROVE FALSE
    BY <2>1, <2>7 DEF Resolve, ResolveStale, ResolveIdle, ResolveNoMove, ResolveAutoPlay,
       ResolvePanics, Unaffected, table
  <2>8. ASSUME NEW t \in timeouts, Settle(t) PROVE TakeSeat(t) \/ TakeSeatPanicsLate(t)
    BY <2>1, <2>8 DEF Settle, GapStale, TakeSeatPanics, AutoPlay, AcceptedMove, AutoPlayRefused,
       AutoPlayPanics, Rearm, RearmPanics, Recover, RecoverPanics, Unaffected, table
  <2> QED BY <2>2, <2>3, <2>4, <2>5, <2>6, <2>7, <2>8 DEF Next, Feed, Outside, Clock
<1>2. Init => OverrideKnown
  BY DEF Init, OverrideKnown
<1>3. Spec => []OverrideKnown
  BY <1>2, OverrideStep, PTL DEF Spec
<1>4. Spec => [][Followed]_vars
  BY <1>1, <1>3, TypeCorrect, ResultCorrect, PTL DEF Spec
<1> QED BY <1>4 DEF TurnSurvivesLeave, LeaverFollowed

-----------------------------------------------------------------------------
(* The engine implements the match the lobby relies on (Match) *)

MatchStep == [M!MatchNext]_(M!mvars)

Reason == IF endings = <<>> THEN None ELSE endings[1]

LEMMA FirstSeat ==
  ASSUME NEW S, NEW s \in Seq(S), s # <<>>
  PROVE  s[1] \in ToSet(s)
<1>1. DOMAIN s = 1..Len(s) /\ 1 \in 1..Len(s)
  OBVIOUS
<1> QED BY <1>1 DEF ToSet

LEMMA MatchStutters ==
  ASSUME UNCHANGED <<players, phase, winner, endings, feedOpen>>
  PROVE  MatchStep
BY DEF MatchStep, M!mvars

\* What the match becomes once a playing table ends.
LEMMA ReasonOfEnd ==
  ASSUME ResultInv, phase = "Playing", NEW seats, NEW reason, NEW events,
         FinishGame(seats, reason, events)
  PROVE  /\ Reason' = IF feedOpen THEN reason ELSE None
         /\ phase' = "Finished" /\ winner' \in Winners(seats)
<1>1. endings = <<>> /\ endings' = IF feedOpen THEN Append(endings, reason) ELSE endings
  BY DEF ResultInv, ResultSound, AnnouncedOnce, FinishGame, BroadcastEnd
<1>2. Append(<<>>, reason) # <<>> /\ Append(<<>>, reason)[1] = reason
  OBVIOUS
<1> QED BY <1>1, <1>2 DEF Reason, FinishGame

\* The seats of the abstract match are those of the table.
LEMMA WinnersSeated ==
  ASSUME NEW seats \in Seq(Player)
  PROVE  /\ Winners(seats) = IF ToSet(seats) = {} THEN {None} ELSE ToSet(seats)
         /\ seats = <<>> <=> ToSet(seats) = {}
<1>1. CASE seats = <<>>
  BY <1>1 DEF ToSet, Winners
<1>2. CASE seats # <<>>
  BY <1>2, FirstSeat DEF Winners
<1> QED BY <1>1, <1>2

\* A move, or a panic that is recovered from, ends the match.
LEMMA MatchEnds ==
  ASSUME TypeOK, ResultInv, phase = "Playing", feedOpen, NEW reason \in {"Win", "RulesError"},
         reason = "Win" => players # <<>>, NEW events,
         FinishGame(players, reason, events), UNCHANGED <<players, feedOpen>>
  PROVE  MatchStep
<1> DEFINE m == [M!Now EXCEPT !.phase = "Finished", !.reason = reason, !.winner = winner']
<1>1. /\ Reason' = reason /\ phase' = "Finished"
      /\ winner' \in IF ToSet(players) = {} THEN {None} ELSE ToSet(players)
      /\ reason = "Win" => ToSet(players) # {}
  BY ReasonOfEnd, WinnersSeated DEF TypeOK
<1>2. m \in M!Announced(M!Now, reason)
  BY <1>1 DEF M!Announced, M!Now
<1>3. m \in M!Played(M!Now)
  BY <1>1, <1>2 DEF M!Played, M!Now
<1>4. M!Becomes(m)
  BY <1>1 DEF M!Becomes, M!Now, Reason
<1> QED BY <1>3, <1>4 DEF MatchStep, M!MatchNext, M!Ends

\* The standings panic over a move that ended the match.
LEMMA MatchEndsMute ==
  ASSUME TypeOK, phase = "Playing", feedOpen, players # <<>>, NEW events,
         FinishUnranked(events), UNCHANGED <<players, feedOpen>>
  PROVE  MatchStep
<1> DEFINE m == [M!Now EXCEPT !.phase = "Finished"]
<1>1. phase' = "Finished" /\ UNCHANGED <<winner, endings>> /\ ToSet(players) # {}
  BY FirstSeat DEF TypeOK, FinishUnranked, Broadcast
<1>2. m \in M!Played(M!Now)
  BY <1>1 DEF M!Played, M!Unannounced, M!Now
<1>3. M!Becomes(m)
  BY <1>1 DEF M!Becomes, M!Now
<1> QED BY <1>2, <1>3 DEF MatchStep, M!MatchNext, M!Ends

\* Somebody is on turn at a table whose feed is open, whenever a move is accepted.
LEMMA MovesAtOpenTable ==
  ASSUME TypeOK, ResultInv, NEW p \in Player, MayAct(p)
  PROVE  phase = "Playing" /\ feedOpen /\ players # <<>>
BY CurrentPlayerType, EngineAssumption DEF MayAct, ResultInv

LEMMA MatchOfMove ==
  ASSUME TypeOK, ResultInv, NEW p \in Player, MayAct(p), AcceptedMove(p)
  PROVE  MatchStep
<1>1. phase = "Playing" /\ feedOpen /\ players # <<>> /\ UNCHANGED <<players, feedOpen>>
  BY MovesAtOpenTable DEF AcceptedMove
<1>2. CASE MoveFails
  BY <1>1, <1>2, MatchEnds DEF MoveFails
<1>3. CASE MoveWins(p)
  BY <1>1, <1>3, MatchEnds DEF MoveWins
<1>4. CASE MoveAdvances(p)
  BY <1>1, <1>4, MatchStutters DEF MoveAdvances, Broadcast
<1> QED BY <1>2, <1>3, <1>4 DEF AcceptedMove

\* A departure is the match without the leaver, or what that may turn into.
LEMMA MatchLeft ==
  ASSUME ResultInv, NEW p \in ToSet(players), ToSet(players') = ToSet(players) \ {p},
         phase # "Finished",
         NEW m \in {[M!Now EXCEPT !.seats = @ \ {p}]}
                   \cup M!LeftOver([M!Now EXCEPT !.seats = @ \ {p}]),
         M!Becomes(m)
  PROVE  MatchStep
<1>1. m \in M!Left(M!Now, p)
  BY DEF M!Left, M!Now
<1>2. p \in ToSet(Seating)
  BY DEF ResultInv, ResultSound, EveryoneAccounted
<1> QED BY <1>1, <1>2 DEF MatchStep, M!MatchNext, M!Leaves

\* A departure that neither ends the match nor starts it.
LEMMA MatchGoesOn ==
  ASSUME ResultInv, NEW p \in ToSet(players), ToSet(players') = ToSet(players) \ {p},
         phase # "Finished", UNCHANGED <<phase, winner, endings, feedOpen>>
  PROVE  MatchStep
<1>1. M!Becomes([M!Now EXCEPT !.seats = @ \ {p}])
  BY DEF M!Becomes, M!Now
<1> QED BY <1>1, MatchLeft

\* The standings panic over a departure that ended the match.
LEMMA MatchLeftMute ==
  ASSUME ResultInv, NEW p \in ToSet(players), ToSet(players') = ToSet(players) \ {p},
         ToSet(players') # {}, phase = "Playing", NEW events, FinishUnranked(events),
         feedOpen' = feedOpen
  PROVE  MatchStep
<1> DEFINE n == [M!Now EXCEPT !.seats = @ \ {p}]
           m == [n EXCEPT !.phase = "Finished"]
<1>1. phase' = "Finished" /\ UNCHANGED <<winner, endings>>
  BY DEF FinishUnranked, Broadcast
<1>2. n.seats = ToSet(players') /\ n.phase = "Playing"
  BY DEF M!Now
<1>3. M!Becomes(m)
  BY <1>1 DEF M!Becomes, M!Now
<1> HIDE DEF n
<1>4. m \in M!LeftOver(n)
  BY <1>2 DEF M!LeftOver, M!Unannounced
<1> QED BY <1>3, <1>4, MatchLeft DEF n

LEMMA MatchOfLeave ==
  ASSUME TypeOK, ResultInv, NEW p \in Player, NEW before, RemoveSeat(p, before)
  PROVE  MatchStep
<1> DEFINE seats  == RemoveAt(players, SeatOf(p))
           cursor == CursorWithout(p, seats)
           events == before \cup {<<"PlayerLeft", p>>}
<1>1. Seated(p) /\ phase # "Finished" /\ feedOpen' = feedOpen
  BY DEF RemoveSeat, Removable
<1>2. PICK over \in RulesOverride :
        /\ LeaveTable(p, seats)
        /\ \/ LeaveUnstarted(seats, cursor, over, events)
           \/ LeaveEnds(seats, cursor, over, events)
           \/ LeavePlaysOn(seats, cursor, over, events)
  BY DEF RemoveSeat
<1>3. players' = seats
  BY <1>2 DEF LeaveTable
<1>4. /\ players' \in Seq(Player)
      /\ p \in ToSet(players) /\ ToSet(players') = ToSet(players) \ {p}
  BY <1>1, <1>2, RosterAfterLeave DEF ResultInv, ResultSound
<1> HIDE DEF seats, cursor, events
<1>5. CASE LeaveUnstarted(seats, cursor, over, events) \/ LeavePlaysOn(seats, cursor, over, events)
  <2>1. UNCHANGED <<phase, winner, endings>>
    BY <1>5 DEF LeaveUnstarted, LeavePlaysOn, Broadcast
  <2> QED BY <1>1, <1>4, <2>1, MatchGoesOn
<1>6. CASE LeaveEnds(seats, cursor, over, events)
  <2>1. PICK r \in {"Abandoned", "Forfeit", "Win"} :
          /\ FinishGame(seats, r, events)
          /\ \/ r = "Abandoned" /\ seats = <<>>
             \/ r = "Win" /\ seats # <<>>
             \/ r = "Forfeit" /\ Len(seats) = 1
    BY <1>6 DEF LeaveEnds
  <2>2. phase = "Playing"
    BY <1>6 DEF LeaveEnds
  <2> DEFINE n == [M!Now EXCEPT !.seats = @ \ {p}]
             m == [n EXCEPT !.phase = "Finished", !.reason = IF n.feed THEN r ELSE None,
                            !.winner = winner']
  <2>3. /\ Reason' = (IF feedOpen THEN r ELSE None) /\ phase' = "Finished"
        /\ winner' \in IF ToSet(players') = {} THEN {None} ELSE ToSet(players')
    BY <1>3, <1>4, <2>1, <2>2, ReasonOfEnd, WinnersSeated
  <2>4. n.seats = ToSet(players') /\ n.phase = "Playing" /\ n.feed = feedOpen
    BY <1>4, <2>2 DEF M!Now
  <2>5. M!Becomes(m)
    BY <1>1, <1>4, <2>3 DEF M!Becomes, M!Now, Reason
  <2> HIDE DEF n
  <2>6. m \in M!Announced(n, r)
    BY <2>3, <2>4 DEF M!Announced
  <2>7. \/ r = "Abandoned" /\ n.seats = {}
        \/ r = "Win" /\ n.seats # {}
        \/ r = "Forfeit" /\ \E q \in n.seats : n.seats = {q}
    <3>1. CASE r # "Forfeit"
      BY <1>3, <1>4, <2>1, <2>4, <3>1, WinnersSeated
    <3>2. CASE r = "Forfeit"
      <4>1. Len(players') = 1
        BY <1>3, <2>1, <3>2
      <4>2. ToSet(players') = {players'[1]}
        BY <1>4, <4>1 DEF ToSet
      <4> QED BY <2>4, <3>2, <4>2
    <3> QED BY <3>1, <3>2
  <2>8. m \in M!LeftOver(n)
    BY <2>4, <2>6, <2>7 DEF M!LeftOver
  <2> QED BY <1>1, <1>4, <2>5, <2>8, MatchLeft DEF n
<1> QED BY <1>2, <1>5, <1>6

LEMMA MatchOfClock ==
  ASSUME TypeOK, ClockInv, ResultInv, NEW t \in timeouts, Settle(t)
  PROVE  MatchStep
<1>1. t.player \in Player
  BY SettlesForSomebody
<1>2. CASE \/ GapStale(t) \/ TakeSeatPanics(t) \/ AutoPlayRefused(t) \/ Rearm(t)
           \/ RearmPanics(t) \/ RecoverPanics(t)
  BY <1>2, MatchStutters
     DEF GapStale, TakeSeatPanics, AutoPlayRefused, Rearm, RearmPanics, RecoverPanics, Unaffected,
         table, Broadcast
<1>3. CASE AutoPlayPanics(t)
  <2>1. phase = "Playing" /\ feedOpen /\ players # <<>> /\ UNCHANGED <<players, feedOpen>>
    BY <1>1, <1>3, MovesAtOpenTable DEF AutoPlayPanics
  <2>2. CASE \E events : FinishUnranked(events)
    BY <2>1, <2>2, MatchEndsMute
  <2>3. CASE UNCHANGED <<phase, winner, endings>>
    BY <2>1, <2>3, MatchStutters
  <2> QED BY <1>3, <2>2, <2>3 DEF AutoPlayPanics, Broadcast
<1>4. CASE TakeSeat(t)
  BY <1>1, <1>4, MatchOfLeave DEF TakeSeat
<1>5. CASE AutoPlay(t)
  BY <1>1, <1>5, MatchOfMove DEF AutoPlay, AcceptedMove
<1>6. CASE TakeSeatPanicsLate(t)
  <2>1. /\ Seated(t.player) /\ phase = "Playing" /\ feedOpen' = feedOpen
        /\ LeaveTable(t.player, RemoveAt(players, SeatOf(t.player)))
    BY <1>6 DEF TakeSeatPanicsLate, Removable, MayTake, ClockInv, TurnFence
  <2>2. /\ players' \in Seq(Player)
        /\ t.player \in ToSet(players) /\ ToSet(players') = ToSet(players) \ {t.player}
    BY <1>1, <2>1, RosterAfterLeave DEF ResultInv, ResultSound
  <2>3. CASE /\ RemoveAt(players, SeatOf(t.player)) # <<>>
             /\ \E events : FinishUnranked(events)
    <3>1. ToSet(players') # {}
      BY <2>1, <2>2, <2>3, WinnersSeated DEF LeaveTable
    <3> QED BY <2>1, <2>2, <2>3, <3>1, MatchLeftMute
  <2>4. CASE UNCHANGED <<phase, winner, endings>>
    BY <2>1, <2>2, <2>4, MatchGoesOn
  <2> QED BY <1>6, <2>3, <2>4 DEF TakeSeatPanicsLate, Broadcast
<1>7. CASE Recover(t)
  <2>1. UNCHANGED <<players, feedOpen>>
    BY <1>7 DEF Recover
  <2>2. CASE RecoverEnds
    BY <1>7, <2>1, <2>2, MatchEnds DEF Recover, RecoverEnds, ResultInv
  <2>3. CASE ~RecoverEnds
    BY <1>7, <2>1, <2>3, MatchStutters DEF Recover, Broadcast
  <2> QED BY <2>2, <2>3
<1> QED BY <1>2, <1>3, <1>4, <1>5, <1>6, <1>7 DEF Settle

\* The engine with its clock implements the match (Match), with rules that fail or panic in
\* any hook on the clock's goroutine: the initial states map to an open match, and every step
\* to a step of the match or to none.
THEOREM ImplementsMatch == Spec => KeepsPromise
<1>1. Init => M!Open
  BY DEF Init, M!Open
<1>2. TypeOK /\ ClockInv /\ ResultInv /\ [Next]_vars => MatchStep
  <2> SUFFICES ASSUME TypeOK, ClockInv, ResultInv, [Next]_vars PROVE MatchStep
    OBVIOUS
  <2>1. CASE Start
    <3>1. /\ phase = "Waiting" /\ phase' = "Playing" /\ players # <<>>
          /\ UNCHANGED <<players, winner, feedOpen, endings>>
      BY <2>1 DEF Start, Broadcast
    <3>2. ToSet(players) # {}
      BY <3>1, FirstSeat DEF TypeOK
    <3>3. M!Begin
      BY <3>1, <3>2 DEF M!Begin, M!Becomes, M!Now
    <3> QED BY <3>3 DEF MatchStep, M!MatchNext
  <2>2. CASE CloseFeed
    <3>1. M!Silence
      BY <2>2 DEF CloseFeed, table, Broadcast, M!Silence, M!Becomes, M!Now
    <3> QED BY <3>1 DEF MatchStep, M!MatchNext
  <2>3. CASE StartFails \/ Close \/ TimerFires
    BY <2>3, MatchStutters DEF StartFails, Close, TimerFires, table, Broadcast
  <2>4. ASSUME NEW p \in Player, SubmitAction(p) PROVE MatchStep
    BY <2>4, MatchOfMove DEF SubmitAction
  <2>5. ASSUME NEW p \in Player, RemovePlayer(p) PROVE MatchStep
    BY <2>5, MatchOfLeave DEF RemovePlayer
  <2>6. ASSUME NEW t \in timeouts, Resolve(t) PROVE MatchStep
    BY <2>6, MatchStutters
       DEF Resolve, ResolveStale, ResolveIdle, ResolveNoMove, ResolveAutoPlay, ResolvePanics,
           Unaffected, table, Broadcast
  <2>7. ASSUME NEW t \in timeouts, Settle(t) PROVE MatchStep
    BY <2>7, MatchOfClock
  <2>8. CASE UNCHANGED vars
    BY <2>8, MatchStutters DEF vars, table, feed
  <2> QED BY <2>1, <2>2, <2>3, <2>4, <2>5, <2>6, <2>7, <2>8 DEF Next, Feed, Outside, Clock
<1> QED BY <1>1, <1>2, TypeCorrect, ClockCorrect, ResultInvariant, PTL
        DEF Spec, KeepsPromise, M!MatchSpec, MatchStep
=============================================================================
