------------------------------- MODULE Tables -------------------------------
(***************************************************************************)
(* The lobby manager (internal/lobby): tables, who sits at which, seats    *)
(* held for a dropped session, the watcher that follows a running match,   *)
(* and the recording of finished matches up to a shutdown.                 *)
(*                                                                         *)
(* A hold of Manager.mu, with Lobby.mu taken inside it, is one action.     *)
(* Between two holds everything else may happen, so the rest of a call     *)
(* waits in "todo": for each goroutine, the holds it has yet to take.      *)
(* Goroutines are the sessions, the grace timers' callbacks, one watcher   *)
(* per match, and main.                                                    *)
(*                                                                         *)
(* A match is what Match promises of an engine (Engine implements it); its *)
(* turns and moves are left out.                                           *)
(***************************************************************************)
EXTENDS Integers, Sequences, SequencesExt, FiniteSets

CONSTANTS
  Player,     (* the players                                                *)
  Table,      (* lobbies; a closed one is never opened again                *)
  Game,       (* engines; one for each match that is started                *)
  None,       (* Go's nil                                                   *)
  MaxPlayers, (* seats per table                                            *)
  Endings,    (* bound: how a move may end a match in a run                 *)
  MaxDrops,   (* bound: sessions dropped in a run                           *)
  Deploys     (* bound: whether the process is told to shut down in a run   *)

EndReasons == {"Win", "RulesError", "Forfeit", "Abandoned", "Unknown"}

ASSUME TablesAssumption ==
  /\ None \notin Player \cup Table \cup Game \cup EndReasons \cup {"Rated"}
  /\ MaxPlayers \in Nat \ {0}
  /\ MaxDrops \in Nat
  /\ Deploys \in BOOLEAN
  /\ Endings \subseteq {"Win", "RulesError", None}

VARIABLES
  lobbies,       (* Manager.lobbies: the tables that can be found by code   *)
  playerLobby,   (* Manager.playerLobby: the index from player to table     *)
  state,         (* Lobby.state                                             *)
  roster,        (* Lobby.leader followed by Lobby.guests                   *)
  ready,         (* Lobby.ready: who is ready                               *)
  activeEngine,  (* Lobby.activeEngine                                      *)
  pending,       (* disconnectGrace.pending: a player's grace timer         *)
  expiring,      (* disconnectGrace.expiring                                *)
  strays,        (* armed grace timers that pending no longer holds         *)
  firing,        (* grace callbacks that have started and wait for mu       *)
  host,          (* the table a match was started at                        *)
  seats,         (* who the engine still seats                              *)
  phase,         (* the engine's phase; Waiting before the match starts     *)
  reason,        (* why the match ended                                     *)
  feedOpen,      (* the engine's broadcaster is open                        *)
  unread,        (* events the watcher has not received yet                 *)
  watching,      (* matches whose watcher still ranges over the feed        *)
  late,          (* matches that ended after BeginShutdown                  *)
  record,        (* what became of the match's result                       *)
  shuttingDown,  (* Manager.shuttingDown                                    *)
  stopped,       (* Manager.finalizersStopped                               *)
  online,        (* players who have a session                              *)
  drops,         (* sessions dropped so far, for the bound MaxDrops         *)
  todo           (* for each goroutine, the holds it has yet to take        *)

index   == <<lobbies, playerLobby>>
tables  == <<state, roster, ready, activeEngine>>
grace   == <<pending, expiring, strays, firing>>
matches == <<host, seats, phase, reason, feedOpen, unread, watching, late>>
ends    == <<shuttingDown, stopped>>
people  == <<online, drops>>
vars    == <<index, tables, grace, matches, record, ends, people, todo>>

Session(p) == [kind |-> "session", of |-> p]
Timer(p)   == [kind |-> "timer", of |-> p]
Watcher(g) == [kind |-> "watcher", of |-> g]
Main       == [kind |-> "main", of |-> None]

Threads == {Session(p) : p \in Player} \cup {Timer(p) : p \in Player}
           \cup {Watcher(g) : g \in Game} \cup {Main}

-----------------------------------------------------------------------------
(* The rest of a call: the holds a goroutine has yet to take, next one first *)

LeaveLobby(p)      == [op |-> "LeaveLobby", player |-> p]
NotifyEngine(p, g) == [op |-> "NotifyEngine", player |-> p, game |-> g]
RemoveLobby(t)     == [op |-> "RemoveLobby", table |-> t]
CloseEngine(g)     == [op |-> "CloseEngine", game |-> g]
ReleaseGame(t)     == [op |-> "ReleaseGame", table |-> t]
ReleaseHeld(t)     == [op |-> "ReleaseHeld", table |-> t]
ExpireEach(held)   == [op |-> "ExpireEach", players |-> held]
LeaveEach(held)    == [op |-> "LeaveEach", players |-> held]
FlipReady(p, t)    == [op |-> "FlipReady", player |-> p, table |-> t]
Finalize(g, r)     == [op |-> "Finalize", game |-> g, reason |-> r]
Persist(g, r)      == [op |-> "Persist", game |-> g, reason |-> r]
DrainHeld          == [op |-> "DrainHeld"]

Idle(th)      == todo[th] = <<>>
At(th, op)    == ~Idle(th) /\ Head(todo[th]).op = op
Hold(th)      == Head(todo[th])
Call(th, holds) == Idle(th) /\ todo' = [todo EXCEPT ![th] = holds]
Goto(th, holds) == todo' = [todo EXCEPT ![th] = holds \o Tail(@)]
When(cond, hold) == IF cond THEN <<hold>> ELSE <<>>
Each(hold) == When(hold.players # {}, hold)

\* Some goroutine still has to take this hold.
Due(hold) == \E th \in Threads : ~Idle(th) /\ hold \in ToSet(todo[th])

-----------------------------------------------------------------------------
(* Seats *)

Leader(t)    == Head(roster[t])
OnRoster(p, t) == p \in ToSet(roster[t])
Open(t)      == state[t] \in {"Waiting", "InGame"}
PlaceOf(p, t) == CHOOSE i \in 1..Len(roster[t]) : roster[t][i] = p
RosterWithout(p, t) == RemoveAt(roster[t], PlaceOf(p, t))

\* playerInLobbyLocked
InLobby(p) == playerLobby[p] # None /\ OnRoster(p, playerLobby[p])

IdleEvent(p) == [type |-> "PlayerIdle", player |-> p]
EndEvent(r)  == [type |-> "GameEnded", reason |-> r]

-----------------------------------------------------------------------------
(* Opening, joining and kicking: one hold of Manager.mu each *)

New(p, t) ==
  /\ state[t] = "Unused"
  /\ Idle(Session(p))
  /\ ~InLobby(p)
  /\ p \in online
  /\ lobbies' = lobbies \cup {t}
  /\ playerLobby' = [playerLobby EXCEPT ![p] = t]
  /\ state' = [state EXCEPT ![t] = "Waiting"]
  /\ roster' = [roster EXCEPT ![t] = <<p>>]
  /\ UNCHANGED <<ready, activeEngine, grace, matches, record, ends, people, todo>>

JoinLobbyByCode(p, t) ==
  /\ t \in lobbies
  /\ state[t] = "Waiting"
  /\ Len(roster[t]) < MaxPlayers
  /\ Idle(Session(p))
  /\ ~InLobby(p)
  /\ ~OnRoster(p, t)
  /\ p \in online
  /\ playerLobby' = [playerLobby EXCEPT ![p] = t]
  /\ roster' = [roster EXCEPT ![t] = Append(@, p)]
  /\ UNCHANGED <<lobbies, state, ready, activeEngine, grace, matches, record, ends, people, todo>>

\* A kick leaves the target's grace alone; a waiting table has no engine to tell.
Kick(p, target) ==
  LET t == playerLobby[p] IN
  /\ p \in online
  /\ Idle(Session(p))
  /\ t # None
  /\ state[t] = "Waiting"
  /\ Leader(t) = p
  /\ target \in ToSet(Tail(roster[t]))
  /\ playerLobby' = [playerLobby EXCEPT ![target] = None]
  /\ roster' = [roster EXCEPT ![t] = RosterWithout(target, t)]
  /\ ready' = [ready EXCEPT ![t] = @ \ {target}]
  /\ UNCHANGED <<lobbies, state, activeEngine, grace, matches, record, ends, people, todo>>

-----------------------------------------------------------------------------
(* The engine of a running match, as Match promises it *)

O == INSTANCE Outcomes

Match(g) == [seats |-> seats[g], phase |-> phase[g], reason |-> reason[g], winner |-> None,
             feed |-> feedOpen[g]]

\* A closed broadcaster swallows what is sent to it.
Send(g, events) == unread' = [unread EXCEPT ![g] = IF feedOpen[g] THEN @ \o events ELSE @]

\* The engine's part of a step, and what it tells the watcher.
Becomes(g, m, before) ==
  /\ seats' = [seats EXCEPT ![g] = m.seats]
  /\ phase' = [phase EXCEPT ![g] = m.phase]
  /\ reason' = [reason EXCEPT ![g] = m.reason]
  /\ Send(g, before \o When(m.reason # None, EndEvent(m.reason)))
  /\ late' = IF m.phase = "Finished" /\ shuttingDown THEN late \cup {g} ELSE late
  /\ UNCHANGED <<host, feedOpen, watching>>

\* Engine.removePlayerLocked: one seat fewer, which may end the match.
GiveUpSeat(g, p, before) == \E m \in O!Left(Match(g), p) : Becomes(g, m, before)

\* A move wins the match, or the rules break.
PlayEnds(g) ==
  /\ \E m \in O!Played(Match(g)) : m.reason \in Endings /\ Becomes(g, m, <<>>)
  /\ UNCHANGED <<index, tables, grace, record, ends, people, todo>>

\* The turn clock takes the seat of a player who idles, or says so and then the rules panic.
IdleOut(g, p) ==
  /\ phase[g] = "Playing" /\ p \in seats[g]
  /\ feedOpen[g]
  /\ \/ GiveUpSeat(g, p, <<IdleEvent(p)>>)
     \/ /\ IdleEvent(p) \notin ToSet(unread[g])
        /\ Send(g, <<IdleEvent(p)>>)
        /\ UNCHANGED <<host, seats, phase, reason, feedOpen, watching, late>>
  /\ UNCHANGED <<index, tables, grace, record, ends, people, todo>>

NotifyEngineStep(th) ==
  LET p == Hold(th).player
      g == Hold(th).game
  IN  /\ At(th, "NotifyEngine")
      /\ IF O!Left(Match(g), p) = {} THEN UNCHANGED matches ELSE GiveUpSeat(g, p, <<>>)
      /\ Goto(th, <<>>)
      /\ UNCHANGED <<index, tables, grace, record, ends, people>>

CloseEngineStep(th) ==
  /\ At(th, "CloseEngine")
  /\ feedOpen' = [feedOpen EXCEPT ![Hold(th).game] = FALSE]
  /\ Goto(th, <<>>)
  /\ UNCHANGED <<host, seats, phase, reason, unread, watching, late, index, tables, grace, record,
                 ends, people>>

-----------------------------------------------------------------------------
(* Leaving.  One hold takes the seat; the engine is told, and a table with *)
(* nobody left is removed, after the locks are dropped.                    *)

\* Mutant: the mark of an expiring hold is left behind.
ClearTimerOnly(p) ==
  /\ pending' = [pending EXCEPT ![p] = "Off"]
  /\ UNCHANGED <<expiring, strays, firing>>

\* disconnectGrace.clear: a timer that has fired can no longer be stopped.
ClearGrace(p) ==
  /\ pending' = [pending EXCEPT ![p] = "Off"]
  /\ expiring' = expiring \ {p}
  /\ UNCHANGED <<strays, firing>>

\* Mutant: the engine is not told who left.
TellNobody(t, p) == <<>>

Tellable(t, p) ==
  IF activeEngine[t] = None THEN <<>> ELSE <<NotifyEngine(p, activeEngine[t])>>

\* Mutant: the last one out leaves the lobby open.
DetachStaysOpen(p, t) ==
  /\ roster' = [roster EXCEPT ![t] = IF @ = <<p>> THEN @ ELSE RosterWithout(p, t)]
  /\ ready' = [ready EXCEPT ![t] = @ \ {p}]
  /\ UNCHANGED <<state, activeEngine>>

\* detachPlayerLocked: the first guest inherits the table, the last one out closes it.
Detach(p, t) ==
  IF roster[t] = <<p>>
  THEN /\ state' = [state EXCEPT ![t] = "Closed"]
       /\ UNCHANGED <<roster, ready, activeEngine>>
  ELSE /\ roster' = [roster EXCEPT ![t] = RosterWithout(p, t)]
       /\ ready' = [ready EXCEPT ![t] = @ \ {p}]
       /\ UNCHANGED <<state, activeEngine>>

LeaveLobbyStep(th) ==
  LET p == Hold(th).player
      t == playerLobby[p]
  IN  /\ At(th, "LeaveLobby")
      /\ ClearGrace(p)
      /\ IF InLobby(p)
         THEN /\ Detach(p, t)
              /\ playerLobby' = [playerLobby EXCEPT ![p] = None]
              /\ Goto(th, Tellable(t, p) \o When(roster[t] = <<p>>, RemoveLobby(t)))
         ELSE Goto(th, <<>>) /\ UNCHANGED <<tables, playerLobby>>
      /\ UNCHANGED <<lobbies, matches, record, ends, people>>

\* The index entries of everyone on the roster go, whatever they point to.  Only
\* the call that closed t gets here, so t is still listed.
RemoveLobbyStep(th) ==
  LET t == Hold(th).table IN
  /\ At(th, "RemoveLobby")
  /\ t \in lobbies
  /\ lobbies' = lobbies \ {t}
  /\ playerLobby' = [p \in Player |-> IF OnRoster(p, t) THEN None ELSE playerLobby[p]]
  /\ activeEngine' = [activeEngine EXCEPT ![t] = None]
  /\ Goto(th, When(activeEngine[t] # None, CloseEngine(activeEngine[t])))
  /\ UNCHANGED <<state, roster, ready, grace, matches, record, ends, people>>

LeaveByChoice(p) ==
  /\ p \in online
  /\ playerLobby[p] # None
  /\ Call(Session(p), <<LeaveLobby(p)>>)
  /\ UNCHANGED <<index, tables, grace, matches, record, ends, people>>

-----------------------------------------------------------------------------
(* A dropped session: its seat in a running match is held for a grace      *)
(* period.  time.Timer.Stop stops an armed timer, not one that has fired.  *)

\* Mutants: a seat is held in a waiting lobby too; the shutdown flag is not looked at.
HoldableAnyState(t)   == ~shuttingDown /\ t # None
HoldableInShutdown(t) == t # None /\ state[t] = "InGame"

Holdable(t) == ~shuttingDown /\ t # None /\ state[t] = "InGame"

Arm(p) ==
  /\ pending' = [pending EXCEPT ![p] = "Armed"]
  /\ UNCHANGED <<expiring, strays, firing, todo>>

Disconnect(p) ==
  LET t == playerLobby[p] IN
  /\ p \in online
  /\ Idle(Session(p))
  /\ drops < MaxDrops
  /\ online' = online \ {p}
  /\ drops' = drops + 1
  /\ \/ Holdable(t) /\ Arm(p)
     \/ /\ ~Holdable(t) /\ (shuttingDown \/ t # None)
        /\ Call(Session(p), <<LeaveLobby(p)>>)
        /\ UNCHANGED grace
     \/ ~shuttingDown /\ t = None /\ UNCHANGED <<grace, todo>>
  /\ UNCHANGED <<index, tables, matches, record, ends>>

\* ResumePlayer: a hold that is already expiring is past saving.
Connect(p) ==
  /\ p \notin online
  /\ Idle(Session(p))
  /\ ~stopped
  /\ online' = online \cup {p}
  /\ pending' = IF p \notin expiring /\ pending[p] = "Armed"
                THEN [pending EXCEPT ![p] = "Off"] ELSE pending
  /\ UNCHANGED <<index, tables, expiring, strays, firing, matches, record, ends, drops, todo>>

TimerFires(p) ==
  /\ pending[p] = "Armed"
  /\ pending' = [pending EXCEPT ![p] = "Fired"]
  /\ firing' = [firing EXCEPT ![p] = @ + 1]
  /\ UNCHANGED <<expiring, strays, index, tables, matches, record, ends, people, todo>>

StrayFires(p) ==
  /\ strays[p] > 0
  /\ strays' = [strays EXCEPT ![p] = @ - 1]
  /\ firing' = [firing EXCEPT ![p] = @ + 1]
  /\ UNCHANGED <<pending, expiring, index, tables, matches, record, ends, people, todo>>

\* disconnectGrace.beginExpire forgets the timer without stopping it.
BeginExpire(p) ==
  /\ pending' = [pending EXCEPT ![p] = "Off"]
  /\ expiring' = expiring \cup {p}
  /\ strays' = IF pending[p] = "Armed" THEN [strays EXCEPT ![p] = @ + 1] ELSE strays

\* expireLeave, run by a timer.
TimerCallback(p) ==
  /\ firing[p] > 0
  /\ firing' = [firing EXCEPT ![p] = @ - 1]
  /\ IF pending[p] = "Off"
     THEN Idle(Timer(p)) /\ UNCHANGED <<pending, expiring, strays, todo>>
     ELSE Call(Timer(p), <<LeaveLobby(p)>>) /\ BeginExpire(p)
  /\ UNCHANGED <<index, tables, matches, record, ends, people>>

-----------------------------------------------------------------------------
(* Getting ready, and reopening the table once its match has finished *)

ToggleReady(p, t) ==
  /\ p \in online
  /\ playerLobby[p] = t
  /\ Call(Session(p), When(state[t] = "InGame", ReleaseGame(t)) \o <<FlipReady(p, t)>>)
  /\ UNCHANGED <<index, tables, grace, matches, record, ends, people>>

AllReady(t, flipped) == ToSet(roster[t]) \subseteq flipped

\* startGameLocked: everyone on the roster is dealt in, and the match is watched.
StartGame(t, g) ==
  /\ host' = [host EXCEPT ![g] = t]
  /\ seats' = [seats EXCEPT ![g] = ToSet(roster[t])]
  /\ phase' = [phase EXCEPT ![g] = "Playing"]
  /\ feedOpen' = [feedOpen EXCEPT ![g] = TRUE]
  /\ watching' = watching \cup {g}
  /\ state' = [state EXCEPT ![t] = "InGame"]
  /\ activeEngine' = [activeEngine EXCEPT ![t] = g]
  /\ ready' = [ready EXCEPT ![t] = {}]
  /\ UNCHANGED <<roster, reason, unread, late>>

\* A start that fails (too few players, the deal fails) leaves the flip standing.
FlipReadyStep(th) ==
  LET p == Hold(th).player
      t == Hold(th).table
      flipped == SymDiff(ready[t], {p})
  IN  /\ At(th, "FlipReady")
      /\ \/ /\ state[t] = "InGame" \/ ~OnRoster(p, t)
            /\ UNCHANGED <<tables, matches>>
         \/ /\ state[t] # "InGame" /\ OnRoster(p, t)
            /\ ready' = [ready EXCEPT ![t] = flipped]
            /\ UNCHANGED <<state, roster, activeEngine, matches>>
         \/ /\ state[t] = "Waiting" /\ OnRoster(p, t)
            /\ AllReady(t, flipped)
            /\ Len(roster[t]) >= 2
            /\ \E g \in Game : phase[g] = "Waiting" /\ StartGame(t, g)
      /\ Goto(th, <<>>)
      /\ UNCHANGED <<index, grace, record, ends, people>>

Releasable(t) ==
  state[t] = "InGame" /\ activeEngine[t] # None /\ phase[activeEngine[t]] = "Finished"

ReleaseGameStep(th) ==
  LET t == Hold(th).table IN
  /\ At(th, "ReleaseGame")
  /\ IF Releasable(t)
     THEN /\ state' = [state EXCEPT ![t] = "Waiting"]
          /\ activeEngine' = [activeEngine EXCEPT ![t] = None]
          /\ ready' = [ready EXCEPT ![t] = {}]
          /\ Goto(th, <<CloseEngine(activeEngine[t]), ReleaseHeld(t)>>)
          /\ UNCHANGED roster
     ELSE Goto(th, <<>>) /\ UNCHANGED tables
  /\ UNCHANGED <<index, grace, matches, record, ends, people>>

HeldSeats == {p \in Player : pending[p] # "Off"}

ReleaseHeldStep(th) ==
  LET t == Hold(th).table IN
  /\ At(th, "ReleaseHeld")
  /\ Goto(th, Each(ExpireEach({p \in HeldSeats : playerLobby[p] = t})))
  /\ UNCHANGED <<index, tables, grace, matches, record, ends, people>>

\* expireLeave, for one of the seats that were held when they were listed.
ExpireEachStep(th) ==
  /\ At(th, "ExpireEach")
  /\ \E p \in Hold(th).players :
       LET rest == Each(ExpireEach(Hold(th).players \ {p})) IN
       IF pending[p] = "Off"
       THEN Goto(th, rest) /\ UNCHANGED grace
       ELSE BeginExpire(p) /\ Goto(th, <<LeaveLobby(p)>> \o rest) /\ UNCHANGED firing
  /\ UNCHANGED <<index, tables, matches, record, ends, people>>

-----------------------------------------------------------------------------
(* The watcher of a match (handleBroadcasterEvents) *)

Listening(g) == g \in watching /\ Idle(Watcher(g))

Receive(g) == unread' = [unread EXCEPT ![g] = Tail(@)]

\* The engine took the seat, so the roster follows.
WatchIdle(g) ==
  /\ Listening(g)
  /\ unread[g] # <<>>
  /\ Head(unread[g]).type = "PlayerIdle"
  /\ Receive(g)
  /\ Call(Watcher(g), <<LeaveLobby(Head(unread[g]).player)>>)
  /\ UNCHANGED <<host, seats, phase, reason, feedOpen, watching, late, index, tables, grace, record,
                 ends, people>>

\* Reopen before persisting, so that a slow write does not pin the table.
WatchEnd(g) ==
  /\ Listening(g)
  /\ unread[g] # <<>>
  /\ Head(unread[g]).type = "GameEnded"
  /\ Receive(g)
  /\ watching' = watching \ {g}
  /\ Call(Watcher(g), <<ReleaseGame(host[g]), Finalize(g, Head(unread[g]).reason)>>)
  /\ UNCHANGED <<host, seats, phase, reason, feedOpen, late, index, tables, grace, record, ends, people>>

\* The feed was closed: IsFinished decides whether there is a result to record.
WatchClosed(g) ==
  /\ Listening(g)
  /\ unread[g] = <<>>
  /\ ~feedOpen[g]
  /\ watching' = watching \ {g}
  /\ IF phase[g] = "Finished"
     THEN Call(Watcher(g), <<ReleaseGame(host[g]), Finalize(g, "Unknown")>>)
     ELSE UNCHANGED todo
  /\ UNCHANGED <<host, seats, phase, reason, feedOpen, unread, late, index, tables, grace, record, ends,
                 people>>

-----------------------------------------------------------------------------
(* Recording a finished match *)

\* registerFinalizer, which WaitForFinalizers closes.
FinalizeStep(th) ==
  LET g == Hold(th).game IN
  /\ At(th, "Finalize")
  /\ record' = [record EXCEPT ![g] = IF stopped THEN "Dropped" ELSE "Registered"]
  /\ Goto(th, When(~stopped, Persist(g, Hold(th).reason)))
  /\ UNCHANGED <<index, tables, grace, matches, ends, people>>

\* Mutant: an interrupted match is rated.
RatedAnyway(r) == r \notin {"RulesError", "Abandoned"}

Rated(r) == ~shuttingDown /\ r \notin {"RulesError", "Abandoned"}

\* Mutant: a failed write is not accounted for.
PersistInSilence(th) ==
  LET g == Hold(th).game IN
  /\ At(th, "Persist")
  /\ \/ record' = [record EXCEPT ![g] = IF Rated(Hold(th).reason) THEN "Rated" ELSE "Unrated"]
     \/ UNCHANGED record
  /\ Goto(th, <<>>)
  /\ UNCHANGED <<index, tables, grace, matches, ends, people>>

\* persistFinishedMatch of a ranked match; the database may refuse it.
PersistStep(th) ==
  LET g == Hold(th).game IN
  /\ At(th, "Persist")
  /\ \E r \in {IF Rated(Hold(th).reason) THEN "Rated" ELSE "Unrated", "Failed"} :
       record' = [record EXCEPT ![g] = r]
  /\ Goto(th, <<>>)
  /\ UNCHANGED <<index, tables, grace, matches, ends, people>>

-----------------------------------------------------------------------------
(* Shutting down *)

BeginShutdown ==
  /\ Deploys
  /\ ~shuttingDown
  /\ shuttingDown' = TRUE
  /\ Call(Main, <<DrainHeld>>)
  /\ UNCHANGED <<stopped, index, tables, grace, matches, record, people>>

DrainHeldStep ==
  /\ At(Main, "DrainHeld")
  /\ Goto(Main, Each(LeaveEach(HeldSeats)))
  /\ UNCHANGED <<index, tables, grace, matches, record, ends, people>>

LeaveEachStep ==
  /\ At(Main, "LeaveEach")
  /\ \E p \in Hold(Main).players :
       Goto(Main, <<LeaveLobby(p)>> \o Each(LeaveEach(Hold(Main).players \ {p})))
  /\ UNCHANGED <<index, tables, grace, matches, record, ends, people>>

\* WaitForFinalizers, once the sessions had their time to drain.
StopFinalizers ==
  /\ shuttingDown
  /\ ~stopped
  /\ Idle(Main)
  /\ stopped' = TRUE
  /\ UNCHANGED <<shuttingDown, index, tables, grace, matches, record, people, todo>>

-----------------------------------------------------------------------------
Init ==
  /\ lobbies = {}
  /\ playerLobby = [p \in Player |-> None]
  /\ state = [t \in Table |-> "Unused"]
  /\ roster = [t \in Table |-> <<>>]
  /\ ready = [t \in Table |-> {}]
  /\ activeEngine = [t \in Table |-> None]
  /\ pending = [p \in Player |-> "Off"]
  /\ expiring = {}
  /\ strays = [p \in Player |-> 0]
  /\ firing = [p \in Player |-> 0]
  /\ host = [g \in Game |-> None]
  /\ seats = [g \in Game |-> {}]
  /\ phase = [g \in Game |-> "Waiting"]
  /\ reason = [g \in Game |-> None]
  /\ feedOpen = [g \in Game |-> FALSE]
  /\ unread = [g \in Game |-> <<>>]
  /\ watching = {}
  /\ late = {}
  /\ record = [g \in Game |-> None]
  /\ shuttingDown = FALSE
  /\ stopped = FALSE
  /\ online = Player
  /\ drops = 0
  /\ todo = [th \in Threads |-> <<>>]

\* A goroutine goes on with the call it is in.
Step(th) ==
  /\ ~Idle(th)
  /\ \/ LeaveLobbyStep(th)   \/ NotifyEngineStep(th) \/ RemoveLobbyStep(th)
     \/ CloseEngineStep(th)  \/ FlipReadyStep(th)    \/ ReleaseGameStep(th)
     \/ ReleaseHeldStep(th)  \/ ExpireEachStep(th)   \/ FinalizeStep(th)
     \/ PersistStep(th)

MainStep == Step(Main) \/ DrainHeldStep \/ LeaveEachStep

Expires(p) == TimerFires(p) \/ StrayFires(p)

TimerStep(p) == Step(Timer(p)) \/ TimerCallback(p)

WatcherStep(g) == Step(Watcher(g)) \/ WatchIdle(g) \/ WatchEnd(g) \/ WatchClosed(g)

\* What players, connections and rules may do, and need not.
PlayerActs(p) ==
  \/ \E t \in Table : New(p, t) \/ JoinLobbyByCode(p, t) \/ ToggleReady(p, t)
  \/ \E q \in Player : Kick(p, q)
  \/ LeaveByChoice(p) \/ Disconnect(p) \/ Connect(p)

MatchActs(g) ==
  \/ PlayEnds(g)
  \/ \E p \in Player : IdleOut(g, p)

Next ==
  \/ \E p \in Player : PlayerActs(p) \/ Step(Session(p)) \/ Expires(p) \/ TimerStep(p)
  \/ \E g \in Game : MatchActs(g) \/ WatcherStep(g)
  \/ MainStep
  \/ BeginShutdown \/ StopFinalizers

\* A goroutine that can run does, and a timer that is armed fires.
Fairness ==
  /\ \A p \in Player : WF_vars(Step(Session(p))) /\ WF_vars(Expires(p)) /\ WF_vars(TimerStep(p))
  /\ \A g \in Game : WF_vars(WatcherStep(g))
  /\ WF_vars(MainStep)

Spec == Init /\ [][Next]_vars /\ Fairness

-----------------------------------------------------------------------------
(* What the lobby manager promises *)

Holds ==
  [op : {"LeaveLobby"}, player : Player]
  \cup [op : {"NotifyEngine"}, player : Player, game : Game]
  \cup [op : {"RemoveLobby", "ReleaseGame", "ReleaseHeld"}, table : Table]
  \cup [op : {"CloseEngine"}, game : Game]
  \cup [op : {"ExpireEach", "LeaveEach"}, players : SUBSET Player]
  \cup [op : {"FlipReady"}, player : Player, table : Table]
  \cup [op : {"Finalize", "Persist"}, game : Game, reason : EndReasons]
  \cup {DrainHeld}

Events == {IdleEvent(p) : p \in Player} \cup {EndEvent(r) : r \in EndReasons}

\* Every variable keeps its type, and a roster never seats a player twice nor
\* more players than the table has seats.
TypeOK ==
  /\ lobbies \subseteq Table
  /\ playerLobby \in [Player -> Table \cup {None}]
  /\ state \in [Table -> {"Unused", "Waiting", "InGame", "Closed"}]
  /\ roster \in [Table -> Seq(Player)]
  /\ \A t \in Table : IsInjective(roster[t]) /\ Len(roster[t]) <= MaxPlayers
  /\ ready \in [Table -> SUBSET Player]
  /\ activeEngine \in [Table -> Game \cup {None}]
  /\ pending \in [Player -> {"Off", "Armed", "Fired"}]
  /\ expiring \subseteq Player
  /\ strays \in [Player -> Nat] /\ firing \in [Player -> Nat]
  /\ host \in [Game -> Table \cup {None}]
  /\ seats \in [Game -> SUBSET Player]
  /\ phase \in [Game -> {"Waiting", "Playing", "Finished"}]
  /\ reason \in [Game -> EndReasons \cup {None}]
  /\ feedOpen \in [Game -> BOOLEAN]
  /\ unread \in [Game -> Seq(Events)]
  /\ watching \subseteq Game /\ late \subseteq Game
  /\ record \in [Game -> {None, "Registered", "Rated", "Unrated", "Failed", "Dropped"}]
  /\ shuttingDown \in BOOLEAN /\ stopped \in BOOLEAN
  /\ online \subseteq Player
  /\ drops \in 0..MaxDrops
  /\ todo \in [Threads -> Seq(Holds)]

\* The index points only to tables that are open and listed and have the player on
\* their roster.  A player on an open table's roster is indexed there, unless a table
\* the player left last of all was being removed: RemoveLobby, which runs in a later
\* hold, then took the index entry of wherever the player sits by now.
IndexFollowsRoster ==
  \A p \in Player, t \in Table :
    /\ playerLobby[p] = t => t \in lobbies /\ Open(t) /\ OnRoster(p, t)
    /\ Open(t) /\ OnRoster(p, t) /\ playerLobby[p] # t =>
         \E u \in Table : state[u] = "Closed" /\ u \notin lobbies /\ roster[u] = <<p>>

\* The index and the rosters, with their types: nobody sits twice at one table.
IndexSound == TypeOK /\ IndexFollowsRoster

\* While a match runs, the roster and the engine's seats differ only by a departure
\* that one side still has to be told of: the manager detaches first and tells the
\* engine after the locks are dropped, the turn clock takes the seat first and the
\* watcher detaches when it reads the event.
SeatsFollowRoster ==
  \A t \in Table, p \in Player :
    LET g == activeEngine[t] IN
    g # None /\ phase[g] = "Playing" =>
      /\ p \in seats[g] /\ ~(Open(t) /\ OnRoster(p, t)) => Due(NotifyEngine(p, g))
      /\ p \notin seats[g] /\ playerLobby[p] = t =>
           IdleEvent(p) \in ToSet(unread[g]) \/ LeaveLobby(p) \in ToSet(todo[Watcher(g)])

\* Somebody lists the seats of t that are held, or has p on such a list.
HoldEnds(p, t) ==
  \/ Due(ReleaseHeld(t))
  \/ \E th \in Threads, held \in SUBSET Player :
       p \in held /\ ExpireEach(held) \in ToSet(todo[th])

\* releaseHeldSeats' comment: "The hold only makes sense mid-hand".  The seat of a
\* player who is away is held only while its table is in a match, or while whoever
\* reopened the table still has that hold to give up, or a leave is on its way.
HeldOnlyMidHand ==
  \A p \in HeldSeats \ online :
    LET t == playerLobby[p] IN
    t # None => state[t] = "InGame" \/ HoldEnds(p, t) \/ Due(LeaveLobby(p))

\* Whoever ResumePlayer refuses is refused for a reason: a seat marked as expiring
\* has a leave on its way, and a timer that can no longer be stopped has its callback
\* on its way, however often the player has come back and gone since.
ExpiryClaimed ==
  \A p \in Player :
    /\ p \in expiring => Due(LeaveLobby(p))
    /\ pending[p] = "Fired" => firing[p] > 0

\* DisconnectPlayer's comment: once BeginShutdown has drained the holds, no seat is
\* held for a reconnect to a process that is exiting.
NoHoldAfterDrain == shuttingDown /\ Idle(Main) => HeldSeats = {}

\* A match that a shutdown interrupted moves nobody's rating, nor does one whose
\* watcher was told that the rules broke or that everybody left.
InterruptedUnrated ==
  \A g \in Game : record[g] = "Rated" => g \notin late /\ reason[g] \notin {"RulesError", "Abandoned"}

\* A match whose end was announced pins neither its table nor its result: the table
\* is reopened or closed, and the match is written to history, rated or not, unless
\* the write fails or shutdown has stopped new writes.
AnnouncedEndSettles ==
  \A g \in Game :
    reason[g] # None ~> /\ \A t \in Table : activeEngine[t] # g
                        /\ record[g] \in {"Rated", "Unrated", "Failed", "Dropped"}

\* Nobody keeps a seat they dropped: a held seat is resumed or given up.
HeldSeatResolves ==
  \A p \in Player : (pending[p] # "Off" \/ p \in expiring) ~> (pending[p] = "Off" /\ p \notin expiring)

-----------------------------------------------------------------------------
(* Where the code falls short of what its comments say; the README tells how *)

\* DisconnectGrace's comment: it "is how long a mid-game seat survives its session".
\* While a hold is running, no timer of an earlier hold of that player goes off: its
\* callback could not tell the two apart.
GraceRunsOut == [][\A p \in Player : strays'[p] < strays[p] => pending[p] # "Armed"]_vars

\* persistFinishedMatch's comment: "So is a table every seat left: standings are then
\* reverse leave order, so rating it pays the last to quit."  A rated match still
\* seats somebody.
AbandonedUnrated == \A g \in Game : record[g] = "Rated" => seats[g] # {}

\* LeaveLobby's comment: the roster and the index "can never disagree about where a
\* player is".  A player is indexed at exactly the open, listed table that seats them.
IndexAgrees ==
  \A p \in Player, t \in Table :
    playerLobby[p] = t <=> (t \in lobbies /\ Open(t) /\ OnRoster(p, t))
=============================================================================
