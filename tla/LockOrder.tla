----------------------------- MODULE LockOrder -----------------------------
(***************************************************************************)
(* The locks of the lobby and who takes them inside one another:           *)
(* Manager.mu, the mutexes of each lobby, of its engine and of the two     *)
(* broadcasters, and finalizerMu.  Tables takes each hold for one step;    *)
(* here a hold is the locks it takes, one by one, and callers may stop     *)
(* between any two of them.                                                *)
(*                                                                         *)
(* A method is the set of its outermost holds.  Between two of them its    *)
(* goroutine holds nothing, so the next one may as well be a new call.     *)
(* Early returns take no lock that the full way does not take, and the     *)
(* registry's lock is only read once the games are registered: both are    *)
(* left out.                                                               *)
(***************************************************************************)
EXTENDS Sequences, FiniteSets

CONSTANTS
  Caller,   (* goroutines                                *)
  Code      (* lobbies, by their code; each has a match  *)

VARIABLES
  ahead,    (* the locking and unlocking each caller has yet to do       *)
  taken,    (* what each caller has locked: [lock, mode]                 *)
  queued    (* callers that wait to write: readers may not overtake them *)

kvars == <<ahead, taken, queued>>

-----------------------------------------------------------------------------
(* Holds *)

ManagerMu    == <<"Manager.mu">>
FinalizerMu  == <<"Manager.finalizerMu">>
LobbyMu(c)   == <<"Lobby.mu", c>>
EngineMu(c)  == <<"Engine.mu", c>>
LobbyFeed(c) == <<"Lobby.broadcaster.mu", c>>
MatchFeed(c) == <<"Engine.broadcaster.mu", c>>

Around(lock, mode, inside) ==
  <<[lock |-> lock, mode |-> mode]>> \o inside \o <<[lock |-> lock, mode |-> "Release"]>>

Writing(lock, inside) == Around(lock, "Write", inside)
Reading(lock, inside) == Around(lock, "Read", inside)
Alone(lock)           == Writing(lock, <<>>)

-----------------------------------------------------------------------------
(* The engine (internal/game/engine.go): its events go out under its lock. *)

Tells(c) == Writing(EngineMu(c), Alone(MatchFeed(c)))

\* SubmitAction, RemovePlayer and the turn clock; Frame and the other reads.
EngineHolds(c) == {Tells(c), Alone(EngineMu(c))}

EngineCloseHolds(c) == {Alone(EngineMu(c)), Alone(MatchFeed(c))}

-----------------------------------------------------------------------------
(* The lobby (internal/lobby/lobby.go) *)

\* HasPlayer, IsWaiting, browseEntry and the other reads.
Looks(c) == Reading(LobbyMu(c), <<>>)

\* Subscribe and Unsubscribe, and whatever broadcasts or unsubscribes under the lobby's lock.
Announces(c) == Writing(LobbyMu(c), Alone(LobbyFeed(c)))

SettingsHolds(c) == {Alone(LobbyMu(c)), Alone(LobbyFeed(c))}

NotifyHolds(c) == {Tells(c), Alone(LobbyFeed(c))}

\* The new engine is started, watched and announced under the lobby's lock.
StartGameHold(c) ==
  Writing(LobbyMu(c), Tells(c) \o Alone(MatchFeed(c)) \o Alone(LobbyFeed(c)))

-----------------------------------------------------------------------------
(* The manager (internal/lobby/manager.go): the manager's lock, then the lobby's *)

\* playerInLobbyLocked asks the lobby the index names, if there is one.
Checks == {<<>>} \cup {Looks(c) : c \in Code}

NewHolds    == {Writing(ManagerMu, check) : check \in Checks}
JoinHolds   == {Writing(ManagerMu, check \o Announces(c)) : check \in Checks, c \in Code}
ResumeHolds == {Writing(ManagerMu, check) : check \in Checks}
FindHolds   == {Reading(ManagerMu, <<>>), Alone(ManagerMu)} \cup {Looks(c) : c \in Code}
StatsHolds  == {Reading(ManagerMu, <<>>)} \cup {Looks(c) : c \in Code}
BrowseHolds == {Reading(ManagerMu, <<>>), Alone(ManagerMu)} \cup {Looks(c) : c \in Code}

RemoveLobbyHolds(c) ==
  {Writing(ManagerMu, Alone(LobbyMu(c))), Alone(LobbyFeed(c))} \cup EngineCloseHolds(c)

LeaveHolds(c) ==
  {Writing(ManagerMu, Announces(c))} \cup NotifyHolds(c) \cup RemoveLobbyHolds(c)

KickHolds(c) == {Writing(ManagerMu, Announces(c))} \cup NotifyHolds(c)

DisconnectHolds(c) == {Writing(ManagerMu, Announces(c))} \cup LeaveHolds(c)

ExpireHolds(c) == {Alone(ManagerMu)} \cup LeaveHolds(c)

ShutdownHolds(c) == {Alone(ManagerMu), Alone(FinalizerMu)} \cup LeaveHolds(c)

ReleaseHeldHolds(c) == {Alone(ManagerMu)} \cup ExpireHolds(c)

\* releaseFinishedGame asks the engine whether it is over under the lobby's lock, and gives
\* up the held seats after dropping it.
ReleaseGameHolds(c) ==
  {Writing(LobbyMu(c), Alone(EngineMu(c))), Alone(LobbyFeed(c))}
  \cup EngineCloseHolds(c) \cup ReleaseHeldHolds(c)

\* Mutant: the finished game is released without dropping the lobby's lock.
ToggleReadyInside(c) ==
  {Announces(c), StartGameHold(c)} \cup {Writing(LobbyMu(c), h) : h \in ReleaseHeldHolds(c)}

ToggleReadyHolds(c) ==
  {Announces(c), StartGameHold(c)} \cup ReleaseGameHolds(c)

\* The watcher of a match follows an idle removal, and releases and records what ended.
WatchHolds(c) == LeaveHolds(c) \cup ReleaseGameHolds(c) \cup {Alone(FinalizerMu)}

Holds ==
  NewHolds \cup JoinHolds \cup ResumeHolds \cup FindHolds \cup StatsHolds \cup BrowseHolds
  \cup UNION {EngineHolds(c) \cup SettingsHolds(c) \cup KickHolds(c) \cup DisconnectHolds(c)
              \cup ShutdownHolds(c) \cup ToggleReadyHolds(c) \cup WatchHolds(c) : c \in Code}

-----------------------------------------------------------------------------
(* Goroutines *)

LockInit ==
  /\ ahead = [x \in Caller |-> <<>>]
  /\ taken = [x \in Caller |-> {}]
  /\ queued = {}

Wants(x) == Head(ahead[x])

HasTaken(y, lock) == \E mode \in {"Read", "Write"} : [lock |-> lock, mode |-> mode] \in taken[y]

\* Whom x has to wait for: a writer for everybody, a reader for writers, those in the queue
\* included (Go's RWMutex lets no new reader past a writer that waits; readers that came
\* before it wait here too, which only adds circles).
Blockers(x) ==
  CASE Wants(x).mode = "Write" -> {y \in Caller : HasTaken(y, Wants(x).lock)}
    [] Wants(x).mode = "Read"  ->
         {y \in Caller : \/ [lock |-> Wants(x).lock, mode |-> "Write"] \in taken[y]
                         \/ y \in queued /\ Wants(y).lock = Wants(x).lock}
    [] OTHER -> {}

Enter(x) ==
  /\ ahead[x] = <<>>
  /\ \E h \in Holds : ahead' = [ahead EXCEPT ![x] = h]
  /\ UNCHANGED <<taken, queued>>

Lock(x) ==
  /\ ahead[x] # <<>> /\ Wants(x).mode # "Release" /\ Blockers(x) = {}
  /\ taken' = [taken EXCEPT ![x] = @ \cup {Wants(x)}]
  /\ ahead' = [ahead EXCEPT ![x] = Tail(@)]
  /\ queued' = queued \ {x}

Queue(x) ==
  /\ ahead[x] # <<>> /\ Wants(x).mode = "Write" /\ Blockers(x) # {}
  /\ x \notin queued
  /\ queued' = queued \cup {x}
  /\ UNCHANGED <<ahead, taken>>

Unlock(x) ==
  /\ ahead[x] # <<>> /\ Wants(x).mode = "Release"
  /\ taken' = [taken EXCEPT ![x] = {k \in @ : k.lock # Wants(x).lock}]
  /\ ahead' = [ahead EXCEPT ![x] = Tail(@)]
  /\ UNCHANGED queued

LockNext == \E x \in Caller : Enter(x) \/ Lock(x) \/ Queue(x) \/ Unlock(x)

LockSpec == LockInit /\ [][LockNext]_kvars

\* No callers wait for one another in a circle, nor for themselves: the manager's lock is
\* never taken inside a lobby's, a lobby's never inside an engine's, and nothing is locked
\* twice, over every pair of methods that can meet.
LocksNeverCircle ==
  \A S \in (SUBSET Caller) \ {{}} :
    \E x \in S : ahead[x] = <<>> \/ Blockers(x) \cap S = {}
=============================================================================
