# Verification of terminal-card

terminal-card is a card server reached over ssh. A player connects, gets a terminal UI, sits down
at a table, and plays cards against the others at it; finished matches go into a history and,
when they count, move the players' ratings.

This directory holds TLA+ models of the server, the TLC configurations that check them on small
instances, and proofs checked by TLAPS. Paths below are relative to the repository's root.

## 1. The system

### Components

| component | where | state it keeps | operations |
|---|---|---|---|
| turn engine | `internal/game/engine.go`, `state.go`, `action.go` | seats in order, leavers, cursor, override of the next turn, phase, winner, closed | Start, SubmitAction, RemovePlayer, Close, reads |
| turn clock | `internal/game/turnclock.go` | turn generation, armed timer, misses per player; goroutines of expired timers | rearm, expire, auto-play or remove, rearm after a refusal, recover from a panic of the rules |
| lobby manager | `internal/lobby/manager.go`, `lobby.go`, `player.go` | tables by code, index player to table; per table state, roster, ready set, engine | New, Join, Kick, Leave, ToggleReady, StartGame, Resume, Disconnect, settings, shutdown |
| disconnect grace | `internal/lobby/disconnect.go` | pending timers, seats being given up | arm, clear, beginExpire, tryCancel |
| match watcher and finalizer | `internal/lobby/lobby.go` (watchGameLocked), `finalize.go` | one goroutine per match; finalizers in flight | follow the feed, reopen the table, record the match |
| ssh sessions | `internal/ssh/server.go`, `auth.go` | slot per account with a generation; channels per connection | resume, Connect, take over, tear down, Release |
| match repository and ladder | `internal/repository/match.go`, `internal/elo/elo.go`, `internal/db/matches.go` | matches, placements, ratings, in a database | one transaction per finished match, damping of repeated pairings |
| user repository | `internal/repository/user.go`, `internal/db/users.go`, ... | users, keys, profiles | queries and upserts |
| event broadcaster | `internal/broadcaster/broadcaster.go` | bounded queues per subscriber; when one is full its oldest event goes | Subscribe, Broadcast, Close |
| public lobby browser | `internal/lobby/browse.go` | a cached list and its dirty flag | getCachedPublicLobbies, invalidatePublicCache |
| rules of the games | `internal/game/{poker,uno,crazyeight,hearts,ginrummy}`, `shed.go` | the cards | Start, Validate, Apply, leave and timeout hooks |
| deck, registry, bound engine | `internal/deck`, `internal/game/{registry,rules,bound,player}.go` | cards; a map filled at start-up | - |
| rate limiter | `internal/ratelimit` | windows per key, at most so many keys | Allow |
| process lifecycle | `cmd/server/main.go` | signals, listeners | start, drain, stop |
| terminal UI | `internal/tui` | screens | calls the manager and the engines |
| HTTP API, catalogue, configuration, metrics, load generator | `internal/{httpapi,catalog,config,observability}`, `cmd/loadtest` | - | reads |

### How they interact

A *session* (one goroutine) resumes its seat, claims its account's slot, runs the UI, and tears down: seat
first, then slot. The UI calls the *lobby manager*, whose methods take `Manager.mu` and inside it
`Lobby.mu`, and call the engine only after dropping both. `StartGame` builds an *engine*, subscribes
a *watcher* to its *broadcaster* and starts it. Sessions submit moves to the engine under the
engine's own mutex; so does the *turn clock*, in a goroutine of each expired timer, which takes the
mutex twice. The engine tells everybody through the broadcaster. The watcher turns an idle removal
into a departure from the roster, and the end of the match into a reopened table and a call to the
*finalizer*, which hands the standings to the *match repository*. A session that drops in the middle of a
match leaves a *grace timer* behind, which gives the seat up from a goroutine of its own. A
shutdown drains the held seats, ends the sessions, and finally refuses new finalizers.

### What is hard about it

Everything that matters happens between two holds of a lock: a timer that has fired and can no
longer be stopped; a departure of which one side knows and the other does not yet; a teardown that
checked who owns the slot and acts on it later; a table that reopens while its engine still has
events under way; a shutdown in the middle of any of this. `PROJECT.json` lists these places
under `hazards`, each at its line with the properties that watch it.

What makes each component correct:

- *engine and clock*: an expired timer acts only on the turn it was armed for; a playing table always
  has a clock and a stopped one never; the turn is always somebody's; the end is announced once, last,
  to everybody who listens, unless the rules cannot say how the match stands; nobody is lost from the standings.
- *lobby manager*: roster, index and engine agree about who sits where, up to departures and removals under way;
  a seat is held only in the middle of a match, and every held seat is resumed or given up; every
  match that was announced to have ended is recorded, and rated only if it counts.
- *ssh sessions*: one slot per account, the capacity holds, no slot is stranded, a displaced session
  ends, and a teardown does not touch what its successor has taken over.
- *ladder*: a rating moves only by what the history says; repeated pairings move ratings only up to the cap,
  however their transactions interleave; no points appear or vanish; transactions do not deadlock; what is erased stays erased.
- *games*: no card is lost or doubled and no chip made or lost; the turn is somebody's who can and must act; the clock
  always finds a legal move; pots and knocks are settled as the rules of the game have it; whoever leaves is placed below whoever
  stayed, and a leaver never blocks or shortens the match of the others.
- *event feed*: what a slow reader loses is its oldest events. *Browse cache*: an invalidation is not lost. *Rate limiter*: nobody gets
  more than the limit through, and nobody waits without reason. *Locks of the lobby*: nobody waits in a circle.

## 2. The modules

| module | code it stands for | what it is |
|---|---|---|
| `Outcomes` | the contract between engine and lobby, as operators | what a move or a departure may make of a match |
| `Match` | the same contract, as a specification | who is seated, one end for a reason that fits, a seated winner, nothing after the end |
| `Engine` | `engine.go`, `turnclock.go`, parts of `state.go`, `action.go` | one table's engine with its clock's goroutines, the rules left open |
| `Deck`, `Table` | `deck/`, `state.go`, `rules.go`, the engine's part around every hook | a table with real rules: seats, cursor, piles, hands, standings and places |
| `Shed`, `Uno`, `CrazyEights` | `shed.go`, `uno/`, `crazyeight/` | the shedding games |
| `Hearts` | `hearts/` | passing, tricks, scoring |
| `Melds`, `GinRummy` | `ginrummy/` | melds and layoffs; the phases of a hand and of a match |
| `Poker` | `poker/rules.go`, `poker/streets.go` | betting, pots, showdowns, leavers |
| `Games` | `registry.go` | the five games over one table, and what all of them owe the players |
| `Evaluator` | `poker/evaluator.go` | how seven cards are ranked, against a reference |
| `Tables` | `manager.go`, `lobby.go`, `disconnect.go`, `finalize.go`, the shutdown in `main.go` | all tables, with sessions, grace timers, watchers and main as goroutines |
| `LockOrder` | every method of `manager.go`, `lobby.go`, `browse.go`, `finalize.go` and `engine.go` that locks | who locks what inside what |
| `Browse` | the browse cache in `manager.go` | scans that overlap each other and every write that invalidates them |
| `Broadcaster` | `broadcaster/` | bounded feeds, walked subscriber by subscriber |
| `Limiter` | `ratelimit/limiter.go` | the sliding window, its sweep and its eviction |
| `Sessions` | `ssh/server.go` | the tracker and the sessions' handlers, over the seat of one account |
| `Elo`, `Ratings` | `elo/elo.go`, `repository/match.go`, `DeleteAccount` in `repository/user.go` | the rating arithmetic; finalizes and erasures as transactions, statement by statement |
| `EngineProofs`, `TablesProofs`, `RatingsProofs`, `PokerProofs`, `EvaluatorProofs` | | proofs about the module they are named after |
| `GamesProofs` | | what any game proves with: seats and cursor, standings and places, a move and a departure as steps of `Match`; Uno and Crazy Eights; Gin Rummy; Hearts |
| `ServiceProofs` | | the event feed, the browse cache, the rate limiter, the locks and the ssh sessions |
| `DataLemmas` | | lemmas about data, for all of them: a row of seats without one, cursors, least and greatest elements, sums of functions, sets in order |
| `MCEngine`, `MCTables`, `MCSessions`, `MCRatings`, `MCServices`, `MCParts` | | values, bounds and symmetry sets for TLC |

They meet at the engine's contract. `Outcomes` says, of a match as a value, what a move (`Played`) and a departure (`Left`) may turn it into. `Match` is the machine that does just that. `Engine` implements `Match` for any rules
(`KeepsPromise`, proved), and the games implement it with theirs (`KeepsMatch`: who is `ToSet(players)` to `Table` are the seats of `Match`). `Tables` has no engine of its own: a match of `Tables` may become whatever
`Outcomes` allows (`PlayEnds`, `GiveUpSeat`), so what is shown of the lobby holds for every engine that implements `Match`. `Sessions` has of the lobby manager only what a session's seat needs,
nowhere / at a waiting table / in a match, and off / armed / expiring for its hold; `Tables` has the rest. `Tables` makes each
hold of a lock one step; that the holds themselves cannot block one another is `LockOrder`. `Engine` and `Tables` take the event feed for one that keeps the order
and loses no end of a match; `Broadcaster` says why they may.

### Engine

All methods of the engine hold one mutex from beginning to end, so each is one action:
`Start` (and `StartFails`), `SubmitAction`, `RemovePlayer`, `Close` with `CloseFeed` after the unlock. An armed timer
that expires becomes a member of `timeouts`: a goroutine with the generation it was armed for. It takes the
mutex to resolve the turn (`ResolveStale`, `ResolveIdle`, `ResolveNoMove`, `ResolveAutoPlay`, `ResolvePanics`), drops it, and takes it again
to settle (`GapStale`, `TakeSeat`, `AutoPlay`, their failing forms, `Rearm`, `Recover`). Any other action may happen
in between. `Timer.Stop` cannot recall a goroutine that exists, so nothing removes one from outside.

The card game is nondeterministic: whether a move is legal, whether it ends the match, whom the rules
name next (`Overrides`), whether a hook fails or panics. This is more than any registered game does, so what
holds here holds for each. Abstractions to know of:

- A refused call changes nothing and is not a step.
- A hook that writes `CurrentTurn` writes a seat it also puts into `OverrideNextTurn`, as the registered games do (`HookCursors`).
- A hook may panic on the clock's goroutine wherever that goroutine calls one: in `TimeoutAction` and the hooks before it (`ResolvePanics`), while a move is validated or applied, in `CheckWinCondition` after the move was announced, in `Standings` after the
  table was set to finished, in `TurnTimeout` after the old timer was stopped (`AutoPlayPanics`, `RearmPanics`), and at the same places of a removal (`TakeSeatPanics`, `TakeSeatPanicsLate`). What the hold did before the panic stays done: `FinishUnranked` is a `finishGameLocked` that `Standings`
  cut short, `ApplyNextTurnUntimed` an `applyNextTurnLocked` that armed nothing. `fault` remembers a panic over the standings, `Recover` is the deferred recover, and `RecoverPanics` the panic of `Standings` inside it, which ends the process: nothing in the model runs after it (`Running`).
  No registered game's hook is known to panic; the model does not rely on it.
- A panic of the rules inside a session's own call unwinds that session and is not modelled.
- All registered games implement the timeout hook, so the clock is armed for every turn.
- `emitted` is the set of events of the latest step: their order within one hold is left out.
- `rearm` after a refused auto-play compares no generation in the code, and in the model neither.

### Tables

One action is one hold of `Manager.mu` (with the lobby locks inside). What a call still has to do after it is
in `todo`, a list of holds per goroutine: `LeaveLobby(p)` for example leaves behind
`NotifyEngine(p, g)`, then `RemoveLobby(t)` if the table is empty, then `CloseEngine(g)`. Goroutines are the players' sessions, the
callbacks of their grace timers, a watcher per match, and main. `pending`, `strays` and `firing` are the three places
a grace timer can be: in the map, armed although the map has forgotten it, and fired and waiting for the lock.

Abstractions: settings of a waiting table, lobby event channels, codes, the join limiter and the browser's cache
are left out; every match is a ranked one, and may end in any way `Outcomes` allows: won, broken, forfeited, abandoned, announced to nobody because the feed was closed, or announced to nobody because the rules panicked over the standings; a player has one session at a time (takeovers
belong to `Sessions`); callbacks of one player's timers are taken one after the other; the engine's `Close` is one step;
feeds do not overflow (an end is the last event of a feed, `EndIsLastEvent`, and a full feed drops
its oldest, `NewestKept`; only an idle removal could be lost, behind 256 unread events); the stop of finalizers stands for
waiting for them, and the timeouts of the shutdown are not modelled. `FindLobbyByPlayer`'s repair of a stale index entry is
not there: with `IndexSound` no entry is stale, and an entry that is missing (finding 3) is none it could repair.

Nothing is assumed about players: they click, drop and reconnect between any two holds of any goroutine, also while a seat of theirs is being given up. Two consequences are in the properties. `IndexSound` exempts players whose
entry the removal of a table they left has swept, and `HeldOnlyMidHand` speaks of players who are away; what the comments promise without these is not so (findings 3 and 8).

### LockOrder

A method of the manager, a lobby or an engine is a set of *holds*: the locks it takes inside one another before it holds none. `Enter` starts any hold on a goroutine,
`Lock`, `Queue` and `Unlock` are Go's `Mutex` and `RWMutex`: a writer waits for everybody, a reader for writers and for writers that queue before it, which is how two readers and
a writer can deadlock. A goroutine may stop between any two of its steps. Since a goroutine that holds nothing may as well be a new one, what a method does after its first hold is a hold of its own.
The mutant `ToggleReadyInside` is the bug the comment at `lobby.go:281` warns of.
Early returns lock a part of what the full way locks. The registry's lock is only read once the games are registered, the limiter's and the ssh tracker's are taken
with no other lock inside, and the callbacks of `Frame` (the views) only copy: all left out.

### Table and the games

In `Table` a call of the engine is one step, as its mutex makes it, and the rules are the code's. What follows a move (`AfterMove`) and a departure (`AfterLeave`), the end, the standings and the places are shared; each game has its own actions, one per kind of move and hook, and its own `extra`, as `State.Extra` has.
A shuffled pile is a set whose next card is any of its cards, so every shuffle is explored without one. What a move may be is the rules' `Validate`; what a refused
move does is nothing. The clock is not an actor here: `ClockCanPlay` says that the move `TimeoutAction` would submit is legal whenever somebody is on turn.

- *Uno, Crazy Eights*: opening (a first card that acts), playing with skips, reversals and forced draws, drawing with the reshuffle, a leaver whose hand goes back under the stock, the count of passes that ends a match
  nobody can move in. `TimeoutAction` of both draws, which is always legal.
- *Hearts*: passing left, right, across and keeping, the first trick, breaking hearts, trick and hand scoring, shooting the moon, several hands. The deals are fixed ones chosen for the cases of the rules.
  A leaver ends the match.
- *Gin Rummy*: drawing, taking, discarding, knocking, gin, undercut, the wall and the caps on turns and hands. There is no leave hook: who leaves forfeits.
- *Poker*: blinds, checks, calls, raises with the short all-in that does not reopen the betting, streets, side pots, refunds, uncontested and all-in hands, several hands with busts, leavers who are all in and stay in the
  contest. A showdown ranks hands in any way; that seven cards are ranked rightly is `Evaluator`. The errors of a deck that runs out cannot happen (2 * 9 + 8 <= 52) and are left out with the refund that follows them.

`Melds` and `Evaluator` state the code's search and, beside it, a reference that tries everything: every split of both hands and every layoff, every five of the cards.

### Broadcaster, Limiter, Browse

`Broadcaster`: a broadcast holds the lock from `Begin` to its last `Deliver`, one step per subscriber, and three when the buffer is full (`TrySend` fails, `MakeRoom`, `Resend`); a subscriber receives without the lock between any two of them. Events that are
still in the buffer of a closed channel can be received.

`Limiter`: a call of `Allow` is one step (`Admit`, `Refuse`); time passes in ticks and a timestamp is an age. A slice of timestamps is a function from the numbers of its admissions
to their ages: the code filters a slice and measures it and never looks at its order, and by their numbers a log and the history can be compared admission by admission. Map iteration at the key limit evicts any other key.

`Browse`: a scan takes the set of lobbies and lowers the dirty flag in one hold, reads lobby by lobby, and stores in another. `alone` remembers whether any other scan overlapped: see finding 12.

### Sessions

A session goes through `Resume` (building the model resumes the seat), `Connect` or `ConnectFull`, `HangUp` on whom it
displaced, its player's commands, `Ends`, and the teardown `CheckOwner`, `Disconnect`, `Vacate`, `ReleaseSlot`. Each is one hold of the tracker's or
the manager's lock. A session connects at most once and generations are never reused, so the session itself is
the generation.

A displaced program goes on until its channel is seen to be closed, and `New` and `JoinLobbyByCode` ask only who the player is. So it may sit down after its successor has given the seat up, and its own
teardown, no longer the owner, leaves the seat unattended (finding 7). `stray` is a history variable: the accounts that sit on a seat taken that way. `SeatAccounted` exempts them, and no others but the accounts a full server turned away; nothing is assumed about
what displaced sessions do.

Left out: authentication and registration, channels per connection, panic reports, the shutdown, kicks (they are in `Tables`).

### Ratings

A finalize goes through `Begin`, `GetOrCreateGame`, `LockPairing` (once per seat), `SeedRankingRows`, `FetchRanking` (once per row),
`UpdateRankings` or `NoRankingRow`, and `Commit`; a casual match has only the first two and the last. An erasure is `DeleteAccount`, `DeleteRanking` per
game, `Anonymise`. Each is one statement, or the lock of one row in a statement that locks several. `RollBack` may come at any time and stands for the
deadline of the finalizer and for errors of the database. The isolation is Postgres' default, READ COMMITTED: a statement sees what
others had committed when it began, a locking one the latest version of each row it gets, and what a transaction wrote is its own until it commits.
Where an inserted row would conflict with one a running transaction has inserted, it waits; the pairing locks
make sure that nobody does. A row of `users` is shared by whoever inserts a ranking for it, and renaming it, a change to a unique column, excludes them.

Locks that are taken in the last statements, with nothing left to wait for, are taken and released in the commit. The order of commits is
the order of creation for matches that share a player, as the pairing locks are held from before the one to after the other; `Age` takes the oldest match out of
the window of 24 hours. The bootstrap (soft-deleted rows that are revived) is left out: nothing soft-deletes a ranking or a game.
Two accounts whose advisory keys collide only wait for each other and are left out too.

`Elo` computes in parts of a point, `Unit` of them, where the code has floats; `Points` is the rounding to whole points that the code
stores. The logistic curve is a parameter, `Expected`, of which the module assumes only its range. `Ordered`, `FromAbove` and
`FromBelow` are the loop of `Calculate`: a seat is first moved by its pair with the one above, and what it then has is what the next pair's cap looks at.
Places are those the engine gives: whoever is tied is a run of neighbours.

There is no fairness in `Ratings`; its one question about progress, whether transactions wait in a circle, is the invariant `NoCircularWait`.
A thing to know that is no property here: an erasure between the seeding and the locking read of a finalize takes a ranking away that the seed had found, and
`NoRankingRow` rolls the whole table's match back. The comment at `match.go:223` takes such a miss for a soft-deleted row.

## 3. What is checked

State counts are TLC's distinct states.

| run | configuration | instance | shows |
|---|---|---|---|
| `engine_races` | `MCEngine.cfg` | two seats, two calls from outside, two misses, an override out of range; 919,461 | the clock: `TurnFence`, `TurnIsTimed`, `OnlyIdleRemoved`, `NoDoublePlay`, `EndIsLastEvent`; a silent table ends (`SilentTableEnds`) |
| `engine_seats` | `MCEngineSeats.cfg` | three seats, one call; 397,853 | `ResultSound`, `TurnSurvivesLeave`, and that `Engine` implements `Match` (`KeepsPromise`) |
| `tables` | `MCTables.cfg` | two players, two tables, a match, broken rules, two drops, a shutdown, as `MCScope` combines them; 1,690,774 | `IndexSound`, `SeatsFollowRoster`, `HeldOnlyMidHand`, `ExpiryClaimed`, `NoHoldAfterDrain`, `InterruptedUnrated` |
| `tables_live` | `MCTablesLive.cfg` | two players, a table, a match, one drop, fairness; 128,016 | `AnnouncedEndSettles`, `HeldSeatResolves` |
| `services` | `MCServices.cfg` | three sessions of two accounts and one slot, fairness; or three users, two games, three finalizes and an erasure over three connections, a ladder of 0 to 6; 688,117 | `TrackerSound`, `SeatAccounted`, `DisplacedEnds`; `CapHolds`, `TransfersSound`, `NoCircularWait`, `LadderFollowsHistory` |
| `parts` | `MCParts.cfg` | each game from its opening, a poker hand out of the middle of a match, the evaluator, the feed, the limiter, the browse cache, three goroutines and their locks; 264,509 | see below |
| `tables_stale_timer` | `MCTablesGrace.cfg` | two matches, two drops | finding 1 |
| `tables_abandoned` | `MCTablesAbandoned.cfg` | two players, a match | finding 2 |
| `tables_index` | `MCTablesIndex.cfg` | two players, two tables | finding 3 |
| `sessions_full_server` | `MCSessionsFull.cfg` | two accounts, one slot | finding 4 |
| `sessions_takeover` | `MCSessionsTakeover.cfg` | one account, two sessions | finding 5 |
| `ratings_erased` | `MCRatingsErased.cfg` | the transactions of `services` with two connections | finding 6 |

`parts` is one run over parts that do not call one another, and so is `services`: the initial states pick one, and a behaviour stays with it.

| property | of | says |
|---|---|---|
| `CardsKept` | Uno, Crazy Eights, Hearts, Gin | stock, pile and hands share out the deck, or the points charged are those of the cards that are out of play |
| `PassesMeanStuck` | Uno, Crazy Eights | a pass stands only while there is no card left to draw |
| `LeaveKeepsTurn` | Uno, Crazy Eights | a leaver's turn goes to the neighbour in the direction of play, any other turn stays |
| `ClockCanPlay` | Hearts, Gin, Poker | the clock's own move is legal, in every phase |
| `KnockIsFair` | Gin | a knock is settled as over every split of both hands and every layoff |
| `ChipsKept`, `TurnOwes`, `PaidFairly` | Poker | no chip is made or lost; who is on turn owes an action; nobody wins more than matched, the best hand no less |
| `PlacesRight`, `KeepsMatch` | all games | places of leavers and ties; the table implements `Match` |
| `EvaluatorIsBest` | Evaluator | counting finds the best five of seven |
| `NewestKept` | Broadcaster | only the oldest events are dropped |
| `LimitHolds` | Limiter | at most the limit in a window, unless evicted; no needless refusal |
| `InvalidationSticks` | Browse | a cached list is what is on offer |
| `LocksNeverCircle` | LockOrder | nobody waits in a circle |

### Bounds

`MaxCalls` counts calls of sessions and of the lobby on one engine. Two are enough to put a call into each of the two
gaps of a clock goroutine, or two into one; the steps of the clock itself are not bounded. With `MaxMissedTurns = 2` a player
can miss a turn, be auto-played, and miss the one that costs the seat. Three seats are the least for which a leaver can sit
before, on and behind the cursor and a match goes on.
In `Tables` every player action that can repeat (join, ready, leave) is unbounded; `MaxDrops`, `Game` and `Endings`
bound what starts a new chain of goroutines, and `Deploys` says whether main may shut down. One drop already
meets a shutdown, the end of a match, a reconnect and its own expiry; a second one meets the callback of the first, or two seats that are held at once. Two tables are what
a wrong index needs. `MCScope` and `MCOneCall` are state constraints. `MCScope` gives a match one complication at a time: a second table, rules that break it, or two out of a drop, another drop and a shutdown.
Two goroutines are in the middle of a call at a time, any of them, at any of their holds: one that has looked and one that changes what it saw. With broken rules, a shutdown or two drops, one of the two is main.
`MCOneCall` lets one goroutine be in a call. These constraints bound what TLC explores and not what the code does: the proofs of section 4 are about `Spec`, without them, and cover what they leave out.
`tables_live` cannot use a state constraint, which would cut behaviours off. `LiveSpec` restricts what players do instead: one of them, `Dropper`, drops out and reconnects at any time, also in the middle of an expiry, and calls to the lobby start only while no other goroutine is in a call (`Calm`); a match stops
producing events while its watcher has two to read (`Terse`). None of these actions is fair, so nothing is forced by leaving them out.
Three sessions are a holder, one that displaces it and one that comes while the first tears
down; a capacity of 1 makes the second account the one that is turned away.
In `Ratings` three transactions are what a circle of locks over three seats needs, and with `PairCap = 1` two of them race
for the last match that counts while the third has aged or not. The five ladders are chosen for the boundaries of the arithmetic: new accounts, equals and a
tie, a pair at both ends of the scale, a pair at its floor, a provisional account between established ones. A point has five parts, an odd number as no
sum of floats lies exactly on a half. Three connections let all three finalizes run, or two and the erasure. Finalizes are alike; `MCInOrder` looks only at those behaviours in which they are numbered by their match and, of the same match, by which begins first: any other behaviour is one of these with other numbers.
In `parts`, Uno has three seats and six cards (a reversal, a skip and both forced draws among them, so that every draw soon meets an empty stock and every leaver a turned direction), Crazy Eights three seats and five cards;
Hearts four seats, twelve cards and two deals, one with hands that hold only hearts or only penalties and one to shoot the moon with, each dealt twice so that
a score can decide; Gin two seats, fourteen cards chosen so that the knocker has a set and a run and the defender cards for both, two hands. Poker has stacks of 3 under blinds of 1 and 2, where three seats are all in after one raise and every call is short, and two hands;
`LastHandOfFour` starts a table of four between the hands, with two stacks of 1 about to post blinds, for side pots of three levels. The evaluator draws up to seven of thirteen cards among which there are a straight flush, a wheel, two threes of a kind and a kicker.
The feed has two senders, two subscribers, buffers of two and four events: overflow twice, with a reader between any two steps. The limiter has three keys for two places; the cache two lobbies and two browsers.
Three goroutines and one lobby with its match close every circle of up to three locks; no method holds the locks of two lobbies, so a second lobby adds no circle, and the proof is for any number of both. `CallersAlike` takes
the goroutines for interchangeable, which they are to every property.
The engine, the tables, the games and the transactions may stop (finished, closed, nobody clicks), so deadlock is not an error in these runs.

### Fairness

`parts`, `engine_seats` and the runs of `Tables` other than `tables_live` ask for safety only, and so does what `services` asks of `Ratings`: nothing in them rests on fairness.

- `Engine`: weak fairness of the clock's steps and of closing the feed, for as long as the process lives. The Go runtime fires timers and
  runs goroutines, and a mutex is not held forever. No player has to move.
- `Tables`: each goroutine that has holds to take goes on; armed timers expire; main goes on with a shutdown it has begun. Nobody has to
  click, no match has to end by a move, no shutdown has to come. `HeldSeatResolves` rests on the expiry of timers alone.
- `Sessions`: each handler goes on, and a session whose channel was closed ends. The latter assumes that closing the channel reaches the program
  (`ForgetDisplaced`, the mutant that does not close it, breaks `DisplacedEnds`).

## 4. What is proved

TLAPS proves the following for every value of the constants that satisfies the modules' assumptions. Each component's proof goes the same way: an inductive invariant, a lemma per helper and per action
that keeps it, and a theorem per property that reads the property off it. What the proofs assume:

| assumption | says | because |
|---|---|---|
| `EngineAssumption` | the seats are distinct players, at least one; at least one miss; `None` is no seat and no fault | a roster has no doubles (`TypeCorrect` of `Tables`); a constant of the clock |
| `TablesAssumption` | a table has room for somebody; `None` is no player, table, match or reason; the bounds are of their kind | `MaxPlayers` of every registered game is at least two |
| `SessionsAssumption` | finitely many accounts | |
| `RatingsAssumption`, `EloAssumption`, `ExpectedAssumption` | finitely many users, with numbers for ids, and transactions; results with distinct seats; bounds of the scale in order; an expectation is a share of the K-factor | ids are numbers; standings list a player once (`PlacesRight`); the logistic curve lies between 0 and 1 |
| `LimiterAssumption`, `BufferAssumption` | a window, a table and a buffer that are not empty | `limiter.go` and `broadcaster.go` are called with constants |
| `TableAssumption` | no override is no seat (`None \notin Nat`) | a nil pointer |
| `PokerAssumption` | a small blind of at least one chip and no more than the big one, stacks above the big blind, at least one hand; finitely many players, with numbers for ids | constants of `poker/state.go`; ids are numbers |
| `EvaluatorAssumption` | a finite deck of cards with ranks, each rank and suit once, in at most four suits | a standard deck (`deck.go`) |
| `UnoDeckAssumption`, `EightsDeckAssumption` | the decks are finite | |
| `GinAssumption` | a finite deck of cards with ranks, each rank and suit once, in at most four suits; everybody is dealt cards of their own, and one more lies open; at least one hand | `beginHand` deals off one shuffled deck of 52 (`deck.go`); constants of `ginrummy/state.go` |
| `HeartsAssumption` | a finite deck with the 2 of clubs, cards with ranks; nobody passes more cards than they hold, and they pass one at least; points and the target are not negative | a standard deck; constants of `hearts/state.go` |

A table of a game starts with distinct players (`ShedSpec`, `GinSpec`, `HeartsSpec`, `PokerSpec`), as the lobby's roster has them (`TypeCorrect` of `Tables`), poker with at least two, which `StartGame` asks for, gin rummy with two, who are both dealt cards, and hearts with four, among whom every deal shares out the whole deck, the same number of cards to each (`MinPlayers`, `MaxPlayers`, `beginHand`).

### Engine

- `TypeCorrect`: `Spec => []TypeOK`. It rests on lemmas about the cursor (`ClampInRange`, `NextCursorType`) and about deleting a seat
  (`RemoveAtType`, `SeatsWithoutType`), one lemma per helper, one per group of actions.
- `ClockCorrect`: `Spec => []ClockInv`. No conjunct of `ClockInv` is inductive alone. `TurnFence` needs
  `OneOwner`: if two goroutines could share a generation, or a timer still be armed for one that a goroutine holds, one of them could
  clear the misses the other relies on without a new generation. `OneOwner` needs `ClockStopsWithTable`, because a timer left
  armed at a closed table would fire into a generation that no step retires. `ClockNeverLost` says who
  re-arms, and needs `OneOwner` for "the" goroutine of the current generation; `TurnIsSomeones` gives the
  fence a player to be on turn. The steps that change the turn all go through a new generation (`NewGeneration`), the others touch
  a goroutine that is not current (`BystanderStep`) or hand the generation on (`OwnerStep`).
- `FenceHolds`, `ClockFollowsTable`, `TurnNeverNobodys` read parts of it off.
- `IdleRemovalSafe`, `AutoPlaySafe`: the action properties `OnlyIdleRemoved` and `NoDoublePlay`. Lemmas (`...Said`) tell what
  each action can announce; only two can announce the event in question, and for those the fence supplies the rest.
- `LeaversPassTurn`: `TurnSurvivesLeave`. `RemovePlayer` and the clock's `TakeSeat` share a lemma about the shifted cursor: a leaver before it moves it back by one seat, one at it leaves it on the
  neighbour, one behind it does nothing. The property asks for somebody on turn before the step: a hook that panics at a table that is closed may have left the cursor anywhere, and the proof found that case.
- `ResultCorrect`: `Spec => []ResultSound`, with one lemma for a move, one for a departure and one for the clock: those are the three ways
  to a result, and the clock's panic handling is the one that ends a match without having looked at the rules. The invariant (`ResultInvariant`, `ResultInv`) adds what a table is that has not ended: nobody has won, nothing is amiss with its standings, and its
  feed is open unless it was closed. `ResultOfPanic` then shows that a panic over the standings costs the announcement and the winner and nothing else: who was dealt in is still accounted for.
  `EndIsLast` follows, as a match that was announced is finished, and a finished one announces nothing.
- `ImplementsMatch`: `Spec => KeepsPromise`, the refinement. Every action maps to a step of `Match` or to none: a move that ends the match to `Ends`, a departure from a running table to the match without the leaver or to what that may end in, both at once included
  (`MatchLeft`), and a panic over the standings to the end that nobody is told of (`MatchEndsMute`, `MatchLeftMute`). A move is accepted only while the feed is open (`MovesAtOpenTable`), which is why `Played` asks for it.

### Tables

What a goroutine has yet to do is in `todo`, so most of what is invariant there says of some state which hold is on its way (`Due`). A first half of the module proves once what each action is to the variables and to the
programs of the goroutines (`Every step, as what it does`); the proofs of the invariants take the steps from there.

- `TypeCorrect`: `Spec => []TypeOK`, and nobody is on a roster twice or one too many. A watcher knows the table of its match (`WatchedHosts`), and a match that has not ended has no reason (`Unended`), so what `Outcomes` makes of it is a match again.
- `InterruptedNeverRated`: `InterruptedUnrated`, from `EndsTold`: every mention of an end, in a feed, in a watcher's hands, on its way to the database, is of a match that ended, and of the reason it was announced with, if it was.
- `HoldsDrained`: `NoHoldAfterDrain`, from `DrainComing`: main has the drain of each seat held before the shutdown ahead of it, and none is held after.
- `PlacesAgree`: `IndexSound`, from `IndexInv`: the index points to open, listed tables that have the player on the roster; an open table is listed; the table somebody is about to remove is closed, with one player left on its roster, who is the one whose entry the removal may sweep (`Swept`), wherever
  they sit by then. What is closed and gone stays as it is (`GoneStays`).
- `ExpiriesClaimed`: `ExpiryClaimed`, which is inductive by itself: each goroutine that marks a hold as expiring puts the leave ahead of itself in the same hold, and the leave takes the mark with it.
- `HoldsMidHand`: `HeldOnlyMidHand`. A table reopens in the step that puts `ReleaseHeld` ahead of the same goroutine, and a list of held seats (`ExpireEach`) keeps whoever is away on it until their leave is under way.
- `RosterAndSeats`: `SeatsFollowRoster`, from `SeatsInv`: a seat of a running match that the roster lacks has a `NotifyEngine` on its way, a player indexed at the table whom the match lacks has an idle removal on its way, and an engine is told only of
  players who have left the roster, and while a table has a match nobody joins it (`SitsStill`, `SeatLeft`).

None of them assumes anything about what players, connections or rules do and when.

### Games

`GamesProofs` starts with what all games share. `ByScoreLists`: a standing by scores lists every seat once and in order; it goes back to `PutInPlace` (`DataLemmas`), that in a strict order of a finite set each place is somebody's. `LeaversFollow`: the leavers
are put behind those who are in the standings, each once. `EqualsShare`: along standings in which equals are neighbours, two share a place if and only if they are equals. `PlacesByScore` puts the three together for any rules that list the seats by a number. `SeatsAfterLeave`: a departure keeps a player from sitting twice or being seated and gone.
`MoveMatches` and `LeaveMatches`: what the engine does after a move, and after a departure, is a step of `Match`, if the rules name a winner who is seated.

*Uno and Crazy Eights*, for any players and any finite deck; `ShedSpec` is `Games` opened with either:

- `ShedCorrect`: `ShedInv` says that every card is in one place (`Shared`) and that a counted pass means an empty stock under a pile of one card (`Stuck`).
  The first is about sets alone and has a lemma per way a card goes (`SharedByDraw`, `SharedByPlay`, `SharedByLeave`, `SharedByDeal`). The second needs the first, and
  `DrawOfNothing`: a draw that yields nothing has turned the pile. A leaver's hand goes under the stock, which is why the count has to start again.
- `ShedCardsKept`, `PassesAreReal` read `CardsKept` (for these two games) and `PassesMeanStuck` off.
- `ShedSeated`: `SeatInv`, seats are given up for good, the cursor of a running match names a seat, and a leaver's hand is empty. The last is what makes leavers equals of one another, so that all of them share a place.
- `ShedLeaveKeepsTurn`: `LeaveKeepsTurn`. Clockwise the shifted cursor does it (`CursorAfterLeave`); the other way round Uno names the heir itself, in the numbers of the seats before or after the leaver is gone (`HeirSeat`), and `LeaveTurnKept` shows that it picked the right ones.
- `ShedPlacesRight`, `ShedKeepsMatch`: `PlacesRight` and `KeepsMatch`, with the lemmas above.

*Gin Rummy*, for any two players, any finite deck and deals, and any wall and caps:

- `GinCorrect`: `GinSpec => []GinInv`. Cards are nowhere twice (`GinApart`), and while a hand is played nowhere missing (`GinWhole`); after a knock the pile is gone, so the second asks for a hand in progress. `GinHand` ties the phase to the cards: whoever draws faces an open card, whoever
  discards holds two cards at least, one of them the card just taken if there is one. Drawing and discarding are one turn of one player, which is why the cursor is in it (`GinMoved`). The outcome of a knock has to be a number of points: every hand has a best split
  (`BestExists`), and what a defender is left with after laying off is a part of the hand (`LayoffsShrink`, along the passes of `applyLayoffs`, which `PassesExist` gives names to).
- `GinCardsAreKept` reads `CardsKept` off, `GinClockCanPlay` the part of `ClockCanPlay` on gin rummy, with `DiscardExists`: a best split leaves a dearest card that may go, or any other card does.
- `GinKnockIsFair`: `KnockIsFair`, for a deck of at most four suits with each card once. The search for melds finds all of them (`CandidatesAre`, from `SetIs` and `RunIs`: a set is three of a rank, a run three in a stretch), so the least deadwood of a split is the least there is. For layoffs, let `best` be
  the cards that some split and some layoff leave over, and `cards` the deadwood of that split. Whatever left `cards` was in reach of a meld on the table (`LaidIsInReach`): the cards between the two are in `cards` as well. Take the split that also melds the longest runs of
  `cards`, which share no card (`LongRunsSplit`, `LongRunsCover`). What it leaves is at most two cards away from a run on the table (`RunReaches`), and with runs first no card that borders a run goes to a set (`ByRunsKept`). So in the end nothing is left that was in reach
  (`RunsFirstIsBest`), and the defender keeps part of `best` and no more pips (`PipsOfPart`). The code takes the least over its splits, of which this is one, and what it lays off is a layoff of the reference (`RunsFirstIsOne`): `DefencesLeaveLeast`. `KnockStaysFair` carries the
  settlement over the steps in which it stands. This is the claim of the comment on `findAttach` (`layoffs.go:40`): runs before sets strands nothing.
- `GinPlacesRight`, `GinKeepsMatch`: `PlacesRight` and `KeepsMatch`.

*Hearts*, for any four players, any finite deck, any deals that share it out and any target:

- `HeartsCorrect`: `HeartsSpec => []HeartsInv`. While cards are passed (`OnTheWay`), each is in one hand or put aside by one player, and hands are short of what was put aside; `GiversAre` shows that each direction of the pass is a permutation of the seats, so that the last
  pass leaves full hands again (`AllPassed`), one of them with the 2 of clubs. While tricks are played (`HeartsTrick`), whoever has a card in the trick sits right behind the turn (`InSeatOrder`): only so does the trick fill up when the turn is back at its leader, and only so is
  nobody asked for a second card. Hands are then even (`HandsEven`), and a trick won moves its points from the table to the winner (`PointsAdd`, `ChargedToWinner`, `TrickWon`); somebody won it, as the led suit is on the table (`WinnerPlayed`).
- `HeartsCardsAreKept` reads `CardsKept` off. `HeartsClockCanPlay`: the part of `ClockCanPlay` on hearts. Three lowest cards exist (`LowestExist`, for any number of them), and whoever holds cards may play one (`SomethingPlayable`): the rules make no exception for a hand of nothing but hearts
  or penalties that they could not follow, and in the first trick clubs are led, which are no penalties.
- `HeartsPlacesRight`, `HeartsKeepsMatch`: `PlacesRight` and `KeepsMatch`.

*Poker*, for any players, stacks, blinds and bets:

- `PokerCorrect`: `Spec => []PokerInv`. Between hands, the pool is empty and at least two can play on. In the middle of a hand (`MidHand`), the pool is what the players put in, no bet exceeds what its player put in or what is to be called, whoever is broke is
  all in or has folded, whoever is all in put something in, and at least two contest the pot. `GoodTurn` says more of the turn than `TurnOwes` does: from whoever is on turn, those who owe an action sit before those who do not (`Run`). Without it a leaver could
  hand the turn to somebody who is done while another still owes.
- `PokerChipsKept`: `ChipsKept`. A showdown pays out exactly the pool, as the side pots are layers of what was put in: the proof changes the sum over players into one over layers and back, and splits a pot into equal shares and the odd chips (`RanksCount`).
- `PokerPaysFairly`: `PaidFairly`. What a hand is worth is measured against what its players brought, `Stack`: chips and what was put in. No bet, refund of a bet nobody could call, move of the dealer or departure changes that until the pool is paid out,
  so each way to end a hand has to be looked at once (`Pays`): everybody else folded, a showdown, a showdown after the rest of the board, a departure. At a showdown the layers up to a player's stake hold what everybody put in up to it, which is the stake and what the others matched of it (`LayersUpTo`, `MatchedIs`).
  Nobody takes from a layer above their stake, except that the dead money lies with the last layer anybody can win (`SidePotsHold`); the best hand takes every layer below whole, as all others who may win it are beaten (`TakesFairly`). A hand that starts and ends in one step, with everybody all in
  on the blinds, is measured against the chips before it (`BlindsOpen`, `BeginHandDeals`).
- `PokerTurnOwes`, `PokerClockCanPlay` read `TurnOwes` and, for poker, `ClockCanPlay` off.
- `PokerPlacesRight`: `PlacesRight`. A player's result is four numbers, compared one after the other; that is a strict order (`ExceedsOrders`), and the standings follow it (`RankedLists`).
- `PokerKeepsMatch`: `KeepsMatch`. Whoever is seated comes first in the standings while anybody is seated (`FirstSeated`).

The proof asked for `BigBlind < DefaultStack`, which is now part of `PokerAssumption` and true of the constants: with stacks that the blinds use up, the first hand could be over before anybody acts, and `Start` never asks whether the match is.

*The evaluator of poker* (`EvaluatorProofs`), for any deck of at most four suits and any five, six or seven cards of it:

- `CountingFindsTheBest`: `EvaluatorIsBest`. Nothing is compared hand by hand. Five cards, laid out as the reference groups them, lie in one of nine ways (`Shape`, `FaceFound`), and the way they lie says what they are worth at their face (`FaceOf`); what
  `classify` may answer is one of nine readings (`Reading`, `ReadingsAre`), of which it takes the highest that fits (`ClassifyIs`). Two facts then close the gap. Five cards of a shape make that class fit, with values no lower than theirs (`NoneWorthMore`, from a lemma per
  shape such as `HousesAtMost` and `SuitsAtMost`): a rank is counted no less in the whole than in the five, and cards laid out beside a class's ranks are no higher than its kickers (`LaidOut`, `NthIsHighest`). And some five cards have the shape and the values of the highest class that fits
  (`SomeWorthAsMuch`, again by class): the cards are there because ranks are counted, and lie in that shape and in no higher one because no class above fits (`KickersFall`: two kickers of one rank would be a pair). That there are at most seven cards is needed in one place, that they have five of one
  suit only (`OneFlushSuit`); that there are four suits, for no rank to be counted five times (`FourSuits`).

### LockOrder (`ServiceProofs`; no assumption: any number of goroutines, lobbies and matches)

- `LocksOrdered`: `LocksFollowed`. The locks have ranks: the manager's, then a lobby's, then an engine's, then the feeds'. `Ascends` says of a hold
  that each lock it takes ranks above those it has not released; it is preserved by taking a lock around a hold of greater ranks (`AroundAscends`) and by doing one thing after another
  (`ThenAscends`), and so holds of all methods (`HoldsAscend`). The invariant says the same of what a goroutine has taken and has yet to take.
- `LocksNeverDeadlock`: `LocksNeverCircle`. In a circle of goroutines, each waits for a lock of a greater rank than the one before it does (`HoldersWaitAbove`; a reader that waits for a queued
  writer waits with it for the same lock, whose holder is one step further), and there are four ranks.

### Browse, Broadcaster, Limiter (`ServiceProofs`)

- `NoInvalidationLost`: `InvalidationSticks`, for any number of lobbies and browsers, with `ScanFollows`: what a scan that nobody overlaps has found is what is on offer among what it has read, as long as the flag is down (`ScansCorrect`).
- `LatestEventsKept`: `NewestKept`, as a buffer is a run of consecutive events up to the last one sent to its subscriber (`Run`, part of `FeedCorrect`).
- `BroadcastNeverBlocks`: the second send of a broadcast, which has no default branch, always finds room, as only the sender that holds the lock fills buffers (`OneCall`, `NeverOverfull`); a feed cannot stop an engine.
- `LimitKept`: `LimitHolds`, from `LimiterCorrect`: a key's log, filtered, is its history, admission by admission, whatever was pruned, swept or evicted in between. That a new admission finds a number (`NewNumber`) is a pigeonhole argument.

### Sessions (`ServiceProofs`)

- `TypeCorrect`, and `TrackerCorrect`: `TrackerInv` is `SlotHasOwner`, `DisplacedSentAway` (who runs without a
  slot has been hung up on, or is about to be) and `CountBounded`. A takeover replaces an owner without
  changing the count; that the old owner is then sent away is what makes the count a bound on sessions.
- `TrackerKept`: `TrackerSound`, no slot without an owner and no more sessions than the capacity. The second follows because mapping a session nobody sends away to its
  account is an injection into the occupied slots.
- `SeatsMinded` and `SeatsAccountedFor`: `SeatAccounted`, from the invariant `SeatMinded`, which says who minds a seat
  without a hold, and that it is somebody who owns the slot or has not asked for one yet: exactly the sessions whose
  teardown will pass the ownership check. Both exempt the seats in `stray`.

### Ratings

- `CapKept`: `Spec => []CapHolds`, from `CapInv` (`PairsCounted`). `SeatsHeld` says that a ranked match keeps the advisory lock
  of each seat from its count to its commit; `RoomLeft`, that whoever is about to be paid still has room. A commit adds one match to the count of
  the pairs at its table, and `SeatsHeld` says that no other match with one of them has been counted. Everything else pays nobody (`NobodyPaid`).
- `NothingDeadlocks`: `Spec => []NoCircularWait`, from `LockInv` (`LocksCorrect`): every lock has a holder at a statement that can hold it, and what a
  transaction has locked comes before what it has yet to lock. `CircleIsEmpty` then goes through a supposed circle from the last statement to the first: recorders
  wait for nobody; a fetch could only wait for an erasure that waits for the same fetch, which holds the other's row; so no erasure and no seed is in it; each
  transaction that locks seats waits for one that waits for a greater seat, and a finite set of numbers has a greatest (`FiniteHasGreatest`, from
  the library's theorem on well-founded orders); the row of the game is held by one of those.
- `LadderIsHistory`: `LadderFollowsHistory`, from `BookInv` (`LadderCorrect`). What a match is about to write is what it would compute now (`DeltaCurrent`). That stays so because the rankings it read are there and locked (`ReadRowsHeld`), and the ones it inserted are
  nobody else's to see before the commit (`InsertedUnseen`): whoever could insert or write them would hold the advisory lock of the seat. `TypesKept` has the bounds of the ratings, and that no match is recorded twice.
- `TransfersAreSound`: `TransfersSound`, for any number of seats. The arithmetic it needs is about `Calculate`: `CapKeepsScale` (a capped transfer goes the way of the raw one and no further, and leaves both sides on the scale), `CalculateKeepsScale` (so does the whole loop),
  `ProvisionalsPayNothing`. The loop is a recursive function along the standings; what it keeps is shown of the first seat that would break it (the least element of a set of numbers), which does what an induction would. The sum of all changes is taken along the standings, where what a pair moves
  cancels; what is left is the rounding of each seat, at most half a point.

### Only model-checked, on the instances of section 3

- Liveness (`SilentTableEnds`, `AnnouncedEndSettles`, `HeldSeatResolves`, `DisplacedEnds`): out of the prover's reach, as ENABLED is. Every invariant and every action property that a run checks has a theorem, but for the six that a run refutes.

## 5. Where code and comments part

The first six are each the counterexample of a run whose one property states what a comment or a document says.

1. *A forgotten timer ends a later hold* (`GraceRunsOut`; `disconnect.go:40`). `beginExpire` deletes the pending timer without stopping
   it. The end of a match gives up a held seat; the player returns, starts another match and drops again within the first
   90 seconds, and the first timer gives up the new hold. Stopping the timer in `beginExpire` (or comparing timers in the callback) closes it.
2. *A match that everybody leaves is rated, or not recorded* (`AbandonedUnrated`; `finalize.go:120` against its comment, `lobby.go:599`). Leavers tell the engine after they have dropped the locks, so the last one out may close the feed before an earlier one's departure ends the match.
   A watcher that looks after that finds a finished match and a closed feed and passes on `EndReasonUnknown`, which is rated. One that looks before it finds a match that is not finished and returns: the match is not recorded at all, although
   `BeginShutdown`'s comment says that a hand that ends while sessions are torn down belongs in the history. `InterruptedUnrated` is about matches whose end was announced.
3. *Roster and index can part* (`IndexAgrees`; `manager.go:580` against the comment at `manager.go:325`). `RemoveLobby` deletes the index entry of everybody on the closed table's roster without looking at the table it names. A player whose seat the watcher or a grace timer gives up, and who opens a new table
   before the old one is removed, is then on a roster the index does not know. `IndexSound` says what remains true.
4. *A reconnect to a full server cancels its own grace* (`GraceLimitsAbsence`; `server.go:350`). The model is built, and the seat resumed, before the slot is claimed.
5. *A teardown outlives its check* (`TeardownSparesReplacement`; `server.go:607`). `Owns` and `DisconnectPlayer` are two holds of two locks; a takeover fits in between.
6. *An erased account gets a new rating* (`ErasedStaysErased`; `match.go:165`). Whoever leaves a running match may erase the account at once, and is still in
   the standings when the match is recorded: the finalize seeds a ranking for the `users` row that was kept. `docs/privacy.md` promises that every rating is gone.

Met while modelling, and without a run of their own. The steps of 7 to 12 are in the models, and the properties are stated so that they hold beside them:

7. *A displaced session sits down* (`server.go:607`). See Sessions in section 2; the seats are those in `stray`.
8. *A hold outlives its match* (`manager.go:546` against the comment at `manager.go:405`). A kick between the reopening of a table and the listing of its held seats takes the entry by which the seat would be listed; the kicked player is back online but came too late to cancel,
   opens another table, and loses that seat. `HeldOnlyMidHand` speaks of players who are away.
9. *A late idle event takes another seat* (`lobby.go:584`). The watcher's `LeaveLobby` names the player and not the table; a player who has left and sat down elsewhere before the event is read loses the new seat.
10. *A panic over the standings ends a table in silence* (`engine.go:396` against the comment at `turnclock.go:65`). `finishGameLocked` sets the phase first, so the recover takes the table for one that was dealt with. `ResultSound` and `Match` allow for this end and `Tables` goes on from it:
    a watcher that is told nothing waits until the last seat leaves and the feed is closed. Asking for the standings before setting the phase closes it.
11. *The recover can panic* (`turnclock.go:108` against the same comment). It calls `Standings`, outside of any recover: `RecoverPanics`, after which the process is gone. `SilentTableEnds` exempts it.
12. *Two scans can leave an older list behind* (`manager.go:643` against `manager.go:612`: "cannot produce a wrong list"). The scan that stores last may have read first. An invalidation between the two is taken by the scan that
   starts after it, stores first and is overwritten; the flag stays down, and the older list is served for up to the two seconds of the cache. `InvalidationSticks` is stated for lists stored by a scan that none overlapped.
13. *A leaver who loses all-in is ranked as busted at hand 0* (`poker/rules.go:258`, `poker/state.go:51`). `recordBustouts` looks at seated players only, so whoever leaves all in and loses that hand ranks below a leaver who had
   busted before. Places of leavers in `PlacesRight` are by the scores the code has.
14. *Bets of all-in leavers outlive their street* (`poker/streets.go:61`). `settleAndAdvance` clears `PlayerBets` of seated players only, so `largestCallableBet` counts an old street's bet for an all-in leaver and a raise may be staged that nobody can call; the showdown hands it back, as
   `ChipsKept` and `PaidFairly` show.

## 6. Not modelled, and what is left

Done: the engine and its contract; the tables; the sessions; the ladder; the locks of the lobby; the games, the evaluator, the feed, the limiter and the browse cache; proofs about each.

Left: the rest of the ssh server (authentication, registration, channels per connection), the settings a table carries into a match, the allocation of codes.

Not modelled, for good:

- the terminal UI (`internal/tui`): it keeps what a screen shows; the calls it makes are the actions of `Tables` and `Engine`;
- the HTTP API, the catalogue, configuration, metrics, traces: they read;
- the load generator, a client;
- the queries and upserts of the user repository other than `DeleteAccount`: what they do is the database's behaviour;
- how an address becomes a limiter's key (`netkey.go`), the builders of full decks, filtering and sorting of the browsed list: functions without state, which their unit tests cover.
