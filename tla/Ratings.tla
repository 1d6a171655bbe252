------------------------------- MODULE Ratings -------------------------------
(***************************************************************************)
(* The recording of finished matches (internal/repository/match.go) and    *)
(* the erasure of accounts (internal/repository/user.go), as transactions  *)
(* of one Postgres database in its default isolation, READ COMMITTED.      *)
(*                                                                         *)
(* A statement is an action; where a statement locks one row after the     *)
(* other, each row is.  What a transaction wrote is its own until it       *)
(* commits.  A lock is kept to the end of the transaction.                 *)
(*                                                                         *)
(* Rows that a statement would lock with nothing left to wait for after it *)
(* (the match, its participants, the users row) are locked and released in *)
(* the commit.                                                             *)
(***************************************************************************)
EXTENDS Elo, SequencesExt

CONSTANTS
  User,        (* the accounts; their ids are ordered                        *)
  Game,        (* the catalogue's games                                      *)
  Tx,          (* bound: finalizes in a run                                  *)
  None,        (* no row, no holder of a lock                                *)
  Results,     (* how a match may end: [game, seats, places, ranked]         *)
  Ladders,     (* the rankings a run may start from                          *)
  Conns,       (* DBMaxOpenConnections                                       *)
  PairCap,     (* maxSamePairingPerDay (3 in the code)                       *)
  Provisional, (* provisionalMatches (5 in the code)                         *)
  Leavers      (* bound: the accounts that may be erased in a run            *)

Row == [elo : MinRating..MaxRating, played : Nat]

ASSUME RatingsAssumption ==
  /\ User \subseteq Int /\ IsFiniteSet(User)
  /\ IsFiniteSet(Tx)
  /\ Tx \cap User = {} /\ None \notin Tx \cup User \cup Row \cup Results
  /\ \A r \in Results :
       /\ r.game \in Game
       /\ r.seats \in Seq(User) /\ r.seats # <<>> /\ IsInjective(r.seats)
       /\ r.places \in Seq(Nat \ {0}) /\ Len(r.places) = Len(r.seats)
       /\ r.ranked \in BOOLEAN
  /\ Ladders \subseteq [User \X Game -> Row \cup {None}]
  /\ Conns \in Nat \ {0}
  /\ PairCap \in Nat /\ Provisional \in Nat
  /\ Leavers \subseteq User

VARIABLES
  ranking,  (* the rankings, by user and game                                *)
  history,  (* the recorded matches, oldest first, by their transactions     *)
  aged,     (* how many of them are more than 24 hours old                   *)
  stage,    (* the next statement of a transaction                           *)
  result,   (* the match it records                                          *)
  seeded,   (* the users whose ranking it has inserted                       *)
  delta,    (* the elo_delta it writes for each user                         *)
  paid,     (* whether it moves ratings: ranked and not damped               *)
  gameRow,  (* who has locked the row of a game                              *)
  seatLock, (* who holds the advisory lock of a user                         *)
  rowLock,  (* who has locked a ranking: a finalize, or a user's erasure     *)
  erasing,  (* how far the erasure of a user has come                        *)
  doomed    (* the rankings an erasure has found to delete, by game          *)

locks    == <<gameRow, seatLock, rowLock>>
writes   == <<seeded, delta, paid>>
erasures == <<erasing, doomed>>
stored   == <<ranking, history, aged>>
vars     == <<stored, stage, result, writes, locks, erasures>>

Seats(t)  == ToSet(result[t].seats)
GameOf(t) == result[t].game
Running   == {t \in Tx : stage[t] \notin {"Idle", "Done", "Aborted"}}
Erasing   == {u \in User : erasing[u] = "Deleting"}

Least(S) == CHOOSE u \in S : \A v \in S : u <= v

\* Database/sql hands out at most so many connections; a transaction keeps its own.
FreeConn == Cardinality(Running) + Cardinality(Erasing) < Conns

To(t, st) == stage' = [stage EXCEPT ![t] = st]

Release(t) ==
  /\ gameRow' = [g \in Game |-> IF gameRow[g] = t THEN None ELSE gameRow[g]]
  /\ seatLock' = [u \in User |-> IF seatLock[u] = t THEN None ELSE seatLock[u]]
  /\ rowLock' = [r \in User \X Game |-> IF rowLock[r] = t THEN None ELSE rowLock[r]]

-----------------------------------------------------------------------------
(* Who has what a transaction, or the erasure of a user, needs for its next statement *)

Unlocked(t)  == {u \in Seats(t) : seatLock[u] # t}

\* The rows its locking read has yet to reach; it passes over one that was erased.
Unfetched(t) ==
  {u \in Seats(t) \ seeded[t] : ranking[<<u, GameOf(t)>>] # None /\ rowLock[<<u, GameOf(t)>>] # t}

\* Mutant: the seats are locked in the order of the standings.
NextInStandings(t) ==
  result[t].seats[Least({i \in DOMAIN result[t].seats : result[t].seats[i] \in Unlocked(t)})]

NextSeat(t) == Least(Unlocked(t))
NextRow(t)  == Least(Unfetched(t))

Blocking(t) ==
  CASE stage[t] = "Game"  -> {gameRow[GameOf(t)]}
    [] stage[t] = "Seats" -> {seatLock[NextSeat(t)]}
    [] stage[t] = "Seed"  -> {rowLock[<<u, GameOf(t)>>] : u \in Seats(t)}
    [] stage[t] = "Fetch" /\ Unfetched(t) # {} -> {rowLock[<<NextRow(t), GameOf(t)>>]}
    [] OTHER -> {}

\* Deleting the rankings waits for finalizes that hold one; renaming the user waits for
\* those that have inserted one, which takes a share of the users row.
BlockingErasure(u) ==
  {rowLock[<<u, g>>] : g \in doomed[u]} \cup {t \in Running : u \in seeded[t]}

WaitsFor(x) == (IF x \in Tx THEN Blocking(x) ELSE BlockingErasure(x)) \ {None, x}

-----------------------------------------------------------------------------
(* A finalize: FinalizeRankedMatch and RecordCasualMatch *)

\* A match is recorded by one transaction; who has left its table is in its standings.
Begin(t, r) ==
  /\ stage[t] = "Idle"
  /\ FreeConn
  /\ result' = [result EXCEPT ![t] = r]
  /\ To(t, "Game")
  /\ UNCHANGED <<stored, writes, locks, erasures>>

\* getOrCreateGame: DO UPDATE locks the row whether it was there or not.
GetOrCreateGame(t) ==
  /\ stage[t] = "Game"
  /\ WaitsFor(t) = {}
  /\ gameRow' = [gameRow EXCEPT ![GameOf(t)] = t]
  /\ To(t, IF result[t].ranked THEN "Seats" ELSE "Record")
  /\ UNCHANGED <<stored, result, writes, seatLock, rowLock, erasures>>

\* Mutant: the seats are not locked.
LockNothing(t) ==
  /\ stage[t] = "Seats"
  /\ To(t, "Seed")
  /\ UNCHANGED <<stored, result, writes, locks, erasures>>

\* lockPairing, in user-id order.
LockPairing(t) ==
  /\ stage[t] = "Seats"
  /\ WaitsFor(t) = {}
  /\ seatLock' = [seatLock EXCEPT ![NextSeat(t)] = t]
  /\ To(t, IF Cardinality(Unlocked(t)) = 1 THEN "Seed" ELSE "Seats")
  /\ UNCHANGED <<stored, result, writes, gameRow, rowLock, erasures>>

Unranked(t) == {u \in Seats(t) : ranking[<<u, GameOf(t)>>] = None}

\* Inserts the rankings that are missing and locks none that is there, but waits for an
\* erasure that has got to one of them.
SeedRankingRows(t) ==
  /\ stage[t] = "Seed"
  /\ WaitsFor(t) = {}
  /\ seeded' = [seeded EXCEPT ![t] = Unranked(t)]
  /\ To(t, "Fetch")
  /\ UNCHANGED <<stored, result, delta, paid, locks, erasures>>

\* fetchRankings: FOR UPDATE, in user-id order.
FetchRanking(t) ==
  /\ stage[t] = "Fetch"
  /\ Unfetched(t) # {}
  /\ WaitsFor(t) = {}
  /\ rowLock' = [rowLock EXCEPT ![<<NextRow(t), GameOf(t)>>] = t]
  /\ UNCHANGED <<stored, stage, result, writes, gameRow, seatLock, erasures>>

Missing(t) == Unranked(t) \ seeded[t]

\* A seat without a ranking: the whole match is rolled back.
NoRankingRow(t) ==
  /\ stage[t] = "Fetch"
  /\ Unfetched(t) = {}
  /\ Missing(t) # {}
  /\ To(t, "Aborted")
  /\ Release(t)
  /\ UNCHANGED <<stored, result, writes, erasures>>

Fresh == [elo |-> DefaultRating, played |-> 0]

\* The ranking t reads and updates.
Fetched(t, u) == IF u \in seeded[t] THEN Fresh ELSE ranking[<<u, GameOf(t)>>]

Recent == {history[i] : i \in (aged + 1)..Len(history)}

Together(u, v) == {t \in Recent : result[t].ranked /\ {u, v} \subseteq Seats(t)}

\* repeatedPairCountLast24h: the cap is reached by some pair at the table.
Damped(t) == \E u, v \in Seats(t) : u # v /\ Cardinality(Together(u, v)) >= PairCap

\* calculateNewElos
Players(t) ==
  [i \in DOMAIN result[t].seats |->
     LET u == result[t].seats[i] IN
     [id |-> u, place |-> result[t].places[i], rating |-> Fetched(t, u).elo * Unit,
      provisional |-> Fetched(t, u).played < Provisional]]

\* What each user of a table that is not damped gains: what is stored less what was.
Changes(t) ==
  LET table == Ordered(Players(t))
      new   == Calculate(table)
      At(u) == CHOOSE i \in DOMAIN table : table[i].id = u
  IN [u \in User |-> IF u \in Seats(t) THEN Points(new[At(u)]) - Fetched(t, u).elo ELSE 0]

Nothing == [u \in User |-> 0]

\* Mutant: a damped match leaves its deltas in the history.
DeltasAnyway(t) == Changes(t)

Deltas(t) == IF Damped(t) THEN Nothing ELSE Changes(t)

\* Count, compute, and update the rows it holds; the others' view of them is unchanged.
UpdateRankings(t) ==
  /\ stage[t] = "Fetch"
  /\ Unfetched(t) = {}
  /\ Missing(t) = {}
  /\ delta' = [delta EXCEPT ![t] = Deltas(t)]
  /\ paid' = [paid EXCEPT ![t] = ~Damped(t)]
  /\ To(t, "Record")
  /\ UNCHANGED <<stored, result, seeded, locks, erasures>>

\* recordMatchTx, and the commit of everything.
Commit(t) ==
  /\ stage[t] = "Record"
  /\ history' = Append(history, t)
  /\ ranking' = IF ~result[t].ranked THEN ranking
                ELSE [r \in User \X Game |->
                        IF r[2] = GameOf(t) /\ r[1] \in Seats(t)
                        THEN LET old == Fetched(t, r[1]) IN
                             [elo    |-> IF paid[t] THEN old.elo + delta[t][r[1]] ELSE old.elo,
                              played |-> old.played + 1]
                        ELSE ranking[r]]
  /\ To(t, "Done")
  /\ Release(t)
  /\ UNCHANGED <<aged, result, writes, erasures>>

\* The deadline of finalizeFinishedGame, or an error of the database.
RollBack(t) ==
  /\ t \in Running
  /\ To(t, "Aborted")
  /\ Release(t)
  /\ UNCHANGED <<stored, result, writes, erasures>>

-----------------------------------------------------------------------------
(* The erasure of an account: DeleteAccount *)

\* The delete finds the rankings that are committed when it starts.
DeleteAccount(u) ==
  /\ u \in Leavers
  /\ erasing[u] = "No"
  /\ FreeConn
  /\ erasing' = [erasing EXCEPT ![u] = "Deleting"]
  /\ doomed' = [doomed EXCEPT ![u] = {g \in Game : ranking[<<u, g>>] # None}]
  /\ UNCHANGED <<stored, stage, result, writes, locks>>

DeleteRanking(u, g) ==
  /\ erasing[u] = "Deleting"
  /\ g \in doomed[u]
  /\ rowLock[<<u, g>>] = None
  /\ rowLock' = [rowLock EXCEPT ![<<u, g>>] = u]
  /\ UNCHANGED <<stored, stage, result, writes, gameRow, seatLock, erasures>>

\* The users row is renamed, and everything is committed.
Anonymise(u) ==
  /\ erasing[u] = "Deleting"
  /\ \A g \in doomed[u] : rowLock[<<u, g>>] = u
  /\ WaitsFor(u) = {}
  /\ ranking' = [r \in User \X Game |-> IF r[1] = u /\ r[2] \in doomed[u] THEN None ELSE ranking[r]]
  /\ rowLock' = [r \in User \X Game |-> IF rowLock[r] = u THEN None ELSE rowLock[r]]
  /\ erasing' = [erasing EXCEPT ![u] = "Erased"]
  /\ UNCHANGED <<history, aged, stage, result, writes, gameRow, seatLock, doomed>>

-----------------------------------------------------------------------------
\* The oldest match falls out of the window of 24 hours.
Age ==
  /\ aged < Len(history)
  /\ aged' = aged + 1
  /\ UNCHANGED <<ranking, history, stage, result, writes, locks, erasures>>

Init ==
  /\ ranking \in Ladders
  /\ history = <<>>
  /\ aged = 0
  /\ stage = [t \in Tx |-> "Idle"]
  /\ result = [t \in Tx |-> None]
  /\ seeded = [t \in Tx |-> {}]
  /\ delta = [t \in Tx |-> Nothing]
  /\ paid = [t \in Tx |-> FALSE]
  /\ gameRow = [g \in Game |-> None]
  /\ seatLock = [u \in User |-> None]
  /\ rowLock = [r \in User \X Game |-> None]
  /\ erasing = [u \in User |-> "No"]
  /\ doomed = [u \in User |-> {}]

Finalize(t) ==
  \/ GetOrCreateGame(t) \/ LockPairing(t) \/ SeedRankingRows(t)
  \/ FetchRanking(t) \/ NoRankingRow(t) \/ UpdateRankings(t) \/ Commit(t)

Erase(u) == Anonymise(u) \/ \E g \in Game : DeleteRanking(u, g)

Next ==
  \/ \E t \in Tx : Finalize(t) \/ RollBack(t)
  \/ \E t \in Tx, r \in Results : Begin(t, r)
  \/ \E u \in User : DeleteAccount(u) \/ Erase(u)
  \/ Age

Spec == Init /\ [][Next]_vars

-----------------------------------------------------------------------------
(* Properties *)

\* Every variable keeps its type, the rankings their bounds; a transaction that has begun
\* knows its match.
TypeOK ==
  /\ ranking \in [User \X Game -> Row \cup {None}]
  /\ history \in Seq(Tx) /\ IsInjective(history)
  /\ aged \in 0..Len(history)
  /\ stage \in [Tx -> {"Idle", "Game", "Seats", "Seed", "Fetch", "Record", "Done", "Aborted"}]
  /\ result \in [Tx -> Results \cup {None}]
  /\ \A t \in Tx : stage[t] # "Idle" => result[t] # None
  /\ seeded \in [Tx -> SUBSET User]
  /\ delta \in [Tx -> [User -> Int]]
  /\ paid \in [Tx -> BOOLEAN]
  /\ gameRow \in [Game -> Tx \cup {None}]
  /\ seatLock \in [User -> Tx \cup {None}]
  /\ rowLock \in [User \X Game -> Tx \cup User \cup {None}]
  /\ erasing \in [User -> {"No", "Deleting", "Erased"}]
  /\ doomed \in [User -> SUBSET Game]

\* The recent matches of two users that moved ratings.
PaidTogether(u, v) == {t \in Together(u, v) : paid[t]}

\* lockPairing's comment: two tables that share players must not both read an undamped
\* count.  In any 24 hours at most PairCap matches between the same two players move
\* ratings, whatever games they are played in and however their finalizes interleave.
CapHolds == \A u, v \in User : u # v => Cardinality(PaidTogether(u, v)) <= PairCap

\* A ranked match with all its seats locked.
Counting(t) == stage[t] \in {"Seed", "Fetch"} \/ (stage[t] = "Record" /\ result[t].ranked)

SeatsHeld == \A t \in Tx : Counting(t) => \A u \in Seats(t) : seatLock[u] = t

\* Who is about to be paid was counted when there was room, and there still is.
RoomLeft ==
  \A t \in Tx : stage[t] = "Record" /\ result[t].ranked /\ paid[t] =>
    \A u, v \in Seats(t) : u # v => Cardinality(PaidTogether(u, v)) < PairCap

\* Why the cap holds: what was counted cannot change before it is committed.
CapInv == SeatsHeld /\ RoomLeft /\ CapHolds

Recorded(t) == stage[t] # "Done" /\ stage'[t] = "Done"

\* FinalizeRankedMatch's comment: "ELO and history cannot diverge".  A rating moves by
\* what the match that is recorded in the same step says of it, counted from the value
\* everybody else saw, and by nothing else; a match is counted whether it moved or not.
LadderFollowsHistory ==
  [][\A u \in User, g \in Game :
       LET old == IF ranking[<<u, g>>] = None THEN Fresh ELSE ranking[<<u, g>>]
           now == {t \in Tx : Recorded(t) /\ result[t].ranked /\ result[t].game = g /\ u \in Seats(t)}
       IN ranking'[<<u, g>>] # ranking[<<u, g>>] /\ ranking'[<<u, g>>] # None =>
            \E t \in now : now = {t} /\ ranking'[<<u, g>>] = [elo |-> old.elo + delta[t][u], played |-> old.played + 1]]_vars

\* Player.Provisional's comment: an established player never gains from a fresh account.
\* At a table of nothing but fresh accounts there is nothing to gain.
FreshPaysNobody ==
  \A t \in Tx, u \in User : stage[t] = "Record" /\ delta[t][u] > 0 /\ Fetched(t, u).played >= Provisional =>
    \E v \in Seats(t) \ {u} : Fetched(t, v).played >= Provisional

\* Calculate's comment: rating is conserved up to the rounding of each seat, unless
\* established players meet provisional ones.
RatingConserved ==
  \A t \in Tx :
    /\ stage[t] = "Record" /\ result[t].ranked
    /\ (\A u \in Seats(t) : Fetched(t, u).played >= Provisional)
    => 2 * SumFunction(delta[t]) \in (-Len(result[t].seats))..Len(result[t].seats)

\* What a match is about to move: between rankings that kept their bounds, without new
\* points, and never from fresh accounts to established ones.
TransfersSound == TypeOK /\ FreshPaysNobody /\ RatingConserved

\* lockPairing's and fetchRankings' comments on the order of the locks: transactions never
\* wait for each other in a circle, which Postgres would end by aborting one, and with it
\* a match.  This holds with erasures, which lock rankings in no particular order.
NoCircularWait ==
  \A S \in SUBSET (Running \cup Erasing) : S # {} => \E x \in S : WaitsFor(x) \cap S = {}

\* Who can hold what, and at which statement.
Holding == {"Seats", "Seed", "Fetch", "Record"}

HoldersKnown ==
  /\ \A g \in Game : gameRow[g] # None => stage[gameRow[g]] \in Holding
  /\ \A u \in User : seatLock[u] # None =>
       u \in Seats(seatLock[u]) /\ stage[seatLock[u]] \in Holding
  /\ \A u \in User, g \in Game : LET x == rowLock[<<u, g>>] IN
       /\ x \in User => x = u
       /\ x \in Tx => u \in Seats(x) /\ g = GameOf(x) /\ stage[x] \in {"Fetch", "Record"}
  /\ \A t \in Tx : seeded[t] # {} => stage[t] \notin {"Idle", "Game", "Seats", "Seed"} /\ seeded[t] \subseteq Seats(t)

\* The seats that a transaction has locked come before those it has yet to lock.
SeatsInOrder ==
  \A t \in Tx : stage[t] = "Seats" =>
    Unlocked(t) # {} /\ \A u \in Seats(t) \ Unlocked(t), v \in Unlocked(t) : u < v

\* Why nothing waits in a circle.
LockInv == SeatsHeld /\ HoldersKnown /\ SeatsInOrder

-----------------------------------------------------------------------------
(* Where the code falls short of what the documents say *)

\* docs/privacy.md: an erasure "removes, permanently: every rating".
ErasedStaysErased ==
  \A u \in User, g \in Game : erasing[u] = "Erased" => ranking[<<u, g>>] = None
==============================================================================
