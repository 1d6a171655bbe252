------------------------------- MODULE MCTables -------------------------------
(***************************************************************************)
(* Small instances of Tables for TLC.                                      *)
(***************************************************************************)
EXTENDS Tables, TLC

\* Players may trade places, and so may tables: no property names one of them.
MCSymmetry == Permutations(Player) \cup Permutations(Table)

Busy == {th \in Threads : ~Idle(th)}

\* Bounds.  Beside a match there is one more thing that matters: a second table, or rules
\* that break, or dropped sessions and a shutdown, up to two of these.  Two goroutines are
\* in the middle of a call at a time, and one of them is main where rules break, the process
\* shuts down or a second session drops.
MCScope ==
  LET second == \A t \in Table : state[t] # "Unused"
      broken == \E g \in Game : reason[g] = "RulesError"
      cuts   == drops + (IF shuttingDown THEN 1 ELSE 0)
  IN  /\ cuts <= IF second \/ broken THEN 0 ELSE 2
      /\ ~(second /\ broken)
      /\ Cardinality(Busy) <= 2
      /\ broken \/ shuttingDown \/ drops = 2 => Cardinality(Busy \ {Main}) <= 1

\* Bound: at most one goroutine is in the middle of a call.
MCOneCall == Cardinality(Busy) <= 1

\* Bounds, for liveness: one of the players, who are alike, drops out and comes back at any
\* time.  They call the lobby only while no goroutine is in a call and everyone is online
\* or the match is over.  Nobody need call at all: no fairness is touched.
Dropper == CHOOSE p \in Player : TRUE

Calm(p) ==
  /\ PlayerActs(p)
  /\ \/ p = Dropper /\ online' # online
     \/ online' = online /\ Busy = {} /\ (online = Player \/ \E g \in Game : phase[g] = "Finished")

\* Bound, for liveness: a match goes on only while its watcher has at most two events to read,
\* and nobody shuts the process down.
Terse(g) == MatchActs(g) /\ Len(unread'[g]) <= 2

LiveNext ==
  \/ \E p \in Player : Calm(p) \/ Step(Session(p)) \/ Expires(p) \/ TimerStep(p)
  \/ \E g \in Game : Terse(g) \/ WatcherStep(g)

LiveSpec == Init /\ [][LiveNext]_vars /\ Fairness
==============================================================================
