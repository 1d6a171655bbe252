------------------------------ MODULE Outcomes ------------------------------
(***************************************************************************)
(* What may become of a match: for a match as a value, the matches that a  *)
(* move or a departure can turn it into.  Match makes a state machine of   *)
(* it, which Engine and the games implement; Tables lets each of its games *)
(* do exactly this much.                                                   *)
(***************************************************************************)
CONSTANT None  (* nobody, no reason *)

\* The match is over.  Whoever listens is told why, and somebody seated has won.
Announced(m, why) ==
  {[m EXCEPT !.phase = "Finished", !.reason = IF m.feed THEN why ELSE None, !.winner = w] :
     w \in IF m.seats = {} THEN {None} ELSE m.seats}

\* The rules panicked over the standings: the match is over and nobody is told.
Unannounced(m) == IF m.seats = {} THEN {} ELSE {[m EXCEPT !.phase = "Finished"]}

\* A move ends the match: somebody seated won, or the rules broke.
Played(m) ==
  IF m.phase # "Playing" \/ ~m.feed THEN {}
  ELSE Announced(m, "RulesError") \cup Unannounced(m)
       \cup IF m.seats = {} THEN {} ELSE Announced(m, "Win")

\* The match ends without its last leaver: the reason says what they left behind.
LeftOver(m) ==
  CASE m.phase # "Playing" -> {}
    [] m.phase = "Playing" /\ m.seats = {} -> Announced(m, "Abandoned")
    [] m.phase = "Playing" /\ m.seats # {} ->
         Announced(m, "Win") \cup Unannounced(m)
         \cup IF \E p \in m.seats : m.seats = {p} THEN Announced(m, "Forfeit") ELSE {}

\* A finished match keeps its seats; any other goes on without p, or ends.
Left(m, p) ==
  LET n == [m EXCEPT !.seats = @ \ {p}] IN
  IF m.phase = "Finished" \/ p \notin m.seats THEN {} ELSE {n} \cup LeftOver(n)
=============================================================================
