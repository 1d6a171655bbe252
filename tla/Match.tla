-------------------------------- MODULE Match --------------------------------
(***************************************************************************)
(* What a table's engine promises the lobby that started it: who is still  *)
(* seated, that the match ends once and for a reason that fits the seats,  *)
(* that the winner is somebody seated, and that nothing changes after the  *)
(* end.  Turns, cursors, clocks and goroutines are below this module;      *)
(* Engine implements it.                                                   *)
(***************************************************************************)
EXTENDS Outcomes

CONSTANT Roster  (* who is dealt in *)

VARIABLES
  seats,   (* who is seated                                              *)
  phase,   (* Waiting, Playing or Finished                               *)
  reason,  (* why it ended, None while it has not or nobody was told     *)
  winner,  (* who won, or None                                           *)
  feed     (* the event feed is open                                     *)

mvars == <<seats, phase, reason, winner, feed>>

Now == [seats |-> seats, phase |-> phase, reason |-> reason, winner |-> winner, feed |-> feed]

Becomes(m) ==
  /\ seats' = m.seats
  /\ phase' = m.phase
  /\ reason' = m.reason
  /\ winner' = m.winner
  /\ feed' = m.feed

Open ==
  /\ seats = Roster
  /\ phase = "Waiting"
  /\ reason = None
  /\ winner = None
  /\ feed = TRUE

Begin ==
  /\ phase = "Waiting"
  /\ seats # {}
  /\ Becomes([Now EXCEPT !.phase = "Playing"])

Ends == \E m \in Played(Now) : Becomes(m)

Leaves(p) == \E m \in Left(Now, p) : Becomes(m)

Silence == Becomes([Now EXCEPT !.feed = FALSE])

MatchNext == Begin \/ Ends \/ Silence \/ \E p \in Roster : Leaves(p)

MatchSpec == Open /\ [][MatchNext]_mvars
==============================================================================
