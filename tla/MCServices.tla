----------------------------- MODULE MCServices -----------------------------
(***************************************************************************)
(* Model-checking instances of the ssh sessions and of the recording of    *)
(* matches.  Neither calls the other: every behaviour exercises one of     *)
(* them, which "service" names, and leaves the other one's state alone.    *)
(***************************************************************************)
EXTENDS MCRatings, Sessions, TLC

VARIABLE service

MCInit ==
  /\ service \in {"sessions", "ratings"} /\ SessionsInit /\ Init
  /\ service = "sessions" => ranking = Ladder(None, None, None)

MCNext ==
  /\ UNCHANGED service
  /\ \/ service = "sessions" /\ SessionsNext /\ UNCHANGED vars
     \/ service = "ratings" /\ Next /\ UNCHANGED svars

MCSpec == MCInit /\ [][MCNext]_<<service, vars, svars>> /\ Fairness
=============================================================================
