------------------------------ MODULE Sessions ------------------------------
(***************************************************************************)
(* The ssh sessions of the accounts (internal/ssh/server.go): admission by *)
(* the tracker, a newer session displacing an older one of the same        *)
(* account, and a teardown that gives up the lobby seat before the slot.   *)
(*                                                                         *)
(* A hold of SessionTracker.mu or of Manager.mu is one action, and every   *)
(* session is a goroutine of its own, so anything may happen between two   *)
(* holds.  The tracker's generations are unique and each session connects  *)
(* at most once, so a session stands for its generation.                   *)
(*                                                                         *)
(* Of the lobby manager there is what a session's seat needs: where the    *)
(* account sits and whether the seat is held for a reconnect.  Tables has  *)
(* the rest of it.                                                         *)
(***************************************************************************)
EXTENDS Naturals, FiniteSets

CONSTANTS
  Account,     (* the accounts                                               *)
  Session,     (* bound: the session channels opened in a run                *)
  Nobody,        (* no account, no session                                     *)
  MaxSessions  (* SessionTracker.maxSessions; 0 is unlimited                 *)

ASSUME SessionsAssumption ==
  /\ IsFiniteSet(Account)
  /\ Nobody \notin Account \cup Session
  /\ MaxSessions \in Nat

VARIABLES
  active,     (* SessionTracker.active: the session an account's slot is for *)
  progress,   (* how far a session's handler has come                        *)
  user,       (* sessionState.user                                           *)
  displaced,  (* whom a session's Connect displaced, until it hangs up       *)
  hungUp,     (* sessions whose channel a takeover has closed                *)
  seat,       (* where an account sits: nowhere, or at a table in this state *)
  hold,       (* its seat's disconnect grace                                 *)
  stray       (* history: seats taken for a session that had lost its slot   *)

tracker  == <<active, displaced, hungUp>>
sessions == <<progress, user>>
lobby    == <<seat, hold, stray>>
svars    == <<tracker, sessions, lobby>>

\* A session that has its slot and shows its player a screen.
Serving == {"Displacing", "Live"}
\* One whose handler has returned, and that still has the slot to give up.
Tearing == {"Ended", "Leaving", "Vacating", "Releasing"}
Stages  == {"New", "Built", "TurnedAway", "Done"} \cup Serving \cup Tearing

Owns(s) == active[user[s]] = s

Goes(s, st) == progress' = [progress EXCEPT ![s] = st]

-----------------------------------------------------------------------------
(* The lobby manager, as the seat of one account sees it *)

\* LeaveLobby: the grace is cleared with the seat.
Vacated(a) ==
  /\ seat' = [seat EXCEPT ![a] = "None"]
  /\ hold' = [hold EXCEPT ![a] = "Off"]
  /\ stray' = stray \ {a}

\* New or JoinLobbyByCode.  Nobody asks whether the session still has its slot.
TakeSeat(s) ==
  /\ progress[s] = "Live"
  /\ seat[user[s]] = "None"
  /\ seat' = [seat EXCEPT ![user[s]] = "Waiting"]
  /\ stray' = IF Owns(s) THEN stray ELSE stray \cup {user[s]}
  /\ UNCHANGED <<hold, tracker, sessions>>

LeaveLobby(s) ==
  /\ progress[s] = "Live"
  /\ seat[user[s]] # "None"
  /\ Vacated(user[s])
  /\ UNCHANGED <<tracker, sessions>>

MatchStarts(a) ==
  /\ seat[a] = "Waiting"
  /\ seat' = [seat EXCEPT ![a] = "InGame"]
  /\ UNCHANGED <<hold, stray, tracker, sessions>>

MatchEnds(a) ==
  /\ seat[a] = "InGame"
  /\ seat' = [seat EXCEPT ![a] = "Waiting"]
  /\ UNCHANGED <<hold, stray, tracker, sessions>>

\* The turn clock takes the seat of a player who idles.
IdleOut(a) ==
  /\ seat[a] = "InGame"
  /\ Vacated(a)
  /\ UNCHANGED <<tracker, sessions>>

\* expireLeave, by the grace timer or by the table that reopens: first the claim.
Expire(a) ==
  /\ hold[a] = "Armed"
  /\ hold' = [hold EXCEPT ![a] = "Expiring"]
  /\ UNCHANGED <<seat, stray, tracker, sessions>>

GiveUp(a) ==
  /\ hold[a] = "Expiring"
  /\ Vacated(a)
  /\ UNCHANGED <<tracker, sessions>>

-----------------------------------------------------------------------------
(* A session starts: sessionModel *)

\* The model is built before the slot is claimed, and building it resumes the seat:
\* ResumePlayer cancels the grace unless its expiry is already under way.
Resume(s, a) ==
  /\ progress[s] = "New"
  /\ Goes(s, "Built")
  /\ user' = [user EXCEPT ![s] = a]
  /\ hold' = IF hold[a] = "Armed" THEN [hold EXCEPT ![a] = "Off"] ELSE hold
  /\ UNCHANGED <<seat, stray, tracker>>

Occupied == {a \in Account : active[a] # Nobody}

\* Mutant: the capacity is compared too late by one.
AdmittedOneMore(a) ==
  active[a] # Nobody \/ MaxSessions = 0 \/ Cardinality(Occupied) <= MaxSessions

\* A takeover does not grow the count, so it is never refused.
Admitted(a) ==
  active[a] # Nobody \/ MaxSessions = 0 \/ Cardinality(Occupied) < MaxSessions

Connect(s) ==
  LET a == user[s] IN
  /\ progress[s] = "Built"
  /\ Admitted(a)
  /\ active' = [active EXCEPT ![a] = s]
  /\ displaced' = [displaced EXCEPT ![s] = active[a]]
  /\ Goes(s, IF active[a] = Nobody THEN "Live" ELSE "Displacing")
  /\ UNCHANGED <<hungUp, user, lobby>>

\* ErrServerFull: the handler returns without a slot; what Resume did stands.
ConnectFull(s) ==
  /\ progress[s] = "Built"
  /\ ~Admitted(user[s])
  /\ Goes(s, "TurnedAway")
  /\ UNCHANGED <<tracker, user, lobby>>

\* Mutant: the displaced session is forgotten, its channel left open.
ForgetDisplaced(s) ==
  /\ progress[s] = "Displacing"
  /\ displaced' = [displaced EXCEPT ![s] = Nobody]
  /\ Goes(s, "Live")
  /\ UNCHANGED <<active, hungUp, user, lobby>>

\* Outside the lock, because Close writes to the network.
HangUp(s) ==
  /\ progress[s] = "Displacing"
  /\ hungUp' = hungUp \cup {displaced[s]}
  /\ displaced' = [displaced EXCEPT ![s] = Nobody]
  /\ Goes(s, "Live")
  /\ UNCHANGED <<active, user, lobby>>

-----------------------------------------------------------------------------
(* A session ends: the deferred teardown, seat before slot *)

\* The player quits, the connection dies, the view panics, or the channel was closed.
Ends(s) ==
  /\ progress[s] = "Live"
  /\ Goes(s, "Ended")
  /\ UNCHANGED <<tracker, user, lobby>>

\* Mutant: the teardown touches nothing, whoever owns the slot.
CheckOwnerGivesUp(s) ==
  /\ progress[s] = "Ended"
  /\ Goes(s, "Done")
  /\ UNCHANGED <<tracker, user, lobby>>

\* releaseSession: a displaced session must touch neither seat nor slot.
CheckOwner(s) ==
  /\ progress[s] = "Ended"
  /\ Goes(s, IF Owns(s) THEN "Leaving" ELSE "Done")
  /\ UNCHANGED <<tracker, user, lobby>>

\* Mutant: a dropped session's seat is kept whatever its table is doing.
DisconnectKeeps(s) ==
  /\ progress[s] = "Leaving"
  /\ Goes(s, "Releasing")
  /\ UNCHANGED <<lobby, tracker, user>>

\* DisconnectPlayer: a seat in a match is held, any other is given up in a later hold.
\* A new timer beside an expiry under way is cleared by the leave that is to come.
Disconnect(s) ==
  LET a == user[s] IN
  /\ progress[s] = "Leaving"
  /\ \/ seat[a] = "None"    /\ Goes(s, "Releasing") /\ UNCHANGED hold
     \/ seat[a] = "Waiting" /\ Goes(s, "Vacating")  /\ UNCHANGED hold
     \/ /\ seat[a] = "InGame"
        /\ Goes(s, "Releasing")
        /\ hold' = IF hold[a] = "Off" THEN [hold EXCEPT ![a] = "Armed"] ELSE hold
  /\ UNCHANGED <<seat, stray, tracker, user>>

Vacate(s) ==
  /\ progress[s] = "Vacating"
  /\ Vacated(user[s])
  /\ Goes(s, "Releasing")
  /\ UNCHANGED <<tracker, user>>

\* Release frees the slot only for the generation that still has it.
ReleaseSlot(s) ==
  /\ progress[s] = "Releasing"
  /\ active' = IF Owns(s) THEN [active EXCEPT ![user[s]] = Nobody] ELSE active
  /\ Goes(s, "Done")
  /\ UNCHANGED <<displaced, hungUp, user, lobby>>

-----------------------------------------------------------------------------
SessionsInit ==
  /\ active = [a \in Account |-> Nobody]
  /\ progress = [s \in Session |-> "New"]
  /\ user = [s \in Session |-> Nobody]
  /\ displaced = [s \in Session |-> Nobody]
  /\ hungUp = {}
  /\ seat = [a \in Account |-> "None"]
  /\ hold = [a \in Account |-> "Off"]
  /\ stray = {}

\* What the session's goroutine goes on with by itself.
Handler(s) ==
  \/ Connect(s) \/ ConnectFull(s) \/ HangUp(s)
  \/ CheckOwner(s) \/ Disconnect(s) \/ Vacate(s) \/ ReleaseSlot(s)

Manager(a) == MatchStarts(a) \/ MatchEnds(a) \/ IdleOut(a) \/ Expire(a) \/ GiveUp(a)

SessionsNext ==
  \/ \E s \in Session : Handler(s) \/ Ends(s) \/ TakeSeat(s) \/ LeaveLobby(s)
  \/ \E s \in Session, a \in Account : Resume(s, a)
  \/ \E a \in Account : Manager(a)

\* Goroutines run, and a program whose channel was closed ends.  Nobody has to connect,
\* to leave, or to finish a match.
Fairness == \A s \in Session : WF_svars(Handler(s)) /\ WF_svars(s \in hungUp /\ Ends(s))

SessionsSpec == SessionsInit /\ [][SessionsNext]_svars /\ Fairness

-----------------------------------------------------------------------------
(* Properties *)

\* Every variable has its type, a handler that has got past loading its user knows whose
\* session it is, and one that displaces knows whom.
SessionsTypeOK ==
  /\ active \in [Account -> Session \cup {Nobody}]
  /\ progress \in [Session -> Stages]
  /\ user \in [Session -> Account \cup {Nobody}]
  /\ \A s \in Session : progress[s] # "New" => user[s] # Nobody
  /\ displaced \in [Session -> Session \cup {Nobody}]
  /\ \A s \in Session : progress[s] = "Displacing" => displaced[s] # Nobody
  /\ hungUp \subseteq Session
  /\ seat \in [Account -> {"None", "Waiting", "InGame"}]
  /\ hold \in [Account -> {"Off", "Armed", "Expiring"}]
  /\ stray \subseteq Account

\* sessionModel's comment on the order of its steps: a slot is never stranded.  The
\* session an occupied slot is for belongs to that account and is still running or still
\* has the slot to give up.
SlotHasOwner ==
  \A a \in Account : active[a] # Nobody =>
    user[active[a]] = a /\ progress[active[a]] \in Serving \cup Tearing

\* Somebody has closed the session's channel, or is about to.
SentAway(s) == s \in hungUp \/ \E r \in Session : progress[r] = "Displacing" /\ displaced[r] = s

\* A session that lost its slot is told to go by whoever took it.
DisplacedSentAway == \A s \in Session : progress[s] \in Serving /\ ~Owns(s) => SentAway(s)

CountBounded == MaxSessions # 0 => Cardinality(Occupied) <= MaxSessions

\* The inductive invariant behind the limits.
TrackerInv == SlotHasOwner /\ DisplacedSentAway /\ CountBounded

Welcome == {s \in Session : progress[s] \in Serving /\ ~SentAway(s)}

\* Connect's comment: the limits are not advisory.  Counting only sessions nobody has
\* hung up on, an account has at most one and the server at most MaxSessions, although
\* the tracker counts slots and teardowns lag behind takeovers.
CapacityHolds ==
  /\ \A r, s \in Welcome : user[r] = user[s] => r = s
  /\ MaxSessions # 0 => Cardinality(Welcome) <= MaxSessions

\* What sessionModel and Connect promise of the tracker together: no slot without an owner
\* that will give it up, and no more sessions than the limits allow.
TrackerSound == SlotHasOwner /\ CapacityHolds

\* Somebody is with the account, or is about to give up its seat for it.
Attended(a) ==
  \E s \in Session : user[s] = a /\ progress[s] \in {"Built"} \cup Serving \cup Tearing

\* A seat whose account has no session is held for a grace period, whatever the order of
\* resumes, takeovers and teardowns, unless a full server turned the account away, or a
\* session that had lost its slot sat down behind the teardown of the one that took it.
SeatAccounted ==
  \A a \in Account \ stray : seat[a] # "None" /\ ~Attended(a) =>
    hold[a] # "Off" \/ \E s \in Session : user[s] = a /\ progress[s] = "TurnedAway"

\* The session sees to its account's seat, or was kept from it by a full server.
Minds(s) ==
  \/ progress[s] \in {"Built", "TurnedAway"}
  \/ Owns(s) /\ progress[s] \in Serving \cup {"Ended", "Leaving", "Vacating"}

\* The inductive invariant behind SeatAccounted: who minds a seat owns the slot, or has
\* yet to ask for it.
SeatMinded ==
  \A a \in Account \ stray : seat[a] # "None" /\ hold[a] = "Off" =>
    \E s \in Session : user[s] = a /\ Minds(s)

\* A displaced session ends, so an account does not keep every session it ever opened.
DisplacedEnds ==
  \A s \in Session : (progress[s] \in Serving /\ ~Owns(s)) ~> progress[s] = "Done"

-----------------------------------------------------------------------------
(* Where the code falls short of what its comments say; the README tells how *)

\* DisconnectGrace's comment: it "is how long a mid-game seat survives its session".  A
\* seat in a match whose account has no session is held by a grace period.
GraceLimitsAbsence ==
  \A a \in Account : seat[a] = "InGame" /\ ~Attended(a) => hold[a] # "Off"

\* Release's comment: "A displaced session's teardown must not drop the replacement or
\* start a disconnect grace."  The session that gives up or holds a seat owns the slot.
TeardownSparesReplacement ==
  [][\A s \in Session :
       progress[s] \in {"Leaving", "Vacating"} /\ lobby' # lobby /\ progress'[s] # progress[s]
         => Owns(s)]_svars
=============================================================================
