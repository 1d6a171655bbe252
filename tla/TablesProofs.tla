---------------------------- MODULE TablesProofs ----------------------------
(***************************************************************************)
(* Proofs about the lobby manager, for any number of players, tables and   *)
(* matches.  A goroutine's program is a sequence of holds, and what the    *)
(* invariants say of a goroutine is which holds it has ahead of it; the    *)
(* lemmas up to TypeCorrect say what each step does to the variables and   *)
(* to those programs, and every later proof takes the steps from them.     *)
(***************************************************************************)
EXTENDS Tables, DataLemmas, FiniteSetTheorems

\* A goroutine has this hold ahead of it.
Has(th, hold) == hold \in ToSet(todo[th])

LEMMA HoldsByOp ==
  ASSUME NEW h \in Holds
  PROVE  /\ h.op = "LeaveLobby" => \E p \in Player : h = LeaveLobby(p)
         /\ h.op = "NotifyEngine" => \E p \in Player, g \in Game : h = NotifyEngine(p, g)
         /\ h.op = "RemoveLobby" => \E t \in Table : h = RemoveLobby(t)
         /\ h.op = "ReleaseGame" => \E t \in Table : h = ReleaseGame(t)
         /\ h.op = "ReleaseHeld" => \E t \in Table : h = ReleaseHeld(t)
         /\ h.op = "CloseEngine" => \E g \in Game : h = CloseEngine(g)
         /\ h.op = "ExpireEach" => \E held \in SUBSET Player : h = ExpireEach(held)
         /\ h.op = "LeaveEach" => \E held \in SUBSET Player : h = LeaveEach(held)
         /\ h.op = "FlipReady" => \E p \in Player, t \in Table : h = FlipReady(p, t)
         /\ h.op = "Finalize" => \E g \in Game, r \in EndReasons : h = Finalize(g, r)
         /\ h.op = "Persist" => \E g \in Game, r \in EndReasons : h = Persist(g, r)
BY DEF Holds, LeaveLobby, NotifyEngine, RemoveLobby, ReleaseGame, ReleaseHeld, CloseEngine,
       ExpireEach, LeaveEach, FlipReady, Finalize, Persist, DrainHeld

LEMMA HoldsAre ==
  /\ \A p \in Player : LeaveLobby(p) \in Holds
  /\ \A p \in Player, g \in Game : NotifyEngine(p, g) \in Holds
  /\ \A t \in Table : RemoveLobby(t) \in Holds /\ ReleaseGame(t) \in Holds /\ ReleaseHeld(t) \in Holds
  /\ \A g \in Game : CloseEngine(g) \in Holds
  /\ \A held \in SUBSET Player : ExpireEach(held) \in Holds /\ LeaveEach(held) \in Holds
  /\ \A p \in Player, t \in Table : FlipReady(p, t) \in Holds
  /\ \A g \in Game, r \in EndReasons : Finalize(g, r) \in Holds /\ Persist(g, r) \in Holds
  /\ DrainHeld \in Holds
BY DEF Holds, LeaveLobby, NotifyEngine, RemoveLobby, ReleaseGame, ReleaseHeld, CloseEngine,
       ExpireEach, LeaveEach, FlipReady, Finalize, Persist, DrainHeld

\* A hold says which it is and whom it is about.
LEMMA HoldFields ==
  /\ \A p : LeaveLobby(p).op = "LeaveLobby" /\ LeaveLobby(p).player = p
  /\ \A p, g : /\ NotifyEngine(p, g).op = "NotifyEngine"
               /\ NotifyEngine(p, g).player = p /\ NotifyEngine(p, g).game = g
  /\ \A t : RemoveLobby(t).op = "RemoveLobby" /\ RemoveLobby(t).table = t
  /\ \A g : CloseEngine(g).op = "CloseEngine" /\ CloseEngine(g).game = g
  /\ \A t : ReleaseGame(t).op = "ReleaseGame" /\ ReleaseGame(t).table = t
  /\ \A t : ReleaseHeld(t).op = "ReleaseHeld" /\ ReleaseHeld(t).table = t
  /\ \A held : ExpireEach(held).op = "ExpireEach" /\ ExpireEach(held).players = held
  /\ \A held : LeaveEach(held).op = "LeaveEach" /\ LeaveEach(held).players = held
  /\ \A p, t : FlipReady(p, t).op = "FlipReady" /\ FlipReady(p, t).player = p /\ FlipReady(p, t).table = t
  /\ \A g, r : Finalize(g, r).op = "Finalize" /\ Finalize(g, r).game = g /\ Finalize(g, r).reason = r
  /\ \A g, r : Persist(g, r).op = "Persist" /\ Persist(g, r).game = g /\ Persist(g, r).reason = r
  /\ DrainHeld.op = "DrainHeld"
BY DEF LeaveLobby, NotifyEngine, RemoveLobby, ReleaseGame, ReleaseHeld, CloseEngine,
       ExpireEach, LeaveEach, FlipReady, Finalize, Persist, DrainHeld

\* What is in short sequences.
LEMMA InSeq ==
  /\ ToSet(<<>>) = {}
  /\ \A a : ToSet(<<a>>) = {a}
  /\ \A a, b : ToSet(<<a, b>>) = {a, b}
BY DEF ToSet

LEMMA InConcat ==
  ASSUME NEW S, NEW s \in Seq(S), NEW u \in Seq(S)
  PROVE  s \o u \in Seq(S) /\ ToSet(s \o u) = ToSet(s) \cup ToSet(u)
<1>1. s \o u \in Seq(S) /\ Len(s \o u) = Len(s) + Len(u) /\ Len(s) \in Nat /\ Len(u) \in Nat
  OBVIOUS
<1>2. \A i \in 1..Len(s) : (s \o u)[i] = s[i]
  OBVIOUS
<1>3. \A i \in 1..Len(u) : (s \o u)[Len(s) + i] = u[i]
  OBVIOUS
<1>4. \A i \in 1..(Len(s) + Len(u)) : i \in 1..Len(s) \/ (i - Len(s) \in 1..Len(u) /\ i = Len(s) + (i - Len(s)))
  BY <1>1
<1>5. DOMAIN s = 1..Len(s) /\ DOMAIN u = 1..Len(u) /\ DOMAIN (s \o u) = 1..(Len(s) + Len(u))
  BY <1>1
<1>6. ASSUME NEW x \in ToSet(s) \cup ToSet(u) PROVE x \in ToSet(s \o u)
  <2>1. CASE x \in ToSet(s)
    BY <1>1, <1>2, <1>5, <2>1 DEF ToSet
  <2>2. CASE x \in ToSet(u)
    <3>1. PICK i \in 1..Len(u) : x = u[i]
      BY <1>5, <2>2 DEF ToSet
    <3>2. Len(s) + i \in 1..(Len(s) + Len(u))
      BY <1>1
    <3> QED BY <1>3, <1>5, <3>1, <3>2 DEF ToSet
  <2> QED BY <2>1, <2>2
<1>7. ASSUME NEW x \in ToSet(s \o u) PROVE x \in ToSet(s) \cup ToSet(u)
  <2>1. PICK i \in 1..(Len(s) + Len(u)) : x = (s \o u)[i]
    BY <1>5 DEF ToSet
  <2> QED BY <1>2, <1>3, <1>4, <1>5, <2>1 DEF ToSet
<1> QED BY <1>1, <1>6, <1>7

LEMMA InTail ==
  ASSUME NEW S, NEW s \in Seq(S), s # <<>>
  PROVE  /\ Head(s) \in S /\ Tail(s) \in Seq(S)
         /\ ToSet(s) = {Head(s)} \cup ToSet(Tail(s))
<1>1. /\ Head(s) \in S /\ Tail(s) \in Seq(S) /\ Len(s) \in Nat \ {0} /\ Head(s) = s[1]
      /\ Len(Tail(s)) = Len(s) - 1 /\ \A i \in 1..(Len(s) - 1) : Tail(s)[i] = s[i + 1]
  OBVIOUS
<1>2. DOMAIN s = 1..Len(s) /\ DOMAIN Tail(s) = 1..(Len(s) - 1)
  BY <1>1
<1>3. ASSUME NEW x \in ToSet(s) PROVE x \in {Head(s)} \cup ToSet(Tail(s))
  <2>1. PICK i \in 1..Len(s) : x = s[i]
    BY <1>2 DEF ToSet
  <2>2. i = 1 \/ (i - 1 \in 1..(Len(s) - 1) /\ i = (i - 1) + 1)
    BY <1>1
  <2> QED BY ZenonT(60), <1>1, <1>2, <2>1, <2>2 DEF ToSet
<1>4. ASSUME NEW x \in {Head(s)} \cup ToSet(Tail(s)) PROVE x \in ToSet(s)
  <2>1. CASE x = Head(s)
    BY <1>1, <1>2, <2>1 DEF ToSet
  <2>2. CASE x \in ToSet(Tail(s))
    <3>1. PICK i \in 1..(Len(s) - 1) : x = Tail(s)[i]
      BY <1>2, <2>2 DEF ToSet
    <3>2. i + 1 \in 1..Len(s)
      BY <1>1
    <3> QED BY <1>1, <1>2, <3>1, <3>2 DEF ToSet
  <2> QED BY <2>1, <2>2
<1> QED BY <1>1, <1>3, <1>4

\* th has taken the holds in "done" and the ones in "new" are ahead of it; nobody else moved.
Took(th, done, new) ==
  /\ \A o \in Threads : o # th => todo'[o] = todo[o]
  /\ \A h : /\ Has(th, h)' => h \in new \/ Has(th, h)
            /\ Has(th, h) => h \in done \/ Has(th, h)'
            /\ h \in new => Has(th, h)'

\* Going on: the hold that was taken is done, what it leaves behind comes next.
LEMMA GotoTodo ==
  ASSUME todo \in [Threads -> Seq(Holds)], NEW th \in Threads, ~Idle(th),
         NEW new \in Seq(Holds), Goto(th, new)
  PROVE  /\ todo' \in [Threads -> Seq(Holds)]
         /\ Hold(th) \in Holds /\ Has(th, Hold(th))
         /\ Took(th, {Hold(th)}, ToSet(new))
<1>1. todo[th] \in Seq(Holds) /\ todo[th] # <<>>
  BY DEF Idle
<1>2. /\ Hold(th) \in Holds /\ Tail(todo[th]) \in Seq(Holds)
      /\ ToSet(todo[th]) = {Hold(th)} \cup ToSet(Tail(todo[th]))
  BY <1>1, InTail DEF Hold
<1>3. /\ new \o Tail(todo[th]) \in Seq(Holds)
      /\ ToSet(new \o Tail(todo[th])) = ToSet(new) \cup ToSet(Tail(todo[th]))
  <2> DEFINE rest == Tail(todo[th])
  <2>1. rest \in Seq(Holds)
    BY <1>2
  <2> HIDE DEF rest
  <2>2. new \o rest \in Seq(Holds) /\ ToSet(new \o rest) = ToSet(new) \cup ToSet(rest)
    BY <2>1, InConcat
  <2> QED BY <2>2 DEF rest
<1>4. todo' = [todo EXCEPT ![th] = new \o Tail(todo[th])]
  BY DEF Goto
<1>5. todo'[th] = new \o Tail(todo[th])
  BY <1>4
<1>6. /\ todo' \in [Threads -> Seq(Holds)]
      /\ \A o \in Threads : o # th => todo'[o] = todo[o]
  BY <1>3, <1>4
<1>7. \A h : Has(th, h)' <=> h \in ToSet(new) \/ h \in ToSet(Tail(todo[th]))
  BY <1>3, <1>5 DEF Has
<1>8. \A h : Has(th, h) <=> h = Hold(th) \/ h \in ToSet(Tail(todo[th]))
  BY <1>2 DEF Has
<1> QED BY <1>2, <1>6, <1>7, <1>8 DEF Took

LEMMA CallTodo ==
  ASSUME todo \in [Threads -> Seq(Holds)], NEW th \in Threads,
         NEW new \in Seq(Holds), Call(th, new)
  PROVE  /\ todo' \in [Threads -> Seq(Holds)]
         /\ Took(th, {}, ToSet(new))
         /\ \A h : ~Has(th, h)
         /\ \A h : Has(th, h)' <=> h \in ToSet(new)
<1>1. todo[th] = <<>> /\ todo' = [todo EXCEPT ![th] = new]
  BY DEF Call, Idle
<1>2. todo'[th] = new /\ \A o \in Threads : o # th => todo'[o] = todo[o]
  BY <1>1
<1>3. todo' \in [Threads -> Seq(Holds)]
  BY <1>1
<1>4. \A h : (Has(th, h)' <=> h \in ToSet(new)) /\ ~Has(th, h)
  BY <1>1, <1>2, InSeq DEF Has
<1> QED BY <1>2, <1>3, <1>4 DEF Took

LEMMA DueIs == \A h : Due(h) <=> \E th \in Threads : Has(th, h)
BY InSeq DEF Due, Idle, Has

LEMMA DueIsNext == \A h : Due(h)' <=> \E th \in Threads : Has(th, h)'
BY InSeq DEF Due, Idle, Has

\* What is still to be done by anybody, when one goroutine went on and when none did.
LEMMA DueTook ==
  ASSUME NEW th \in Threads, NEW done, NEW new, Took(th, done, new)
  PROVE  \A h : /\ Due(h)' => h \in new \/ Due(h)
                /\ Due(h) => h \in done \/ Due(h)'
                /\ h \in new => Due(h)'
<1>1. \A o \in Threads : o # th => \A h : Has(o, h)' <=> Has(o, h)
  BY DEF Took, Has
<1> QED BY <1>1, DueIs, DueIsNext DEF Took

LEMMA DueSame ==
  ASSUME UNCHANGED todo
  PROVE  \A h : (Due(h)' <=> Due(h)) /\ \A th \in Threads : Has(th, h)' <=> Has(th, h)
BY DEF Due, Idle, Has

LEMMA WhenSeq ==
  ASSUME NEW cond \in BOOLEAN, NEW hold \in Holds
  PROVE  /\ When(cond, hold) \in Seq(Holds)
         /\ cond => ToSet(When(cond, hold)) = {hold}
         /\ ~cond => ToSet(When(cond, hold)) = {}
<1>1. CASE cond
  <2>1. When(cond, hold) = <<hold>>
    BY <1>1 DEF When
  <2>2. When(cond, hold) \in Seq(Holds) /\ ToSet(When(cond, hold)) = {hold}
    BY <2>1, InSeq
  <2> QED BY <1>1, <2>2
<1>2. CASE ~cond
  <2>1. When(cond, hold) = <<>>
    BY <1>2 DEF When
  <2>2. When(cond, hold) \in Seq(Holds) /\ ToSet(When(cond, hold)) = {}
    BY <2>1, InSeq
  <2> QED BY <1>2, <2>2
<1> QED BY <1>1, <1>2

LEMMA EachSeq ==
  ASSUME NEW held \in SUBSET Player
  PROVE  /\ Each(ExpireEach(held)) \in Seq(Holds)
         /\ ToSet(Each(ExpireEach(held))) = IF held # {} THEN {ExpireEach(held)} ELSE {}
         /\ Each(LeaveEach(held)) \in Seq(Holds)
         /\ ToSet(Each(LeaveEach(held))) = IF held # {} THEN {LeaveEach(held)} ELSE {}
<1>1. ExpireEach(held).players = held /\ LeaveEach(held).players = held
  BY DEF ExpireEach, LeaveEach
<1>2. ExpireEach(held) \in Holds /\ LeaveEach(held) \in Holds
  BY HoldsAre
<1> QED BY <1>1, <1>2, WhenSeq DEF Each

LEMMA ThreadsAre ==
  /\ \A p \in Player : Session(p) \in Threads /\ Timer(p) \in Threads
  /\ \A g \in Game : Watcher(g) \in Threads
  /\ Main \in Threads
  /\ \A p, q \in Player : Session(p) # Timer(q)
  /\ \A p \in Player, g \in Game : Session(p) # Watcher(g) /\ Timer(p) # Watcher(g)
  /\ \A p \in Player : Session(p) # Main /\ Timer(p) # Main
  /\ \A g \in Game : Watcher(g) # Main
  /\ \A g, f \in Game : Watcher(g) = Watcher(f) => g = f
  /\ \A p, q \in Player : Timer(p) = Timer(q) => p = q
BY DEF Threads, Session, Timer, Watcher, Main

\* Every step is one of these.
LEMMA NextCases ==
  ASSUME [Next]_vars
  PROVE  \/ \E p \in Player, t \in Table : New(p, t) \/ JoinLobbyByCode(p, t) \/ ToggleReady(p, t)
         \/ \E p, q \in Player : Kick(p, q)
         \/ \E p \in Player : \/ LeaveByChoice(p) \/ Disconnect(p) \/ Connect(p)
                              \/ TimerFires(p) \/ StrayFires(p) \/ TimerCallback(p)
         \/ \E th \in Threads : Step(th)
         \/ \E g \in Game : \/ PlayEnds(g)
                            \/ \E p \in Player : IdleOut(g, p)
                            \/ WatchIdle(g) \/ WatchEnd(g) \/ WatchClosed(g)
         \/ DrainHeldStep \/ LeaveEachStep \/ BeginShutdown \/ StopFinalizers
         \/ UNCHANGED vars
BY ThreadsAre DEF Next, PlayerActs, Expires, TimerStep, MatchActs, WatcherStep, MainStep

-----------------------------------------------------------------------------
(* Types *)

\* Whoever gives up a seat at a table is gone from its roster, and nobody else is.
LEMMA RosterLeft ==
  ASSUME TypeOK, NEW t \in Table, NEW p, OnRoster(p, t)
  PROVE  /\ RosterWithout(p, t) \in Seq(Player) /\ IsInjective(RosterWithout(p, t))
         /\ Len(RosterWithout(p, t)) <= MaxPlayers
         /\ ToSet(RosterWithout(p, t)) = ToSet(roster[t]) \ {p}
<1>1. /\ roster[t] \in Seq(Player) /\ IsInjective(roster[t]) /\ Len(roster[t]) <= MaxPlayers
      /\ Len(roster[t]) \in Nat /\ DOMAIN roster[t] = 1..Len(roster[t]) /\ MaxPlayers \in Nat
  BY TablesAssumption DEF TypeOK
<1>2. \E i \in 1..Len(roster[t]) : roster[t][i] = p
  BY <1>1 DEF OnRoster, ToSet
<1>3. PlaceOf(p, t) \in 1..Len(roster[t]) /\ roster[t][PlaceOf(p, t)] = p
  BY <1>2 DEF PlaceOf
<1>4. /\ RosterWithout(p, t) \in Seq(Player) /\ Len(RosterWithout(p, t)) = Len(roster[t]) - 1
      /\ IsInjective(RosterWithout(p, t))
      /\ ToSet(RosterWithout(p, t)) = ToSet(roster[t]) \ {p}
  BY <1>1, <1>3, RemoveAtType, RemoveAtSet DEF RosterWithout
<1> QED BY <1>1, <1>4

LEMMA OpenType ==
  ASSUME TypeOK, NEW p \in Player, NEW t \in Table, New(p, t)
  PROVE  TypeOK'
<1>1. /\ <<p>> \in Seq(Player) /\ IsInjective(<<p>>) /\ Len(<<p>>) <= MaxPlayers
  BY TablesAssumption DEF IsInjective
<1>2. roster' \in [Table -> Seq(Player)] /\ \A s \in Table : IsInjective(roster'[s]) /\ Len(roster'[s]) <= MaxPlayers
  BY <1>1 DEF New, TypeOK
<1> QED BY <1>2 DEF New, TypeOK, index, tables, grace, matches, ends, people

LEMMA JoinType ==
  ASSUME TypeOK, NEW p \in Player, NEW t \in Table, JoinLobbyByCode(p, t)
  PROVE  TypeOK'
<1>1. /\ Append(roster[t], p) \in Seq(Player) /\ IsInjective(Append(roster[t], p))
      /\ Len(Append(roster[t], p)) <= MaxPlayers
  <2>1. roster[t] \in Seq(Player) /\ IsInjective(roster[t]) /\ p \notin ToSet(roster[t])
        /\ Len(roster[t]) < MaxPlayers
    BY DEF JoinLobbyByCode, OnRoster, TypeOK
  <2>2. IsInjective(Append(roster[t], p))
    BY <2>1, AppendSet
  <2>3. Append(roster[t], p) \in Seq(Player) /\ Len(Append(roster[t], p)) = Len(roster[t]) + 1
        /\ Len(roster[t]) \in Nat
    BY <2>1
  <2> QED BY <2>1, <2>2, <2>3, TablesAssumption
<1>2. roster' \in [Table -> Seq(Player)] /\ \A s \in Table : IsInjective(roster'[s]) /\ Len(roster'[s]) <= MaxPlayers
  BY <1>1 DEF JoinLobbyByCode, TypeOK
<1> QED BY <1>2 DEF JoinLobbyByCode, TypeOK, index, tables, grace, matches, ends, people

LEMMA KickTarget ==
  ASSUME TypeOK, NEW p \in Player, NEW q \in Player, Kick(p, q)
  PROVE  playerLobby[p] \in Table /\ OnRoster(q, playerLobby[p])
<1> DEFINE t == playerLobby[p]
<1>1. t \in Table /\ q \in ToSet(Tail(roster[t])) /\ roster[t] \in Seq(Player)
  BY DEF Kick, TypeOK
<1>2. roster[t] # <<>>
  <2> SUFFICES ASSUME roster[t] = <<>> PROVE FALSE
    OBVIOUS
  <2>1. PICK i \in DOMAIN Tail(roster[t]) : TRUE
    BY <1>1 DEF ToSet
  <2> QED BY <2>1
<1> QED BY <1>1, <1>2, InTail DEF OnRoster

LEMMA KickType ==
  ASSUME TypeOK, NEW p \in Player, NEW q \in Player, Kick(p, q)
  PROVE  TypeOK'
<1> DEFINE t == playerLobby[p]
<1>1. t \in Table /\ OnRoster(q, t)
  BY KickTarget
<1>2. roster' \in [Table -> Seq(Player)] /\ \A s \in Table : IsInjective(roster'[s]) /\ Len(roster'[s]) <= MaxPlayers
  BY <1>1, RosterLeft DEF Kick, TypeOK
<1> QED BY <1>2 DEF Kick, TypeOK, index, tables, grace, matches, ends, people

\* A call whose holds are sound keeps the types, if that is all that happens.
LEMMA ReadyType ==
  ASSUME TypeOK, NEW p \in Player, NEW t \in Table, ToggleReady(p, t)
  PROVE  /\ TypeOK'
         /\ Took(Session(p), {}, (IF state[t] = "InGame" THEN {ReleaseGame(t)} ELSE {}) \cup {FlipReady(p, t)})
<1> DEFINE first == When(state[t] = "InGame", ReleaseGame(t))
           last == <<FlipReady(p, t)>>
<1>1. /\ first \in Seq(Holds)
      /\ ToSet(first) = IF state[t] = "InGame" THEN {ReleaseGame(t)} ELSE {}
  BY WhenSeq, HoldsAre
<1>2. last \in Seq(Holds) /\ ToSet(last) = {FlipReady(p, t)}
  BY HoldsAre, InSeq
<1> HIDE DEF first, last
<1>3. /\ first \o last \in Seq(Holds)
      /\ ToSet(first \o last) = ToSet(first) \cup {FlipReady(p, t)}
  BY <1>1, <1>2, InConcat
<1>4. Call(Session(p), first \o last) /\ Session(p) \in Threads
  BY ThreadsAre DEF ToggleReady, first, last
<1>5. todo' \in [Threads -> Seq(Holds)] /\ Took(Session(p), {}, ToSet(first) \cup {FlipReady(p, t)})
  BY <1>3, <1>4, CallTodo DEF TypeOK
<1> QED BY <1>1, <1>5 DEF ToggleReady, TypeOK, index, tables, grace, matches, ends, people

LEMMA ChoiceType ==
  ASSUME TypeOK, NEW p \in Player, LeaveByChoice(p)
  PROVE  TypeOK' /\ Took(Session(p), {}, {LeaveLobby(p)})
<1>1. <<LeaveLobby(p)>> \in Seq(Holds) /\ ToSet(<<LeaveLobby(p)>>) = {LeaveLobby(p)}
  BY HoldsAre, InSeq
<1>2. Call(Session(p), <<LeaveLobby(p)>>) /\ Session(p) \in Threads
  BY ThreadsAre DEF LeaveByChoice
<1>3. todo' \in [Threads -> Seq(Holds)] /\ Took(Session(p), {}, {LeaveLobby(p)})
  BY <1>1, <1>2, CallTodo DEF TypeOK
<1> QED BY <1>3 DEF LeaveByChoice, TypeOK, index, tables, grace, matches, ends, people

LEMMA DropType ==
  ASSUME TypeOK, NEW p \in Player, Disconnect(p)
  PROVE  /\ TypeOK'
         /\ \/ Holdable(playerLobby[p]) /\ Arm(p)
            \/ Took(Session(p), {}, {LeaveLobby(p)}) /\ UNCHANGED grace
            \/ UNCHANGED todo /\ UNCHANGED grace /\ playerLobby[p] = None
<1>1. <<LeaveLobby(p)>> \in Seq(Holds) /\ ToSet(<<LeaveLobby(p)>>) = {LeaveLobby(p)}
  BY HoldsAre, InSeq
<1>2. drops' \in 0..MaxDrops /\ online' \subseteq Player
  BY TablesAssumption DEF Disconnect, TypeOK
<1>3. CASE Holdable(playerLobby[p]) /\ Arm(p)
  BY <1>2, <1>3 DEF Disconnect, Arm, TypeOK, index, tables, grace, matches, ends, people
<1>4. CASE Call(Session(p), <<LeaveLobby(p)>>) /\ UNCHANGED grace
  <2>1. todo' \in [Threads -> Seq(Holds)] /\ Took(Session(p), {}, {LeaveLobby(p)})
    BY <1>1, <1>4, CallTodo, ThreadsAre DEF TypeOK
  <2> QED BY <1>2, <1>4, <2>1 DEF Disconnect, TypeOK, index, tables, grace, matches, ends, people
<1>5. CASE UNCHANGED todo /\ UNCHANGED grace /\ playerLobby[p] = None
  BY <1>2, <1>5 DEF Disconnect, TypeOK, index, tables, grace, matches, ends, people
<1> QED BY <1>3, <1>4, <1>5 DEF Disconnect

LEMMA TimersType ==
  ASSUME TypeOK, NEW p \in Player, Connect(p) \/ TimerFires(p) \/ StrayFires(p)
  PROVE  TypeOK' /\ UNCHANGED todo
<1>1. CASE Connect(p)
  BY <1>1 DEF Connect, TypeOK, index, tables, grace, matches, ends, people
<1>2. CASE TimerFires(p)
  BY <1>2 DEF TimerFires, TypeOK, index, tables, grace, matches, ends, people
<1>3. CASE StrayFires(p)
  BY <1>3 DEF StrayFires, TypeOK, index, tables, grace, matches, ends, people
<1> QED BY <1>1, <1>2, <1>3

LEMMA CallbackType ==
  ASSUME TypeOK, NEW p \in Player, TimerCallback(p)
  PROVE  /\ TypeOK'
         /\ \/ pending[p] = "Off" /\ UNCHANGED <<pending, expiring, todo>>
            \/ pending[p] # "Off" /\ Took(Timer(p), {}, {LeaveLobby(p)}) /\ BeginExpire(p)
<1>1. <<LeaveLobby(p)>> \in Seq(Holds) /\ ToSet(<<LeaveLobby(p)>>) = {LeaveLobby(p)}
  BY HoldsAre, InSeq
<1>2. firing' \in [Player -> Nat]
  BY DEF TimerCallback, TypeOK
<1>3. CASE pending[p] = "Off"
  BY <1>2, <1>3 DEF TimerCallback, TypeOK, index, tables, grace, matches, ends, people
<1>4. CASE pending[p] # "Off"
  <2>1. Call(Timer(p), <<LeaveLobby(p)>>) /\ BeginExpire(p)
    BY <1>4 DEF TimerCallback
  <2>2. todo' \in [Threads -> Seq(Holds)] /\ Took(Timer(p), {}, {LeaveLobby(p)})
    BY <1>1, <2>1, CallTodo, ThreadsAre DEF TypeOK
  <2>3. /\ pending' \in [Player -> {"Off", "Armed", "Fired"}] /\ expiring' \subseteq Player
        /\ strays' \in [Player -> Nat]
    BY <2>1 DEF BeginExpire, TypeOK
  <2> QED BY <1>2, <1>4, <2>1, <2>2, <2>3 DEF TimerCallback, TypeOK, index, tables, matches, ends, people
<1> QED BY <1>3, <1>4

-----------------------------------------------------------------------------
(* What a match sends, and how it ends *)

LEMMA EventsAre ==
  /\ \A p \in Player : IdleEvent(p) \in Events /\ IdleEvent(p).type = "PlayerIdle" /\ IdleEvent(p).player = p
  /\ \A r \in EndReasons : EndEvent(r) \in Events
  /\ \A r : EndEvent(r).type = "GameEnded" /\ EndEvent(r).reason = r
  /\ \A e \in Events : /\ e.type = "PlayerIdle" => \E p \in Player : e = IdleEvent(p)
                       /\ e.type = "GameEnded" => \E r \in EndReasons : e = EndEvent(r)
<1>1. \A p : IdleEvent(p).type = "PlayerIdle" /\ IdleEvent(p).player = p
  BY DEF IdleEvent
<1>2. \A r : EndEvent(r).type = "GameEnded" /\ EndEvent(r).reason = r
  BY DEF EndEvent
<1>3. \A e : e \in Events <=> (\E p \in Player : e = IdleEvent(p)) \/ (\E r \in EndReasons : e = EndEvent(r))
  BY DEF Events
<1> QED BY <1>1, <1>2, <1>3

\* The events "new" of g reach its watcher, if the feed is open.
Hears(g, new) ==
  /\ \A f \in Game : f # g => unread'[f] = unread[f]
  /\ ToSet(unread'[g]) = ToSet(unread[g]) \cup IF feedOpen[g] THEN new ELSE {}

LEMMA SendHeard ==
  ASSUME TypeOK, NEW g \in Game, NEW events \in Seq(Events), Send(g, events)
  PROVE  unread' \in [Game -> Seq(Events)] /\ Hears(g, ToSet(events))
<1>1. unread[g] \in Seq(Events) /\ feedOpen[g] \in BOOLEAN
  BY DEF TypeOK
<1>2. /\ unread[g] \o events \in Seq(Events)
      /\ ToSet(unread[g] \o events) = ToSet(unread[g]) \cup ToSet(events)
  BY <1>1, InConcat
<1> DEFINE grown == unread[g] \o events
<1>3. CASE feedOpen[g]
  <2>1. unread' = [unread EXCEPT ![g] = grown]
    BY <1>3 DEF Send
  <2> HIDE DEF grown
  <2>2. unread' \in [Game -> Seq(Events)] /\ unread'[g] = grown /\ \A f \in Game : f # g => unread'[f] = unread[f]
    BY <1>2, <2>1 DEF TypeOK, grown
  <2> QED BY <1>2, <1>3, <2>2 DEF Hears, grown
<1>4. CASE ~feedOpen[g]
  <2>1. unread' = [unread EXCEPT ![g] = unread[g]]
    BY <1>4 DEF Send
  <2>2. unread' \in [Game -> Seq(Events)] /\ \A f \in Game : unread'[f] = unread[f]
    BY <1>1, <2>1 DEF TypeOK
  <2> QED BY <1>4, <2>2 DEF Hears
<1> QED BY <1>1, <1>3, <1>4

\* The reasons a match may end for, with none for an end that nobody is told of.
Ends == EndReasons \cup {None}

\* A match ends: phase, announcement and the mark that a shutdown cut it short.
EndsWith(g, r, before) ==
  /\ phase' = [phase EXCEPT ![g] = "Finished"]
  /\ reason' = [reason EXCEPT ![g] = r]
  /\ r # None => feedOpen[g]
  /\ Hears(g, before \cup IF r = None THEN {} ELSE {EndEvent(r)})
  /\ late' = IF shuttingDown THEN late \cup {g} ELSE late

\* What giving up a seat may do to a match.
Gives(g, p, before) ==
  /\ phase[g] # "Finished" /\ p \in seats[g]
  /\ seats' = [seats EXCEPT ![g] = seats[g] \ {p}]
  /\ UNCHANGED <<host, feedOpen, watching>>
  /\ \/ Hears(g, before) /\ UNCHANGED <<phase, reason, late>>
     \/ phase[g] = "Playing" /\ \E r \in Ends : EndsWith(g, r, before)

\* Only a finished match has a reason why it ended.
Unended == \A g \in Game : phase[g] # "Finished" => reason[g] = None

MatchesType ==
  /\ host \in [Game -> Table \cup {None}]
  /\ seats \in [Game -> SUBSET Player]
  /\ phase \in [Game -> {"Waiting", "Playing", "Finished"}]
  /\ reason \in [Game -> EndReasons \cup {None}]
  /\ feedOpen \in [Game -> BOOLEAN]
  /\ unread \in [Game -> Seq(Events)]
  /\ watching \subseteq Game /\ late \subseteq Game

LEMMA BecomesType ==
  ASSUME TypeOK, NEW g \in Game, NEW m, NEW before \in Seq(Events), Becomes(g, m, before),
         m.seats \in SUBSET Player, m.phase \in {"Waiting", "Playing", "Finished"}, m.reason \in Ends
  PROVE  /\ MatchesType'
         /\ Hears(g, ToSet(before) \cup IF m.reason = None THEN {} ELSE {EndEvent(m.reason)})
<1> DEFINE last == When(m.reason # None, EndEvent(m.reason))
<1>1. /\ last \in Seq(Events)
      /\ ToSet(last) = IF m.reason = None THEN {} ELSE {EndEvent(m.reason)}
  <2>1. CASE m.reason = None
    <3>1. last = <<>>
      BY <2>1 DEF When
    <3> HIDE DEF last
    <3> QED BY <2>1, <3>1, InSeq
  <2>2. CASE m.reason # None
    <3>1. last = <<EndEvent(m.reason)>> /\ EndEvent(m.reason) \in Events
      BY <2>2, EventsAre DEF When, Ends
    <3> HIDE DEF last
    <3> QED BY <2>2, <3>1, InSeq
  <2> HIDE DEF last
  <2> QED BY <2>1, <2>2
<1>2. Send(g, before \o last)
  BY DEF Becomes
<1> HIDE DEF last
<1>3. before \o last \in Seq(Events) /\ ToSet(before \o last) = ToSet(before) \cup ToSet(last)
  BY <1>1, InConcat
<1>4. unread' \in [Game -> Seq(Events)] /\ Hears(g, ToSet(before) \cup ToSet(last))
  BY <1>2, <1>3, SendHeard
<1>5. MatchesType'
  BY <1>4 DEF Becomes, MatchesType, TypeOK, Ends
<1> QED BY <1>1, <1>4, <1>5

\* Both ways a match may end, announced or not, for a match as the manager sees it.
LEMMA AnnouncedAre ==
  ASSUME NEW m, NEW S, NEW open, NEW p0, NEW r0, NEW why,
         m = [seats |-> S, phase |-> p0, reason |-> r0, winner |-> None, feed |-> open],
         NEW n \in O!Announced(m, why)
  PROVE  n.seats = S /\ n.phase = "Finished" /\ n.reason = IF open THEN why ELSE None
BY DEF O!Announced

LEMMA UnannouncedAre ==
  ASSUME NEW m, NEW S, NEW open, NEW p0, NEW r0,
         m = [seats |-> S, phase |-> p0, reason |-> r0, winner |-> None, feed |-> open],
         NEW n \in O!Unannounced(m)
  PROVE  n.seats = S /\ n.phase = "Finished" /\ n.reason = r0
BY DEF O!Unannounced

LEMMA PlayedIs ==
  ASSUME NEW g, NEW n \in O!Played(Match(g))
  PROVE  /\ phase[g] = "Playing" /\ feedOpen[g]
         /\ n.seats = seats[g] /\ n.phase = "Finished"
         /\ n.reason \in {"Win", "RulesError", reason[g]}
<1>1. phase[g] = "Playing" /\ feedOpen[g]
  BY DEF O!Played, Match
<1>2. \/ n \in O!Announced(Match(g), "RulesError")
      \/ n \in O!Unannounced(Match(g))
      \/ n \in O!Announced(Match(g), "Win")
  BY DEF O!Played
<1>3. Match(g) = [seats |-> seats[g], phase |-> phase[g], reason |-> reason[g], winner |-> None,
                  feed |-> feedOpen[g]]
  BY DEF Match
<1> QED BY <1>1, <1>2, <1>3, AnnouncedAre, UnannouncedAre

LEMMA LeftIs ==
  ASSUME NEW g, NEW p, NEW n \in O!Left(Match(g), p)
  PROVE  /\ phase[g] # "Finished" /\ p \in seats[g] /\ n.seats = seats[g] \ {p}
         /\ \/ n.phase = phase[g] /\ n.reason = reason[g]
            \/ /\ phase[g] = "Playing" /\ n.phase = "Finished"
               /\ \/ n.reason \in {None, reason[g]}
                  \/ feedOpen[g] /\ n.reason \in {"Win", "Forfeit", "Abandoned"}
<1> DEFINE S == seats[g] \ {p}
           m == [seats |-> S, phase |-> phase[g], reason |-> reason[g], winner |-> None,
                 feed |-> feedOpen[g]]
<1>1. phase[g] # "Finished" /\ p \in seats[g] /\ n \in {m} \cup O!LeftOver(m)
  BY DEF O!Left, Match
<1>2. m.seats = S /\ m.phase = phase[g] /\ m.reason = reason[g]
  OBVIOUS
<1>3. CASE n = m
  BY <1>1, <1>2, <1>3
<1>4. CASE n \in O!LeftOver(m)
  <2>1. phase[g] = "Playing"
    <3>1. CASE m.phase # "Playing"
      <4>1. O!LeftOver(m) = {}
        BY <3>1 DEF O!LeftOver
      <4> QED BY <1>4, <4>1
    <3> QED BY <3>1, <1>2
  <2>2. \/ n \in O!Announced(m, "Abandoned") \/ n \in O!Announced(m, "Win")
        \/ n \in O!Unannounced(m) \/ n \in O!Announced(m, "Forfeit")
    <3> HIDE DEF m
    <3>1. m.phase = "Playing"
      BY <1>2, <2>1
    <3>2. CASE m.seats = {}
      BY <1>4, <3>1, <3>2 DEF O!LeftOver
    <3>3. CASE m.seats # {}
      BY <1>4, <3>1, <3>3 DEF O!LeftOver
    <3> QED BY <3>2, <3>3
  <2>3. \/ \E why \in {"Win", "Forfeit", "Abandoned"} : n \in O!Announced(m, why)
        \/ n \in O!Unannounced(m)
    BY <2>2
  <2>4. ASSUME NEW why \in {"Win", "Forfeit", "Abandoned"}, n \in O!Announced(m, why)
        PROVE  n.seats = S /\ n.phase = "Finished" /\ n.reason = IF feedOpen[g] THEN why ELSE None
    BY <2>4, AnnouncedAre
  <2>5. ASSUME n \in O!Unannounced(m)
        PROVE  n.seats = S /\ n.phase = "Finished" /\ n.reason = reason[g]
    BY <2>5, UnannouncedAre
  <2> QED BY <1>1, <2>1, <2>3, <2>4, <2>5
<1> QED BY <1>1, <1>3, <1>4

LEMMA SeatLeft ==
  ASSUME NEW g, NEW p, O!Left(Match(g), p) = {}
  PROVE  phase[g] = "Finished" \/ p \notin seats[g]
<1>1. Match(g).phase = phase[g] /\ Match(g).seats = seats[g]
  BY DEF Match
<1> QED BY <1>1 DEF O!Left

LEMMA GiveUpType ==
  ASSUME TypeOK, Unended, NEW g \in Game, NEW p \in Player, NEW before \in Seq(Events),
         GiveUpSeat(g, p, before)
  PROVE  Gives(g, p, ToSet(before)) /\ MatchesType'
<1>1. PICK m \in O!Left(Match(g), p) : Becomes(g, m, before)
  BY DEF GiveUpSeat
<1>2. /\ phase[g] # "Finished" /\ p \in seats[g] /\ m.seats = seats[g] \ {p}
      /\ \/ m.phase = phase[g] /\ m.reason = reason[g]
         \/ /\ phase[g] = "Playing" /\ m.phase = "Finished"
            /\ \/ m.reason \in {None, reason[g]}
               \/ feedOpen[g] /\ m.reason \in {"Win", "Forfeit", "Abandoned"}
  BY LeftIs
<1>3. reason[g] = None
  BY <1>2 DEF Unended
<1>4. /\ m.seats \in SUBSET Player /\ m.phase \in {"Waiting", "Playing", "Finished"} /\ m.reason \in Ends
  BY <1>2, <1>3 DEF Ends, EndReasons, TypeOK
<1>5. /\ MatchesType'
      /\ Hears(g, ToSet(before) \cup IF m.reason = None THEN {} ELSE {EndEvent(m.reason)})
  BY <1>1, <1>4, BecomesType
<1>6. /\ seats' = [seats EXCEPT ![g] = m.seats] /\ phase' = [phase EXCEPT ![g] = m.phase]
      /\ reason' = [reason EXCEPT ![g] = m.reason]
      /\ late' = IF m.phase = "Finished" /\ shuttingDown THEN late \cup {g} ELSE late
      /\ UNCHANGED <<host, feedOpen, watching>>
  BY <1>1 DEF Becomes
<1>7. CASE m.phase = phase[g] /\ m.reason = reason[g]
  <2>1. UNCHANGED <<phase, reason, late>>
    BY <1>2, <1>6, <1>7 DEF TypeOK
  <2>2. Hears(g, ToSet(before))
    BY <1>3, <1>5, <1>7
  <2> QED BY <1>2, <1>5, <1>6, <2>1, <2>2 DEF Gives
<1>8. CASE phase[g] = "Playing" /\ m.phase = "Finished"
  <2>1. m.reason # None => feedOpen[g]
    BY <1>2, <1>3, <1>8
  <2>2. EndsWith(g, m.reason, ToSet(before))
    BY <1>5, <1>6, <1>8, <2>1 DEF EndsWith
  <2> QED BY <1>2, <1>4, <1>5, <1>6, <1>8, <2>2 DEF Gives
<1> QED BY <1>2, <1>7, <1>8

\* A move ended the match.
Played(g, r) ==
  /\ phase[g] = "Playing" /\ feedOpen[g] /\ EndsWith(g, r, {})
  /\ UNCHANGED <<host, seats, feedOpen, watching, index, tables, grace, record, ends, people, todo>>

LEMMA PlayEndsType ==
  ASSUME TypeOK, Unended, NEW g \in Game, PlayEnds(g)
  PROVE  TypeOK' /\ \E r \in Ends : Played(g, r)
<1>1. PICK m \in O!Played(Match(g)) : Becomes(g, m, <<>>)
  BY DEF PlayEnds
<1>2. /\ phase[g] = "Playing" /\ feedOpen[g] /\ m.seats = seats[g] /\ m.phase = "Finished"
      /\ m.reason \in {"Win", "RulesError", reason[g]}
  BY PlayedIs
<1>3. reason[g] = None
  BY <1>2 DEF Unended
<1>4. m.seats \in SUBSET Player /\ m.reason \in Ends /\ <<>> \in Seq(Events) /\ ToSet(<<>>) = {}
  BY <1>2, <1>3, InSeq DEF Ends, EndReasons, TypeOK
<1>5. /\ MatchesType'
      /\ Hears(g, {} \cup IF m.reason = None THEN {} ELSE {EndEvent(m.reason)})
  BY <1>1, <1>2, <1>4, BecomesType
<1>6. UNCHANGED <<index, tables, grace, record, ends, people, todo>>
  BY DEF PlayEnds
<1>7. EndsWith(g, m.reason, {})
  BY <1>1, <1>2, <1>5 DEF Becomes, EndsWith
<1>8. UNCHANGED <<host, seats, feedOpen, watching>>
  BY <1>1, <1>2 DEF Becomes, TypeOK
<1>9. TypeOK'
  BY <1>5, <1>6 DEF MatchesType, TypeOK, index, tables, grace, ends, people
<1> QED BY <1>2, <1>4, <1>6, <1>7, <1>8, <1>9 DEF Played

\* The engine takes the seat of a player who idles, or only says that it does.
Idled(g, p) ==
  /\ phase[g] = "Playing" /\ p \in seats[g] /\ feedOpen[g]
  /\ \/ Gives(g, p, {IdleEvent(p)})
     \/ Hears(g, {IdleEvent(p)}) /\ UNCHANGED <<host, seats, phase, reason, feedOpen, watching, late>>
  /\ UNCHANGED <<index, tables, grace, record, ends, people, todo>>

LEMMA IdleOutType ==
  ASSUME TypeOK, Unended, NEW g \in Game, NEW p \in Player, IdleOut(g, p)
  PROVE  TypeOK' /\ Idled(g, p)
<1>1. <<IdleEvent(p)>> \in Seq(Events) /\ ToSet(<<IdleEvent(p)>>) = {IdleEvent(p)}
  BY EventsAre, InSeq
<1>2. /\ phase[g] = "Playing" /\ p \in seats[g] /\ feedOpen[g]
      /\ UNCHANGED <<index, tables, grace, record, ends, people, todo>>
  BY DEF IdleOut
<1>3. CASE GiveUpSeat(g, p, <<IdleEvent(p)>>)
  <2>1. Gives(g, p, {IdleEvent(p)}) /\ MatchesType'
    BY <1>1, <1>3, GiveUpType
  <2> QED BY <1>2, <2>1 DEF Idled, MatchesType, TypeOK, index, tables, grace, ends, people
<1>4. CASE Send(g, <<IdleEvent(p)>>) /\ UNCHANGED <<host, seats, phase, reason, feedOpen, watching, late>>
  <2>1. unread' \in [Game -> Seq(Events)] /\ Hears(g, {IdleEvent(p)})
    BY <1>1, <1>4, SendHeard
  <2> QED BY <1>2, <1>4, <2>1 DEF Idled, TypeOK, index, tables, grace, ends, people
<1> QED BY <1>3, <1>4 DEF IdleOut

-----------------------------------------------------------------------------
(* What the holds do, one by one: the types, and who still has to do what *)

\* Only p left the roster of t, where others stay.
SeatLost(p, t) ==
  /\ roster' = [roster EXCEPT ![t] = RosterWithout(p, t)]
  /\ \A s \in Table : s # t => ToSet(roster'[s]) = ToSet(roster[s])
  /\ ToSet(roster'[t]) = ToSet(roster[t]) \ {p}

\* p gives up the seat at t: with the others staying, or as the last one out.
Leaves(p, t) ==
  /\ playerLobby[p] = t /\ OnRoster(p, t)
  /\ playerLobby' = [playerLobby EXCEPT ![p] = None]
  /\ UNCHANGED activeEngine
  /\ \/ roster[t] # <<p>> /\ SeatLost(p, t) /\ UNCHANGED state
     \/ /\ roster[t] = <<p>> /\ ToSet(roster[t]) = {p}
        /\ state' = [state EXCEPT ![t] = "Closed"] /\ UNCHANGED roster

\* What leaving t leaves to be done.
AfterLeaving(p, t) ==
  (IF activeEngine[t] = None THEN {} ELSE {NotifyEngine(p, activeEngine[t])})
    \cup (IF roster[t] = <<p>> THEN {RemoveLobby(t)} ELSE {})

Left(th, p) ==
  /\ Hold(th) = LeaveLobby(p) /\ Has(th, LeaveLobby(p))
  /\ pending' = [pending EXCEPT ![p] = "Off"] /\ expiring' = expiring \ {p}
  /\ UNCHANGED <<strays, firing, lobbies, matches, record, ends, people>>
  /\ \/ /\ ~InLobby(p) /\ UNCHANGED <<tables, playerLobby>>
        /\ Took(th, {LeaveLobby(p)}, {})
     \/ /\ InLobby(p)
        /\ \E t \in Table : Leaves(p, t) /\ Took(th, {LeaveLobby(p)}, AfterLeaving(p, t))

LEMMA LeavesType ==
  ASSUME TypeOK, NEW p \in Player, NEW t \in Table, playerLobby[p] = t, OnRoster(p, t), Detach(p, t),
         playerLobby' = [playerLobby EXCEPT ![p] = None]
  PROVE  /\ Leaves(p, t)
         /\ playerLobby' \in [Player -> Table \cup {None}]
         /\ state' \in [Table -> {"Unused", "Waiting", "InGame", "Closed"}]
         /\ roster' \in [Table -> Seq(Player)]
         /\ \A s \in Table : IsInjective(roster'[s]) /\ Len(roster'[s]) <= MaxPlayers
         /\ ready' \in [Table -> SUBSET Player]
<1>1. playerLobby' \in [Player -> Table \cup {None}]
  BY DEF TypeOK
<1>2. CASE roster[t] = <<p>>
  <2>1. ToSet(roster[t]) = {p}
    BY <1>2, InSeq
  <2>2. state' = [state EXCEPT ![t] = "Closed"] /\ UNCHANGED <<roster, ready, activeEngine>>
    BY <1>2 DEF Detach
  <2> QED BY <1>1, <1>2, <2>1, <2>2 DEF Leaves, TypeOK
<1>3. CASE roster[t] # <<p>>
  <2>1. /\ roster' = [roster EXCEPT ![t] = RosterWithout(p, t)]
        /\ ready' = [ready EXCEPT ![t] = @ \ {p}]
        /\ UNCHANGED <<state, activeEngine>>
    BY <1>3 DEF Detach
  <2>2. /\ roster' \in [Table -> Seq(Player)]
        /\ \A s \in Table : s # t => roster'[s] = roster[s]
        /\ roster'[t] = RosterWithout(p, t)
    BY <2>1, RosterLeft DEF TypeOK
  <2>3. \A s \in Table : IsInjective(roster'[s]) /\ Len(roster'[s]) <= MaxPlayers
    <3>1. IsInjective(RosterWithout(p, t)) /\ Len(RosterWithout(p, t)) <= MaxPlayers
      BY RosterLeft
    <3>2. \A s \in Table : IsInjective(roster[s]) /\ Len(roster[s]) <= MaxPlayers
      BY DEF TypeOK
    <3> QED BY <2>2, <3>1, <3>2
  <2>4. SeatLost(p, t)
    BY <2>1, <2>2, RosterLeft DEF SeatLost
  <2>5. ready' \in [Table -> SUBSET Player]
    BY <2>1 DEF TypeOK
  <2> QED BY <1>1, <1>3, <2>1, <2>2, <2>3, <2>4, <2>5 DEF Leaves, TypeOK
<1> QED BY <1>2, <1>3

LEMMA AfterLeavingSeq ==
  ASSUME TypeOK, NEW p \in Player, NEW t \in Table
  PROVE  /\ Tellable(t, p) \o When(roster[t] = <<p>>, RemoveLobby(t)) \in Seq(Holds)
         /\ ToSet(Tellable(t, p) \o When(roster[t] = <<p>>, RemoveLobby(t))) = AfterLeaving(p, t)
<1> DEFINE told == Tellable(t, p)
           gone == When(roster[t] = <<p>>, RemoveLobby(t))
<1>1. /\ gone \in Seq(Holds)
      /\ ToSet(gone) = IF roster[t] = <<p>> THEN {RemoveLobby(t)} ELSE {}
  BY WhenSeq, HoldsAre
<1>2. /\ told \in Seq(Holds)
      /\ ToSet(told) = IF activeEngine[t] = None THEN {} ELSE {NotifyEngine(p, activeEngine[t])}
  <2>1. CASE activeEngine[t] = None
    BY <2>1, InSeq DEF Tellable
  <2>2. CASE activeEngine[t] # None
    <3>1. activeEngine[t] \in Game
      BY <2>2 DEF TypeOK
    <3>2. NotifyEngine(p, activeEngine[t]) \in Holds
      BY <3>1, HoldsAre
    <3>3. told = <<NotifyEngine(p, activeEngine[t])>>
      BY <2>2 DEF Tellable
    <3> HIDE DEF told
    <3> QED BY <2>2, <3>2, <3>3, InSeq
  <2> QED BY <2>1, <2>2
<1> HIDE DEF told, gone
<1>3. told \o gone \in Seq(Holds) /\ ToSet(told \o gone) = ToSet(told) \cup ToSet(gone)
  BY <1>1, <1>2, InConcat
<1> QED BY <1>1, <1>2, <1>3 DEF AfterLeaving, told, gone

LEMMA LeaveStepType ==
  ASSUME TypeOK, NEW th \in Threads, LeaveLobbyStep(th)
  PROVE  TypeOK' /\ \E p \in Player : Left(th, p)
<1>1. todo \in [Threads -> Seq(Holds)] /\ ~Idle(th) /\ Hold(th).op = "LeaveLobby"
  BY DEF LeaveLobbyStep, At, Hold, TypeOK
<1>2. Hold(th) \in Holds
  BY <1>1, InTail DEF Hold, Idle
<1>3. PICK p \in Player : Hold(th) = LeaveLobby(p)
  BY <1>1, <1>2, HoldsByOp
<1>4. Hold(th).player = p
  BY <1>3, HoldFields
<1>5. /\ pending' = [pending EXCEPT ![p] = "Off"] /\ expiring' = expiring \ {p}
      /\ UNCHANGED <<strays, firing, lobbies, matches, record, ends, people>>
  BY <1>4 DEF LeaveLobbyStep, ClearGrace
<1>6. pending' \in [Player -> {"Off", "Armed", "Fired"}] /\ expiring' \subseteq Player
  BY <1>5 DEF TypeOK
<1>7. CASE ~InLobby(p)
  <2>1. Goto(th, <<>>) /\ UNCHANGED <<tables, playerLobby>>
    BY <1>4, <1>7 DEF LeaveLobbyStep
  <2>2. <<>> \in Seq(Holds) /\ ToSet(<<>>) = {}
    BY InSeq
  <2>3. todo' \in [Threads -> Seq(Holds)] /\ Has(th, Hold(th)) /\ Took(th, {Hold(th)}, {})
    BY <1>1, <2>1, <2>2, GotoTodo
  <2>4. Left(th, p)
    BY <1>3, <1>5, <1>7, <2>1, <2>3 DEF Left
  <2> QED BY <1>5, <1>6, <2>1, <2>3, <2>4 DEF TypeOK, tables, matches, ends, people
<1>8. CASE InLobby(p)
  <2> DEFINE t == playerLobby[p]
             rest == Tellable(t, p) \o When(roster[t] = <<p>>, RemoveLobby(t))
  <2>1. t \in Table /\ OnRoster(p, t)
    BY <1>8 DEF InLobby, TypeOK
  <2>2. Detach(p, t) /\ playerLobby' = [playerLobby EXCEPT ![p] = None] /\ Goto(th, rest)
    BY <1>4, <1>8 DEF LeaveLobbyStep
  <2>3. rest \in Seq(Holds) /\ ToSet(rest) = AfterLeaving(p, t)
    BY <2>1, AfterLeavingSeq
  <2> HIDE DEF rest
  <2>4. todo' \in [Threads -> Seq(Holds)] /\ Has(th, Hold(th)) /\ Took(th, {Hold(th)}, AfterLeaving(p, t))
    BY <1>1, <2>2, <2>3, GotoTodo
  <2>5. /\ Leaves(p, t)
        /\ playerLobby' \in [Player -> Table \cup {None}]
        /\ state' \in [Table -> {"Unused", "Waiting", "InGame", "Closed"}]
        /\ roster' \in [Table -> Seq(Player)]
        /\ \A s \in Table : IsInjective(roster'[s]) /\ Len(roster'[s]) <= MaxPlayers
        /\ ready' \in [Table -> SUBSET Player]
    BY <2>1, <2>2, LeavesType
  <2>6. Left(th, p)
    BY <1>3, <1>5, <1>8, <2>1, <2>4, <2>5 DEF Left
  <2>7. UNCHANGED activeEngine
    BY <2>5 DEF Leaves
  <2> QED BY <1>5, <1>6, <2>4, <2>5, <2>6, <2>7 DEF TypeOK, matches, ends, people
<1> QED BY <1>7, <1>8

\* The hold that is taken, and the case that nothing comes after it.
LEMMA TakenHold ==
  ASSUME TypeOK, NEW th \in Threads, NEW op, At(th, op)
  PROVE  todo \in [Threads -> Seq(Holds)] /\ ~Idle(th) /\ Hold(th) \in Holds /\ Hold(th).op = op
<1>1. todo \in [Threads -> Seq(Holds)] /\ ~Idle(th) /\ Hold(th).op = op
  BY DEF At, Hold, TypeOK
<1> QED BY <1>1, InTail DEF Hold, Idle

LEMMA DoneTodo ==
  ASSUME todo \in [Threads -> Seq(Holds)], NEW th \in Threads, ~Idle(th), Goto(th, <<>>)
  PROVE  todo' \in [Threads -> Seq(Holds)] /\ Has(th, Hold(th)) /\ Took(th, {Hold(th)}, {})
<1>1. <<>> \in Seq(Holds) /\ ToSet(<<>>) = {}
  BY InSeq
<1> QED BY <1>1, GotoTodo

Notified(th, p, g) ==
  /\ Hold(th) = NotifyEngine(p, g) /\ Has(th, NotifyEngine(p, g)) /\ Took(th, {NotifyEngine(p, g)}, {})
  /\ Gives(g, p, {}) \/ ((phase[g] = "Finished" \/ p \notin seats[g]) /\ UNCHANGED matches)
  /\ UNCHANGED <<index, tables, grace, record, ends, people>>

LEMMA NotifyStepType ==
  ASSUME TypeOK, Unended, NEW th \in Threads, NotifyEngineStep(th)
  PROVE  TypeOK' /\ \E p \in Player, g \in Game : Notified(th, p, g)
<1>1. todo \in [Threads -> Seq(Holds)] /\ ~Idle(th) /\ Hold(th) \in Holds /\ Hold(th).op = "NotifyEngine"
  BY TakenHold DEF NotifyEngineStep
<1>2. PICK p \in Player, g \in Game : Hold(th) = NotifyEngine(p, g)
  BY <1>1, HoldsByOp
<1>3. Hold(th).player = p /\ Hold(th).game = g
  BY <1>2, HoldFields
<1>4. Goto(th, <<>>) /\ UNCHANGED <<index, tables, grace, record, ends, people>>
  BY DEF NotifyEngineStep
<1>5. todo' \in [Threads -> Seq(Holds)] /\ Has(th, Hold(th)) /\ Took(th, {Hold(th)}, {})
  BY <1>1, <1>4, DoneTodo
<1>6. CASE O!Left(Match(g), p) # {}
  <2>1. GiveUpSeat(g, p, <<>>)
    BY <1>3, <1>6 DEF NotifyEngineStep
  <2>2. <<>> \in Seq(Events) /\ ToSet(<<>>) = {}
    BY InSeq
  <2>3. Gives(g, p, {}) /\ MatchesType'
    BY <2>1, <2>2, GiveUpType
  <2>4. TypeOK'
    BY <1>4, <1>5, <2>3 DEF TypeOK, MatchesType, index, tables, grace, ends, people
  <2> QED BY <1>2, <1>4, <1>5, <1>6, <2>3, <2>4 DEF Notified
<1>7. CASE O!Left(Match(g), p) = {}
  <2>1. UNCHANGED matches
    BY <1>3, <1>7 DEF NotifyEngineStep
  <2>2. TypeOK'
    BY <1>4, <1>5, <2>1 DEF TypeOK, matches, index, tables, grace, ends, people
  <2>3. phase[g] = "Finished" \/ p \notin seats[g]
    BY <1>7, SeatLeft
  <2> QED BY <1>2, <1>4, <1>5, <2>1, <2>2, <2>3 DEF Notified
<1> QED BY <1>6, <1>7

Removed(th, t) ==
  /\ Hold(th) = RemoveLobby(t) /\ Has(th, RemoveLobby(t))
  /\ Took(th, {RemoveLobby(t)}, IF activeEngine[t] = None THEN {} ELSE {CloseEngine(activeEngine[t])})
  /\ lobbies' = lobbies \ {t}
  /\ playerLobby' = [p \in Player |-> IF OnRoster(p, t) THEN None ELSE playerLobby[p]]
  /\ activeEngine' = [activeEngine EXCEPT ![t] = None]
  /\ UNCHANGED <<state, roster, ready, grace, matches, record, ends, people>>

LEMMA RemoveStepType ==
  ASSUME TypeOK, NEW th \in Threads, RemoveLobbyStep(th)
  PROVE  TypeOK' /\ \E t \in Table : Removed(th, t)
<1>1. todo \in [Threads -> Seq(Holds)] /\ ~Idle(th) /\ Hold(th) \in Holds /\ Hold(th).op = "RemoveLobby"
  BY TakenHold DEF RemoveLobbyStep
<1>2. PICK t \in Table : Hold(th) = RemoveLobby(t)
  BY <1>1, HoldsByOp
<1>3. Hold(th).table = t
  BY <1>2, HoldFields
<1> DEFINE rest == When(activeEngine[t] # None, CloseEngine(activeEngine[t]))
<1>4. rest \in Seq(Holds) /\ ToSet(rest) = IF activeEngine[t] = None THEN {} ELSE {CloseEngine(activeEngine[t])}
  <2>1. CASE activeEngine[t] = None
    BY <2>1, InSeq DEF When
  <2>2. CASE activeEngine[t] # None
    <3>1. activeEngine[t] \in Game
      BY <2>2 DEF TypeOK
    <3>2. CloseEngine(activeEngine[t]) \in Holds
      BY <3>1, HoldsAre
    <3> QED BY <2>2, <3>2, WhenSeq
  <2> QED BY <2>1, <2>2
<1>5. /\ lobbies' = lobbies \ {t}
      /\ playerLobby' = [p \in Player |-> IF OnRoster(p, t) THEN None ELSE playerLobby[p]]
      /\ activeEngine' = [activeEngine EXCEPT ![t] = None]
      /\ Goto(th, rest)
      /\ UNCHANGED <<state, roster, ready, grace, matches, record, ends, people>>
  BY <1>3 DEF RemoveLobbyStep
<1> HIDE DEF rest
<1>6. todo' \in [Threads -> Seq(Holds)] /\ Has(th, Hold(th)) /\ Took(th, {Hold(th)}, ToSet(rest))
  BY <1>1, <1>4, <1>5, GotoTodo
<1>7. TypeOK'
  BY <1>5, <1>6 DEF TypeOK, grace, matches, ends, people
<1> QED BY <1>2, <1>4, <1>5, <1>6, <1>7 DEF Removed

Silenced(th, g) ==
  /\ Hold(th) = CloseEngine(g) /\ Took(th, {CloseEngine(g)}, {})
  /\ feedOpen' = [feedOpen EXCEPT ![g] = FALSE]
  /\ UNCHANGED <<host, seats, phase, reason, unread, watching, late, index, tables, grace, record,
                 ends, people>>

LEMMA CloseStepType ==
  ASSUME TypeOK, NEW th \in Threads, CloseEngineStep(th)
  PROVE  TypeOK' /\ \E g \in Game : Silenced(th, g)
<1>1. todo \in [Threads -> Seq(Holds)] /\ ~Idle(th) /\ Hold(th) \in Holds /\ Hold(th).op = "CloseEngine"
  BY TakenHold DEF CloseEngineStep
<1>2. PICK g \in Game : Hold(th) = CloseEngine(g)
  BY <1>1, HoldsByOp
<1>3. Hold(th).game = g
  BY <1>2, HoldFields
<1>4. /\ feedOpen' = [feedOpen EXCEPT ![g] = FALSE] /\ Goto(th, <<>>)
      /\ UNCHANGED <<host, seats, phase, reason, unread, watching, late, index, tables, grace, record,
                     ends, people>>
  BY <1>3 DEF CloseEngineStep
<1>5. todo' \in [Threads -> Seq(Holds)] /\ Has(th, Hold(th)) /\ Took(th, {Hold(th)}, {})
  BY <1>1, <1>4, DoneTodo
<1>6. TypeOK'
  BY <1>4, <1>5 DEF TypeOK, index, tables, grace, ends, people
<1> QED BY <1>2, <1>4, <1>5, <1>6 DEF Silenced

Flipped(th, p, t) ==
  /\ Hold(th) = FlipReady(p, t) /\ Took(th, {FlipReady(p, t)}, {})
  /\ UNCHANGED <<roster, index, grace, record, ends, people>>
  /\ \/ UNCHANGED <<state, activeEngine, matches>>
     \/ \E g \in Game : state[t] = "Waiting" /\ phase[g] = "Waiting" /\ StartGame(t, g)

LEMMA FlipStepType ==
  ASSUME TypeOK, NEW th \in Threads, FlipReadyStep(th)
  PROVE  TypeOK' /\ \E p \in Player, t \in Table : Flipped(th, p, t)
<1>1. todo \in [Threads -> Seq(Holds)] /\ ~Idle(th) /\ Hold(th) \in Holds /\ Hold(th).op = "FlipReady"
  BY TakenHold DEF FlipReadyStep
<1>2. PICK p \in Player, t \in Table : Hold(th) = FlipReady(p, t)
  BY <1>1, HoldsByOp
<1>3. Hold(th).player = p /\ Hold(th).table = t
  BY <1>2, HoldFields
<1>4. Goto(th, <<>>) /\ UNCHANGED <<index, grace, record, ends, people>>
  BY DEF FlipReadyStep
<1>5. todo' \in [Threads -> Seq(Holds)] /\ Has(th, Hold(th)) /\ Took(th, {Hold(th)}, {})
  BY <1>1, <1>4, DoneTodo
<1> DEFINE flipped == SymDiff(ready[t], {p})
<1>6. flipped \in SUBSET Player
  BY DEF TypeOK, SymDiff
<1>7. CASE UNCHANGED <<tables, matches>>
  BY <1>2, <1>4, <1>5, <1>7 DEF Flipped, TypeOK, index, tables, grace, matches, ends, people
<1>8. CASE ready' = [ready EXCEPT ![t] = flipped] /\ UNCHANGED <<state, roster, activeEngine, matches>>
  <2> HIDE DEF flipped
  <2>1. ready' \in [Table -> SUBSET Player]
    BY <1>6, <1>8 DEF TypeOK
  <2> QED BY <1>2, <1>4, <1>5, <1>8, <2>1 DEF Flipped, TypeOK, index, grace, matches, ends, people
<1>9. ASSUME NEW g \in Game, state[t] = "Waiting", phase[g] = "Waiting", StartGame(t, g)
      PROVE  TypeOK' /\ Flipped(th, p, t)
  <2>1. ToSet(roster[t]) \in SUBSET Player
    <3>1. roster[t] \in Seq(Player)
      BY DEF TypeOK
    <3> QED BY <3>1 DEF ToSet
  <2>2. /\ host' \in [Game -> Table \cup {None}] /\ seats' \in [Game -> SUBSET Player]
        /\ phase' \in [Game -> {"Waiting", "Playing", "Finished"}] /\ feedOpen' \in [Game -> BOOLEAN]
        /\ watching' \subseteq Game
    BY <1>9, <2>1 DEF StartGame, TypeOK
  <2>3. /\ state' \in [Table -> {"Unused", "Waiting", "InGame", "Closed"}]
        /\ activeEngine' \in [Table -> Game \cup {None}] /\ ready' \in [Table -> SUBSET Player]
        /\ UNCHANGED <<roster, reason, unread, late>>
    BY <1>9 DEF StartGame, TypeOK
  <2>4. TypeOK'
    BY <1>4, <1>5, <2>2, <2>3 DEF TypeOK, index, grace, ends, people
  <2> QED BY <1>2, <1>4, <1>5, <1>9, <2>3, <2>4 DEF Flipped
<1> HIDE DEF flipped
<1>10. \/ UNCHANGED <<tables, matches>>
       \/ ready' = [ready EXCEPT ![t] = flipped] /\ UNCHANGED <<state, roster, activeEngine, matches>>
       \/ \E g \in Game : state[t] = "Waiting" /\ phase[g] = "Waiting" /\ StartGame(t, g)
  BY <1>3 DEF FlipReadyStep, flipped
<1> QED BY <1>7, <1>8, <1>9, <1>10

Released(th, t) ==
  /\ Hold(th) = ReleaseGame(t)
  /\ UNCHANGED <<roster, index, grace, matches, record, ends, people>>
  /\ \/ UNCHANGED tables /\ Took(th, {ReleaseGame(t)}, {})
     \/ /\ Releasable(t)
        /\ state' = [state EXCEPT ![t] = "Waiting"]
        /\ activeEngine' = [activeEngine EXCEPT ![t] = None]
        /\ Took(th, {ReleaseGame(t)}, {CloseEngine(activeEngine[t]), ReleaseHeld(t)})

LEMMA ReleaseStepType ==
  ASSUME TypeOK, NEW th \in Threads, ReleaseGameStep(th)
  PROVE  TypeOK' /\ \E t \in Table : Released(th, t)
<1>1. todo \in [Threads -> Seq(Holds)] /\ ~Idle(th) /\ Hold(th) \in Holds /\ Hold(th).op = "ReleaseGame"
  BY TakenHold DEF ReleaseGameStep
<1>2. PICK t \in Table : Hold(th) = ReleaseGame(t)
  BY <1>1, HoldsByOp
<1>3. Hold(th).table = t
  BY <1>2, HoldFields
<1>4. UNCHANGED <<index, grace, matches, record, ends, people>>
  BY DEF ReleaseGameStep
<1>5. CASE ~Releasable(t)
  <2>1. Goto(th, <<>>) /\ UNCHANGED tables
    BY <1>3, <1>5 DEF ReleaseGameStep
  <2>2. todo' \in [Threads -> Seq(Holds)] /\ Has(th, Hold(th)) /\ Took(th, {Hold(th)}, {})
    BY <1>1, <2>1, DoneTodo
  <2>3. TypeOK'
    BY <1>4, <2>1, <2>2 DEF TypeOK, index, tables, grace, matches, ends, people
  <2>4. Released(th, t)
    BY <1>2, <1>4, <2>1, <2>2 DEF Released, tables
  <2> QED BY <2>3, <2>4
<1>6. CASE Releasable(t)
  <2> DEFINE g == activeEngine[t]
             rest == <<CloseEngine(g), ReleaseHeld(t)>>
  <2>1. g \in Game
    BY <1>6 DEF Releasable, TypeOK
  <2>2. /\ state' = [state EXCEPT ![t] = "Waiting"] /\ activeEngine' = [activeEngine EXCEPT ![t] = None]
        /\ ready' = [ready EXCEPT ![t] = {}] /\ UNCHANGED roster
        /\ Goto(th, rest)
    BY <1>3, <1>6 DEF ReleaseGameStep
  <2>3. rest \in Seq(Holds) /\ ToSet(rest) = {CloseEngine(g), ReleaseHeld(t)}
    BY <2>1, HoldsAre, InSeq
  <2> HIDE DEF rest
  <2>4. todo' \in [Threads -> Seq(Holds)] /\ Has(th, Hold(th)) /\ Took(th, {Hold(th)}, ToSet(rest))
    BY <1>1, <2>2, <2>3, GotoTodo
  <2>5. TypeOK'
    BY <1>4, <2>2, <2>4 DEF TypeOK, index, grace, matches, ends, people
  <2>6. Released(th, t)
    BY <1>2, <1>4, <1>6, <2>2, <2>3, <2>4 DEF Released
  <2> QED BY <2>5, <2>6
<1> QED BY <1>5, <1>6

HeldAt(t) == {p \in HeldSeats : playerLobby[p] = t}

\* A set of players to go through, if there is anybody.
SomeHold(hold) == IF hold.players = {} THEN {} ELSE {hold}

HeldReleased(th, t) ==
  /\ Hold(th) = ReleaseHeld(t)
  /\ Took(th, {ReleaseHeld(t)}, SomeHold(ExpireEach(HeldAt(t))))
  /\ UNCHANGED <<index, tables, grace, matches, record, ends, people>>

LEMMA ReleaseHeldType ==
  ASSUME TypeOK, NEW th \in Threads, ReleaseHeldStep(th)
  PROVE  TypeOK' /\ \E t \in Table : HeldReleased(th, t)
<1>1. todo \in [Threads -> Seq(Holds)] /\ ~Idle(th) /\ Hold(th) \in Holds /\ Hold(th).op = "ReleaseHeld"
  BY TakenHold DEF ReleaseHeldStep
<1>2. PICK t \in Table : Hold(th) = ReleaseHeld(t)
  BY <1>1, HoldsByOp
<1>3. Hold(th).table = t
  BY <1>2, HoldFields
<1> DEFINE rest == Each(ExpireEach(HeldAt(t)))
<1>4. Goto(th, rest) /\ UNCHANGED <<index, tables, grace, matches, record, ends, people>>
  BY <1>3 DEF ReleaseHeldStep, HeldAt
<1>5. HeldAt(t) \in SUBSET Player
  BY DEF HeldAt, HeldSeats
<1>6. rest \in Seq(Holds) /\ ToSet(rest) = SomeHold(ExpireEach(HeldAt(t)))
  BY <1>5, EachSeq, HoldFields DEF SomeHold
<1> HIDE DEF rest
<1>7. todo' \in [Threads -> Seq(Holds)] /\ Took(th, {Hold(th)}, ToSet(rest))
  BY <1>1, <1>4, <1>6, GotoTodo
<1>8. TypeOK'
  BY <1>4, <1>7 DEF TypeOK, index, tables, grace, matches, ends, people
<1> QED BY <1>2, <1>4, <1>6, <1>7, <1>8 DEF HeldReleased

Expired(th, held, p) ==
  /\ Hold(th) = ExpireEach(held)
  /\ \/ /\ pending[p] = "Off" /\ UNCHANGED grace
        /\ Took(th, {ExpireEach(held)}, SomeHold(ExpireEach(held \ {p})))
     \/ /\ pending[p] # "Off" /\ BeginExpire(p) /\ UNCHANGED firing
        /\ Took(th, {ExpireEach(held)}, {LeaveLobby(p)} \cup SomeHold(ExpireEach(held \ {p})))
  /\ UNCHANGED <<index, tables, matches, record, ends, people>>

LEMMA ExpireStepType ==
  ASSUME TypeOK, NEW th \in Threads, ExpireEachStep(th)
  PROVE  TypeOK' /\ \E held \in SUBSET Player : \E p \in held : Expired(th, held, p)
<1>1. todo \in [Threads -> Seq(Holds)] /\ ~Idle(th) /\ Hold(th) \in Holds /\ Hold(th).op = "ExpireEach"
  BY TakenHold DEF ExpireEachStep
<1>2. PICK held \in SUBSET Player : Hold(th) = ExpireEach(held)
  BY <1>1, HoldsByOp
<1>3. Hold(th).players = held
  BY <1>2, HoldFields
<1>4. PICK p \in held : LET rest == Each(ExpireEach(held \ {p})) IN
                        IF pending[p] = "Off"
                        THEN Goto(th, rest) /\ UNCHANGED grace
                        ELSE BeginExpire(p) /\ Goto(th, <<LeaveLobby(p)>> \o rest) /\ UNCHANGED firing
  BY <1>3 DEF ExpireEachStep
<1> DEFINE rest == Each(ExpireEach(held \ {p}))
           leave == <<LeaveLobby(p)>>
<1>5. UNCHANGED <<index, tables, matches, record, ends, people>> /\ p \in Player
  BY DEF ExpireEachStep
<1>6. rest \in Seq(Holds) /\ ToSet(rest) = SomeHold(ExpireEach(held \ {p}))
  <2> DEFINE left == held \ {p}
  <2>1. left \in SUBSET Player
    OBVIOUS
  <2> HIDE DEF left
  <2>2. /\ Each(ExpireEach(left)) \in Seq(Holds)
        /\ ToSet(Each(ExpireEach(left))) = SomeHold(ExpireEach(left))
    BY <2>1, EachSeq, HoldFields DEF SomeHold
  <2> QED BY <2>2 DEF left
<1>7. CASE pending[p] = "Off"
  <2>1. Goto(th, rest) /\ UNCHANGED grace
    BY <1>4, <1>7
  <2> HIDE DEF rest
  <2>2. todo' \in [Threads -> Seq(Holds)] /\ Took(th, {Hold(th)}, ToSet(rest))
    BY <1>1, <1>6, <2>1, GotoTodo
  <2>3. TypeOK'
    BY <1>5, <2>1, <2>2 DEF TypeOK, index, tables, grace, matches, ends, people
  <2> QED BY <1>2, <1>5, <1>6, <1>7, <2>1, <2>2, <2>3 DEF Expired
<1>8. CASE pending[p] # "Off"
  <2>1. BeginExpire(p) /\ Goto(th, leave \o rest) /\ UNCHANGED firing
    BY <1>4, <1>8
  <2>2. leave \in Seq(Holds) /\ ToSet(leave) = {LeaveLobby(p)}
    BY <1>5, HoldsAre, InSeq
  <2> HIDE DEF rest, leave
  <2>3. leave \o rest \in Seq(Holds) /\ ToSet(leave \o rest) = ToSet(leave) \cup ToSet(rest)
    BY <1>6, <2>2, InConcat
  <2>4. todo' \in [Threads -> Seq(Holds)] /\ Took(th, {Hold(th)}, ToSet(leave \o rest))
    BY <1>1, <2>1, <2>3, GotoTodo
  <2>5. /\ pending' \in [Player -> {"Off", "Armed", "Fired"}] /\ expiring' \subseteq Player
        /\ strays' \in [Player -> Nat]
    BY <1>5, <2>1 DEF BeginExpire, TypeOK
  <2>6. TypeOK'
    BY <1>5, <2>1, <2>4, <2>5 DEF TypeOK, index, tables, matches, ends, people
  <2> QED BY <1>2, <1>5, <1>6, <1>8, <2>1, <2>2, <2>3, <2>4, <2>6 DEF Expired
<1> QED BY <1>7, <1>8

Finalized(th, g, r) ==
  /\ Hold(th) = Finalize(g, r) /\ Has(th, Finalize(g, r))
  /\ record' = [record EXCEPT ![g] = IF stopped THEN "Dropped" ELSE "Registered"]
  /\ Took(th, {Finalize(g, r)}, {Persist(g, r)}) \/ Took(th, {Finalize(g, r)}, {})
  /\ UNCHANGED <<index, tables, grace, matches, ends, people>>

LEMMA FinalizeStepType ==
  ASSUME TypeOK, NEW th \in Threads, FinalizeStep(th)
  PROVE  TypeOK' /\ \E g \in Game, r \in EndReasons : Finalized(th, g, r)
<1>1. todo \in [Threads -> Seq(Holds)] /\ ~Idle(th) /\ Hold(th) \in Holds /\ Hold(th).op = "Finalize"
  BY TakenHold DEF FinalizeStep
<1>2. PICK g \in Game, r \in EndReasons : Hold(th) = Finalize(g, r)
  BY <1>1, HoldsByOp
<1>3. Hold(th).game = g /\ Hold(th).reason = r
  BY <1>2, HoldFields
<1> DEFINE rest == When(~stopped, Persist(g, r))
<1>4. /\ record' = [record EXCEPT ![g] = IF stopped THEN "Dropped" ELSE "Registered"]
      /\ Goto(th, rest) /\ UNCHANGED <<index, tables, grace, matches, ends, people>>
  BY <1>3 DEF FinalizeStep
<1>5. Persist(g, r) \in Holds /\ stopped \in BOOLEAN
  BY HoldsAre DEF TypeOK
<1>6. rest \in Seq(Holds) /\ (ToSet(rest) = {Persist(g, r)} \/ ToSet(rest) = {})
  <2>1. CASE stopped
    BY <2>1, InSeq DEF When
  <2>2. CASE ~stopped
    <3>1. rest = <<Persist(g, r)>>
      BY <2>2 DEF When
    <3> HIDE DEF rest
    <3> QED BY <1>5, <3>1, InSeq
  <2> QED BY <2>1, <2>2
<1> HIDE DEF rest
<1>7. todo' \in [Threads -> Seq(Holds)] /\ Has(th, Hold(th)) /\ Took(th, {Hold(th)}, ToSet(rest))
  BY <1>1, <1>4, <1>6, GotoTodo
<1>8. TypeOK'
  <2>1. record' \in [Game -> {None, "Registered", "Rated", "Unrated", "Failed", "Dropped"}]
    BY <1>4 DEF TypeOK
  <2> QED BY <1>4, <1>7, <2>1 DEF TypeOK, index, tables, grace, matches, ends, people
<1>9. Took(th, {Finalize(g, r)}, {Persist(g, r)}) \/ Took(th, {Finalize(g, r)}, {})
  BY <1>2, <1>6, <1>7
<1> QED BY <1>2, <1>4, <1>7, <1>8, <1>9 DEF Finalized

Written(th, g, r) ==
  /\ Hold(th) = Persist(g, r) /\ Has(th, Persist(g, r)) /\ Took(th, {Persist(g, r)}, {})
  /\ \E w \in {"Rated", "Unrated", "Failed"} :
       (w = "Rated" => Rated(r)) /\ record' = [record EXCEPT ![g] = w]
  /\ UNCHANGED <<index, tables, grace, matches, ends, people>>

LEMMA PersistStepType ==
  ASSUME TypeOK, NEW th \in Threads, PersistStep(th)
  PROVE  TypeOK' /\ \E g \in Game, r \in EndReasons : Written(th, g, r)
<1>1. todo \in [Threads -> Seq(Holds)] /\ ~Idle(th) /\ Hold(th) \in Holds /\ Hold(th).op = "Persist"
  BY TakenHold DEF PersistStep
<1>2. PICK g \in Game, r \in EndReasons : Hold(th) = Persist(g, r)
  BY <1>1, HoldsByOp
<1>3. Hold(th).game = g /\ Hold(th).reason = r
  BY <1>2, HoldFields
<1>4. Goto(th, <<>>) /\ UNCHANGED <<index, tables, grace, matches, ends, people>>
  BY DEF PersistStep
<1>5. PICK w \in {IF Rated(r) THEN "Rated" ELSE "Unrated", "Failed"} : record' = [record EXCEPT ![g] = w]
  BY <1>3 DEF PersistStep
<1>6. w \in {"Rated", "Unrated", "Failed"} /\ (w = "Rated" => Rated(r))
  <2>1. CASE Rated(r)
    BY <2>1
  <2>2. CASE ~Rated(r)
    BY <2>2
  <2> QED BY <2>1, <2>2
<1>7. todo' \in [Threads -> Seq(Holds)] /\ Has(th, Hold(th)) /\ Took(th, {Hold(th)}, {})
  BY <1>1, <1>4, DoneTodo
<1>8. TypeOK'
  <2>1. record' \in [Game -> {None, "Registered", "Rated", "Unrated", "Failed", "Dropped"}]
    BY <1>5, <1>6 DEF TypeOK
  <2> QED BY <1>4, <1>7, <2>1 DEF TypeOK, index, tables, grace, matches, ends, people
<1> QED BY <1>2, <1>4, <1>5, <1>6, <1>7, <1>8 DEF Written

\* The watcher of g takes the next event e out of its queue.
Takes(g, e) ==
  /\ e \in ToSet(unread[g]) /\ e \in Events
  /\ ToSet(unread[g]) = {e} \cup ToSet(unread'[g])
  /\ \A f \in Game : f # g => unread'[f] = unread[f]

LEMMA ReceiveType ==
  ASSUME TypeOK, NEW g \in Game, unread[g] # <<>>, Receive(g)
  PROVE  unread' \in [Game -> Seq(Events)] /\ Takes(g, Head(unread[g]))
<1>1. unread[g] \in Seq(Events) /\ unread' = [unread EXCEPT ![g] = Tail(unread[g])]
  BY DEF Receive, TypeOK
<1>2. /\ Head(unread[g]) \in Events /\ Tail(unread[g]) \in Seq(Events)
      /\ ToSet(unread[g]) = {Head(unread[g])} \cup ToSet(Tail(unread[g]))
  BY <1>1, InTail
<1> DEFINE rest == Tail(unread[g])
<1> HIDE DEF rest
<1>3. /\ unread' \in [Game -> Seq(Events)] /\ unread'[g] = rest
      /\ \A f \in Game : f # g => unread'[f] = unread[f]
  BY <1>1, <1>2 DEF TypeOK, rest
<1> QED BY <1>2, <1>3 DEF Takes, rest

HeardIdle(g, p) ==
  /\ Listening(g) /\ Takes(g, IdleEvent(p))
  /\ Took(Watcher(g), {}, {LeaveLobby(p)})
  /\ UNCHANGED <<host, seats, phase, reason, feedOpen, watching, late, index, tables, grace, record,
                 ends, people>>

LEMMA WatchIdleType ==
  ASSUME TypeOK, NEW g \in Game, WatchIdle(g)
  PROVE  TypeOK' /\ \E p \in Player : HeardIdle(g, p)
<1>1. unread' \in [Game -> Seq(Events)] /\ Takes(g, Head(unread[g]))
  BY ReceiveType DEF WatchIdle
<1>2. Head(unread[g]) \in Events /\ Head(unread[g]).type = "PlayerIdle"
  BY <1>1 DEF WatchIdle, Takes
<1>3. PICK p \in Player : Head(unread[g]) = IdleEvent(p)
  BY <1>2, EventsAre
<1>4. Head(unread[g]).player = p
  BY <1>3, EventsAre
<1>5. Call(Watcher(g), <<LeaveLobby(p)>>)
  BY <1>4 DEF WatchIdle
<1>6. <<LeaveLobby(p)>> \in Seq(Holds) /\ ToSet(<<LeaveLobby(p)>>) = {LeaveLobby(p)}
  BY HoldsAre, InSeq
<1>7. todo' \in [Threads -> Seq(Holds)] /\ Took(Watcher(g), {}, {LeaveLobby(p)})
  BY <1>5, <1>6, CallTodo, ThreadsAre DEF TypeOK
<1>8. TypeOK'
  BY <1>1, <1>7 DEF WatchIdle, TypeOK, index, tables, grace, ends, people
<1> QED BY <1>1, <1>3, <1>7, <1>8 DEF WatchIdle, HeardIdle

HeardEnd(g, r) ==
  /\ Listening(g) /\ Takes(g, EndEvent(r))
  /\ watching' = watching \ {g}
  /\ Took(Watcher(g), {}, {ReleaseGame(host[g]), Finalize(g, r)})
  /\ UNCHANGED <<host, seats, phase, reason, feedOpen, late, index, tables, grace, record, ends, people>>

LEMMA ReportSeq ==
  ASSUME NEW t \in Table, NEW g \in Game, NEW r \in EndReasons
  PROVE  /\ <<ReleaseGame(t), Finalize(g, r)>> \in Seq(Holds)
         /\ ToSet(<<ReleaseGame(t), Finalize(g, r)>>) = {ReleaseGame(t), Finalize(g, r)}
<1>1. ReleaseGame(t) \in Holds /\ Finalize(g, r) \in Holds
  BY HoldsAre
<1> QED BY <1>1, InSeq

\* The watcher knows the table of its match.
WatchedHosts == \A g \in watching : host[g] \in Table

LEMMA WatchEndType ==
  ASSUME TypeOK, WatchedHosts, NEW g \in Game, WatchEnd(g)
  PROVE  TypeOK' /\ \E r \in EndReasons : HeardEnd(g, r)
<1>1. unread' \in [Game -> Seq(Events)] /\ Takes(g, Head(unread[g]))
  BY ReceiveType DEF WatchEnd
<1>2. Head(unread[g]) \in Events /\ Head(unread[g]).type = "GameEnded"
  BY <1>1 DEF WatchEnd, Takes
<1>3. PICK r \in EndReasons : Head(unread[g]) = EndEvent(r)
  BY <1>2, EventsAre
<1>4. Head(unread[g]).reason = r
  BY <1>3, EventsAre
<1>5. Call(Watcher(g), <<ReleaseGame(host[g]), Finalize(g, r)>>) /\ host[g] \in Table
  BY <1>4 DEF WatchEnd, Listening, WatchedHosts
<1>6. todo' \in [Threads -> Seq(Holds)] /\ Took(Watcher(g), {}, {ReleaseGame(host[g]), Finalize(g, r)})
  BY <1>5, ReportSeq, CallTodo, ThreadsAre DEF TypeOK
<1>7. TypeOK'
  BY <1>1, <1>6 DEF WatchEnd, TypeOK, index, tables, grace, ends, people
<1> QED BY <1>1, <1>3, <1>6, <1>7 DEF WatchEnd, HeardEnd

FoundClosed(g) ==
  /\ Listening(g) /\ unread[g] = <<>>
  /\ watching' = watching \ {g}
  /\ \/ phase[g] = "Finished" /\ Took(Watcher(g), {}, {ReleaseGame(host[g]), Finalize(g, "Unknown")})
     \/ UNCHANGED todo
  /\ UNCHANGED <<host, seats, phase, reason, feedOpen, unread, late, index, tables, grace, record, ends,
                 people>>

LEMMA WatchClosedType ==
  ASSUME TypeOK, WatchedHosts, NEW g \in Game, WatchClosed(g)
  PROVE  TypeOK' /\ FoundClosed(g)
<1>1. host[g] \in Table /\ "Unknown" \in EndReasons
  BY DEF WatchClosed, Listening, WatchedHosts, EndReasons
<1>2. CASE phase[g] = "Finished"
  <2>1. Call(Watcher(g), <<ReleaseGame(host[g]), Finalize(g, "Unknown")>>)
    BY <1>2 DEF WatchClosed
  <2>2. todo' \in [Threads -> Seq(Holds)] /\ Took(Watcher(g), {}, {ReleaseGame(host[g]), Finalize(g, "Unknown")})
    BY <1>1, <2>1, ReportSeq, CallTodo, ThreadsAre DEF TypeOK
  <2>3. TypeOK'
    BY <2>2 DEF WatchClosed, TypeOK, index, tables, grace, ends, people
  <2> QED BY <1>2, <2>2, <2>3 DEF WatchClosed, FoundClosed
<1>3. CASE phase[g] # "Finished"
  <2>1. UNCHANGED todo
    BY <1>3 DEF WatchClosed
  <2>2. TypeOK'
    BY <2>1 DEF WatchClosed, TypeOK, index, tables, grace, ends, people
  <2> QED BY <2>1, <2>2 DEF WatchClosed, FoundClosed
<1> QED BY <1>2, <1>3

Drained ==
  /\ Took(Main, {DrainHeld}, SomeHold(LeaveEach(HeldSeats)))
  /\ UNCHANGED <<index, tables, grace, matches, record, ends, people>>

LEMMA DrainHeldType ==
  ASSUME TypeOK, DrainHeldStep
  PROVE  TypeOK' /\ Drained
<1>1. todo \in [Threads -> Seq(Holds)] /\ ~Idle(Main) /\ Hold(Main) \in Holds /\ Hold(Main).op = "DrainHeld"
      /\ Main \in Threads
  BY TakenHold, ThreadsAre DEF DrainHeldStep
<1>2. Hold(Main) = DrainHeld
  BY <1>1 DEF Holds, DrainHeld
<1> DEFINE rest == Each(LeaveEach(HeldSeats))
<1>3. Goto(Main, rest) /\ UNCHANGED <<index, tables, grace, matches, record, ends, people>>
  BY DEF DrainHeldStep
<1>4. HeldSeats \in SUBSET Player
  BY DEF HeldSeats
<1>5. rest \in Seq(Holds) /\ ToSet(rest) = SomeHold(LeaveEach(HeldSeats))
  BY <1>4, EachSeq, HoldFields DEF SomeHold
<1> HIDE DEF rest
<1>6. todo' \in [Threads -> Seq(Holds)] /\ Took(Main, {Hold(Main)}, ToSet(rest))
  BY <1>1, <1>3, <1>5, GotoTodo
<1>7. TypeOK'
  BY <1>3, <1>6 DEF TypeOK, index, tables, grace, matches, ends, people
<1> QED BY <1>2, <1>3, <1>5, <1>6, <1>7 DEF Drained

DrainedOne(held, p) ==
  /\ Took(Main, {LeaveEach(held)}, {LeaveLobby(p)} \cup SomeHold(LeaveEach(held \ {p})))
  /\ UNCHANGED <<index, tables, grace, matches, record, ends, people>>

LEMMA LeaveEachType ==
  ASSUME TypeOK, LeaveEachStep
  PROVE  TypeOK' /\ \E held \in SUBSET Player : \E p \in held : DrainedOne(held, p)
<1>1. todo \in [Threads -> Seq(Holds)] /\ ~Idle(Main) /\ Hold(Main) \in Holds /\ Hold(Main).op = "LeaveEach"
      /\ Main \in Threads
  BY TakenHold, ThreadsAre DEF LeaveEachStep
<1>2. PICK held \in SUBSET Player : Hold(Main) = LeaveEach(held)
  BY <1>1, HoldsByOp
<1>3. Hold(Main).players = held
  BY <1>2, HoldFields
<1>4. PICK p \in held : Goto(Main, <<LeaveLobby(p)>> \o Each(LeaveEach(held \ {p})))
  BY <1>3 DEF LeaveEachStep
<1> DEFINE left == held \ {p}
           rest == Each(LeaveEach(left))
           leave == <<LeaveLobby(p)>>
<1>5. UNCHANGED <<index, tables, grace, matches, record, ends, people>> /\ left \in SUBSET Player /\ p \in Player
  BY DEF LeaveEachStep
<1>6. leave \in Seq(Holds) /\ ToSet(leave) = {LeaveLobby(p)}
  BY <1>5, HoldsAre, InSeq
<1> HIDE DEF left
<1>7. rest \in Seq(Holds) /\ ToSet(rest) = SomeHold(LeaveEach(left))
  BY <1>5, EachSeq, HoldFields DEF SomeHold
<1>8. Goto(Main, leave \o rest)
  BY <1>4 DEF left
<1> HIDE DEF rest, leave
<1>9. leave \o rest \in Seq(Holds) /\ ToSet(leave \o rest) = ToSet(leave) \cup ToSet(rest)
  BY <1>6, <1>7, InConcat
<1>10. todo' \in [Threads -> Seq(Holds)] /\ Took(Main, {Hold(Main)}, ToSet(leave \o rest))
  BY <1>1, <1>8, <1>9, GotoTodo
<1>11. TypeOK'
  BY <1>5, <1>10 DEF TypeOK, index, tables, grace, matches, ends, people
<1>12. DrainedOne(held, p)
  BY <1>2, <1>5, <1>6, <1>7, <1>9, <1>10 DEF DrainedOne, left
<1> QED BY <1>11, <1>12

LEMMA ShutdownType ==
  ASSUME TypeOK, BeginShutdown
  PROVE  TypeOK' /\ Took(Main, {}, {DrainHeld})
<1>1. <<DrainHeld>> \in Seq(Holds) /\ ToSet(<<DrainHeld>>) = {DrainHeld}
  BY HoldsAre, InSeq
<1>2. Call(Main, <<DrainHeld>>) /\ Main \in Threads
  BY ThreadsAre DEF BeginShutdown
<1>3. todo' \in [Threads -> Seq(Holds)] /\ Took(Main, {}, {DrainHeld})
  BY <1>1, <1>2, CallTodo DEF TypeOK
<1> QED BY <1>3 DEF BeginShutdown, TypeOK, index, tables, grace, matches, people

LEMMA StopType ==
  ASSUME TypeOK, StopFinalizers
  PROVE  TypeOK'
BY DEF StopFinalizers, TypeOK, index, tables, grace, matches, people

-----------------------------------------------------------------------------
(* Every step, as what it does *)

Readies(p, t) ==
  /\ ToggleReady(p, t)
  /\ Took(Session(p), {}, (IF state[t] = "InGame" THEN {ReleaseGame(t)} ELSE {}) \cup {FlipReady(p, t)})

Chooses(p) == LeaveByChoice(p) /\ Took(Session(p), {}, {LeaveLobby(p)})

Drops(p) ==
  /\ Disconnect(p)
  /\ \/ Holdable(playerLobby[p]) /\ Arm(p)
     \/ Took(Session(p), {}, {LeaveLobby(p)}) /\ UNCHANGED grace
     \/ UNCHANGED todo /\ UNCHANGED grace /\ playerLobby[p] = None

CallsBack(p) ==
  /\ TimerCallback(p)
  /\ \/ pending[p] = "Off" /\ UNCHANGED <<pending, expiring, todo>>
     \/ pending[p] # "Off" /\ Took(Timer(p), {}, {LeaveLobby(p)}) /\ BeginExpire(p)

SessionEffect ==
  \/ \E p \in Player, t \in Table : New(p, t) \/ JoinLobbyByCode(p, t) \/ Readies(p, t)
  \/ \E p, q \in Player : Kick(p, q)
  \/ \E p \in Player : Chooses(p) \/ Drops(p) \/ Connect(p) \/ TimerFires(p) \/ StrayFires(p) \/ CallsBack(p)

HoldEffect(th) ==
  \/ \E p \in Player : Left(th, p)
  \/ \E p \in Player, g \in Game : Notified(th, p, g)
  \/ \E t \in Table : Removed(th, t)
  \/ \E g \in Game : Silenced(th, g)
  \/ \E p \in Player, t \in Table : Flipped(th, p, t)
  \/ \E t \in Table : Released(th, t)
  \/ \E t \in Table : HeldReleased(th, t)
  \/ \E held \in SUBSET Player : \E p \in held : Expired(th, held, p)
  \/ \E g \in Game, r \in EndReasons : Finalized(th, g, r)
  \/ \E g \in Game, r \in EndReasons : Written(th, g, r)

MatchEffect(g) ==
  \/ \E r \in Ends : Played(g, r)
  \/ \E p \in Player : Idled(g, p)
  \/ \E p \in Player : HeardIdle(g, p)
  \/ \E r \in EndReasons : HeardEnd(g, r)
  \/ FoundClosed(g)

EndEffect ==
  \/ Drained
  \/ \E held \in SUBSET Player : \E p \in held : DrainedOne(held, p)
  \/ BeginShutdown /\ Took(Main, {}, {DrainHeld})
  \/ StopFinalizers

LEMMA HoldStep ==
  ASSUME TypeOK, Unended, NEW th \in Threads, Step(th)
  PROVE  TypeOK' /\ HoldEffect(th)
<1>1. CASE LeaveLobbyStep(th)
  BY <1>1, LeaveStepType DEF HoldEffect
<1>2. CASE NotifyEngineStep(th)
  BY <1>2, NotifyStepType DEF HoldEffect
<1>3. CASE RemoveLobbyStep(th)
  BY <1>3, RemoveStepType DEF HoldEffect
<1>4. CASE CloseEngineStep(th)
  BY <1>4, CloseStepType DEF HoldEffect
<1>5. CASE FlipReadyStep(th)
  BY <1>5, FlipStepType DEF HoldEffect
<1>6. CASE ReleaseGameStep(th)
  BY <1>6, ReleaseStepType DEF HoldEffect
<1>7. CASE ReleaseHeldStep(th)
  BY <1>7, ReleaseHeldType DEF HoldEffect
<1>8. CASE ExpireEachStep(th)
  BY <1>8, ExpireStepType DEF HoldEffect
<1>9. CASE FinalizeStep(th)
  BY <1>9, FinalizeStepType DEF HoldEffect
<1>10. CASE PersistStep(th)
  BY <1>10, PersistStepType DEF HoldEffect
<1> QED BY <1>1, <1>2, <1>3, <1>4, <1>5, <1>6, <1>7, <1>8, <1>9, <1>10 DEF Step

\* The types, and what the effects of a step rest on besides.
TypeInv == TypeOK /\ WatchedHosts /\ Unended

LEMMA Effects ==
  ASSUME TypeInv, [Next]_vars
  PROVE  /\ TypeOK'
         /\ \/ SessionEffect
            \/ \E th \in Threads : HoldEffect(th)
            \/ \E g \in Game : MatchEffect(g)
            \/ EndEffect
            \/ UNCHANGED vars
<1>0. TypeOK /\ WatchedHosts /\ Unended
  BY DEF TypeInv
<1>1. ASSUME NEW p \in Player, NEW t \in Table, New(p, t) \/ JoinLobbyByCode(p, t) \/ ToggleReady(p, t)
      PROVE  TypeOK' /\ SessionEffect
  BY <1>0, <1>1, OpenType, JoinType, ReadyType DEF SessionEffect, Readies
<1>2. ASSUME NEW p \in Player, NEW q \in Player, Kick(p, q)
      PROVE  TypeOK' /\ SessionEffect
  BY <1>0, <1>2, KickType DEF SessionEffect
<1>3. ASSUME NEW p \in Player, LeaveByChoice(p) \/ Disconnect(p)
      PROVE  TypeOK' /\ SessionEffect
  BY <1>0, <1>3, ChoiceType, DropType DEF SessionEffect, Chooses, Drops
<1>4. ASSUME NEW p \in Player, Connect(p) \/ TimerFires(p) \/ StrayFires(p) \/ TimerCallback(p)
      PROVE  TypeOK' /\ SessionEffect
  BY <1>0, <1>4, TimersType, CallbackType DEF SessionEffect, CallsBack
<1>5. ASSUME NEW th \in Threads, Step(th)
      PROVE  TypeOK' /\ \E o \in Threads : HoldEffect(o)
  BY <1>0, <1>5, HoldStep
<1>6. ASSUME NEW g \in Game, \/ PlayEnds(g)
                             \/ \E p \in Player : IdleOut(g, p)
                             \/ WatchIdle(g) \/ WatchEnd(g) \/ WatchClosed(g)
      PROVE  TypeOK' /\ MatchEffect(g)
  BY <1>0, <1>6, PlayEndsType, IdleOutType, WatchIdleType, WatchEndType, WatchClosedType DEF MatchEffect
<1>7. ASSUME DrainHeldStep \/ LeaveEachStep \/ BeginShutdown \/ StopFinalizers
      PROVE  TypeOK' /\ EndEffect
  BY <1>0, <1>7, DrainHeldType, LeaveEachType, ShutdownType, StopType DEF EndEffect
<1>8. ASSUME UNCHANGED vars PROVE TypeOK'
  BY <1>0, <1>8 DEF vars, TypeOK, index, tables, grace, matches, ends, people
<1> QED BY <1>0, <1>1, <1>2, <1>3, <1>4, <1>5, <1>6, <1>7, <1>8, NextCases

LEMMA HostsKept ==
  ASSUME TypeInv, [Next]_vars
  PROVE  WatchedHosts'
<1>0. TypeOK /\ WatchedHosts
  BY DEF TypeInv
<1>1. ASSUME UNCHANGED <<host, watching>> PROVE WatchedHosts'
  BY <1>0, <1>1 DEF WatchedHosts
<1>2. CASE SessionEffect
  BY ZenonT(60), <1>1, <1>2 DEF SessionEffect, New, JoinLobbyByCode, Readies, ToggleReady, Kick, Chooses, LeaveByChoice,
                    Drops, Disconnect, Connect, TimerFires, StrayFires, CallsBack, TimerCallback, matches
<1>3. ASSUME NEW th \in Threads, HoldEffect(th) PROVE WatchedHosts'
  <2>1. CASE \E p \in Player, t \in Table : Flipped(th, p, t)
    <3>1. PICK p \in Player, t \in Table : Flipped(th, p, t)
      BY <2>1
    <3>2. CASE UNCHANGED matches
      BY <1>1, <3>2 DEF matches
    <3>3. ASSUME NEW g \in Game, StartGame(t, g) PROVE WatchedHosts'
      BY <1>0, <3>3 DEF StartGame, WatchedHosts, TypeOK
    <3> QED BY <3>1, <3>2, <3>3 DEF Flipped
  <2>2. CASE \E p \in Player, g \in Game : Notified(th, p, g)
    BY <1>1, <2>2 DEF Notified, Gives, matches
  <2> QED BY <1>1, <1>3, <2>1, <2>2 DEF HoldEffect, Left, Removed, Silenced, Released, HeldReleased,
                                        Expired, Finalized, Written, matches
<1>4. ASSUME NEW g \in Game, MatchEffect(g) PROVE WatchedHosts'
  BY <1>0, <1>1, <1>4 DEF MatchEffect, Played, Idled, Gives, HeardIdle, HeardEnd, FoundClosed, WatchedHosts
<1>5. CASE EndEffect
  BY <1>1, <1>5 DEF EndEffect, Drained, DrainedOne, BeginShutdown, StopFinalizers, matches
<1>6. CASE UNCHANGED vars
  BY <1>1, <1>6 DEF vars, matches
<1> QED BY <1>2, <1>3, <1>4, <1>5, <1>6, Effects

LEMMA UnendedKept ==
  ASSUME TypeInv, [Next]_vars
  PROVE  Unended'
<1>0. TypeOK /\ Unended
  BY DEF TypeInv
<1>1. ASSUME UNCHANGED <<phase, reason>> PROVE Unended'
  BY <1>0, <1>1 DEF Unended
<1>2. CASE SessionEffect
  BY ZenonT(60), <1>1, <1>2 DEF SessionEffect, New, JoinLobbyByCode, Readies, ToggleReady, Kick, Chooses, LeaveByChoice,
                    Drops, Disconnect, Connect, TimerFires, StrayFires, CallsBack, TimerCallback, matches
<1>3. ASSUME NEW g \in Game, NEW r, NEW before, EndsWith(g, r, before) PROVE Unended'
  BY <1>0, <1>3 DEF EndsWith, Unended, TypeOK
<1>4. ASSUME NEW g \in Game, NEW p, NEW before, Gives(g, p, before) PROVE Unended'
  BY <1>1, <1>3, <1>4 DEF Gives
<1>5. ASSUME NEW th \in Threads, HoldEffect(th) PROVE Unended'
  <2>1. CASE \E p \in Player, t \in Table : Flipped(th, p, t)
    <3>1. PICK p \in Player, t \in Table : Flipped(th, p, t)
      BY <2>1
    <3>2. CASE UNCHANGED matches
      BY <1>1, <3>2 DEF matches
    <3>3. ASSUME NEW g \in Game, phase[g] = "Waiting", StartGame(t, g) PROVE Unended'
      BY <1>0, <3>3 DEF StartGame, Unended, TypeOK
    <3> QED BY <3>1, <3>2, <3>3 DEF Flipped
  <2>2. CASE \E p \in Player, g \in Game : Notified(th, p, g)
    BY <1>1, <1>4, <2>2 DEF Notified, matches
  <2> QED BY <1>1, <1>5, <2>1, <2>2 DEF HoldEffect, Left, Removed, Silenced, Released, HeldReleased,
                                        Expired, Finalized, Written, matches
<1>6. ASSUME NEW g \in Game, MatchEffect(g) PROVE Unended'
  BY <1>1, <1>3, <1>4, <1>6 DEF MatchEffect, Played, Idled, HeardIdle, HeardEnd, FoundClosed
<1>7. CASE EndEffect
  BY <1>1, <1>7 DEF EndEffect, Drained, DrainedOne, BeginShutdown, StopFinalizers, matches
<1>8. CASE UNCHANGED vars
  BY <1>1, <1>8 DEF vars, matches
<1> QED BY <1>2, <1>5, <1>6, <1>7, <1>8, Effects

LEMMA TypeInit == Init => TypeInv
<1> SUFFICES ASSUME Init PROVE TypeInv
  OBVIOUS
<1>1. /\ roster \in [Table -> Seq(Player)] /\ unread \in [Game -> Seq(Events)]
      /\ todo \in [Threads -> Seq(Holds)]
      /\ \A t \in Table : IsInjective(roster[t]) /\ Len(roster[t]) <= MaxPlayers
  BY TablesAssumption DEF Init, IsInjective
<1>2. /\ playerLobby \in [Player -> Table \cup {None}] /\ drops \in 0..MaxDrops
      /\ strays \in [Player -> Nat] /\ firing \in [Player -> Nat] /\ watching = {}
  BY TablesAssumption DEF Init
<1> QED BY <1>1, <1>2 DEF Init, TypeInv, TypeOK, WatchedHosts, Unended

LEMMA TypeStep == TypeInv /\ [Next]_vars => TypeInv'
BY Effects, HostsKept, UnendedKept DEF TypeInv

\* Every variable of the lobby manager keeps its type; no roster ever seats a player twice
\* or more players than the table has seats.
THEOREM TypeCorrect == Spec => []TypeOK
<1>1. TypeInv => TypeOK
  BY DEF TypeInv
<1> QED BY <1>1, TypeInit, TypeStep, PTL DEF Spec

-----------------------------------------------------------------------------
(* How a match ended, and what becomes of its result *)

\* A result on its way is that of a finished match, for the reason that was told.
Tells(g, r) == phase[g] = "Finished" /\ (reason[g] # None => r = reason[g])

EndsTold ==
  /\ ~shuttingDown => late = {}
  /\ \A g \in Game : reason[g] # None => phase[g] = "Finished"
  /\ \A g \in Game : record[g] # None => phase[g] = "Finished"
  /\ \A g \in Game, r \in EndReasons :
       Due(Finalize(g, r)) \/ Due(Persist(g, r)) \/ EndEvent(r) \in ToSet(unread[g]) => Tells(g, r)
  /\ \A g \in watching : reason[g] # None => EndEvent(reason[g]) \in ToSet(unread[g])

EndsInv == EndsTold /\ InterruptedUnrated

Reports == {"Finalize", "Persist"}

endvars == <<shuttingDown, late, reason, phase, record, unread, watching>>

LEMMA SomeHoldOps ==
  /\ \A held : \A h \in SomeHold(ExpireEach(held)) : h = ExpireEach(held)
  /\ \A held : \A h \in SomeHold(LeaveEach(held)) : h = LeaveEach(held)
BY DEF SomeHold

\* A step that ends no match and reports none.
LEMMA EndsQuiet ==
  ASSUME EndsInv, UNCHANGED endvars,
         \A g \in Game, r \in EndReasons : /\ Due(Finalize(g, r))' => Due(Finalize(g, r))
                                           /\ Due(Persist(g, r))' => Due(Persist(g, r))
  PROVE  EndsInv'
BY DEF EndsInv, EndsTold, Tells, InterruptedUnrated, endvars

LEMMA EndsTook ==
  ASSUME EndsInv, UNCHANGED endvars, NEW th \in Threads, NEW done, NEW new, Took(th, done, new),
         \A h \in new : h.op \notin Reports
  PROVE  EndsInv'
<1>1. ASSUME NEW h, h.op \in Reports, Due(h)' PROVE Due(h)
  BY <1>1, DueTook
<1> QED BY <1>1, EndsQuiet, HoldFields DEF Reports

LEMMA EndsSame ==
  ASSUME EndsInv, UNCHANGED endvars, UNCHANGED todo
  PROVE  EndsInv'
BY EndsQuiet, DueSame

LEMMA EndsSession ==
  ASSUME TypeOK, EndsInv, SessionEffect
  PROVE  EndsInv'
<1>1. UNCHANGED endvars
  BY DEF SessionEffect, New, JoinLobbyByCode, Readies, ToggleReady, Kick, Chooses, LeaveByChoice,
         Drops, Disconnect, Connect, TimerFires, StrayFires, CallsBack, TimerCallback, matches, ends, endvars
<1>2. CASE UNCHANGED todo
  BY <1>1, <1>2, EndsSame
<1>3. ASSUME NEW p \in Player, NEW t \in Table, Readies(p, t) PROVE EndsInv'
  BY <1>1, <1>3, EndsTook, HoldFields, ThreadsAre DEF Readies, Reports
<1>4. ASSUME NEW p \in Player, NEW th \in Threads, Took(th, {}, {LeaveLobby(p)}) PROVE EndsInv'
  BY <1>1, <1>4, EndsTook, HoldFields DEF Reports
<1> QED BY <1>2, <1>3, <1>4, ThreadsAre DEF SessionEffect, New, JoinLobbyByCode, Kick, Chooses, Drops, Arm,
         Connect, TimerFires, StrayFires, CallsBack

\* No more results are on their way than before.
NoReport == \A g \in Game, r \in EndReasons : /\ Due(Finalize(g, r))' => Due(Finalize(g, r))
                                              /\ Due(Persist(g, r))' => Due(Persist(g, r))

LEMMA NoReportTook ==
  ASSUME NEW th \in Threads, NEW done, NEW new, Took(th, done, new), \A h \in new : h.op \notin Reports
  PROVE  NoReport
<1>1. ASSUME NEW h, h.op \in Reports, Due(h)' PROVE Due(h)
  BY <1>1, DueTook
<1> QED BY <1>1, HoldFields DEF Reports, NoReport

LEMMA NoReportSame == UNCHANGED todo => NoReport
BY DueSame DEF NoReport

LEMMA EndsWithKept ==
  ASSUME TypeOK, EndsInv, NEW g \in Game, NEW r \in Ends, NEW before,
         phase[g] = "Playing", EndsWith(g, r, before), \A e \in before : e.type = "PlayerIdle",
         UNCHANGED <<shuttingDown, record, watching>>, NoReport
  PROVE  EndsInv'
<1>1. /\ phase'[g] = "Finished" /\ reason'[g] = r
      /\ \A f \in Game : f # g => /\ phase'[f] = phase[f] /\ reason'[f] = reason[f]
                                  /\ unread'[f] = unread[f]
  BY DEF EndsWith, Hears, TypeOK
<1>2. ASSUME NEW q \in EndReasons, EndEvent(q) \in ToSet(unread'[g])
      PROVE  reason'[g] = q
  <2>1. EndEvent(q) \notin ToSet(unread[g])
    BY DEF EndsInv, EndsTold, Tells
  <2>2. r # None /\ EndEvent(q) \in before \cup {EndEvent(r)}
    BY <1>2, <2>1, EventsAre DEF EndsWith, Hears
  <2> QED BY <1>1, <2>2, EventsAre
<1>3. reason'[g] # None => EndEvent(reason'[g]) \in ToSet(unread'[g])
  BY <1>1 DEF EndsWith, Hears
<1>4. ~shuttingDown => late' = {}
  BY DEF EndsWith, EndsInv, EndsTold
<1>5. record[g] # "Rated" /\ late' \subseteq late \cup {g}
  BY TablesAssumption DEF EndsWith, EndsInv, EndsTold
<1>6. EndsTold'
  <2>1. \A f \in Game : record[f] # None => phase'[f] = "Finished"
    BY <1>1 DEF EndsInv, EndsTold
  <2>2. \A f \in Game, q \in EndReasons :
          Due(Finalize(f, q))' \/ Due(Persist(f, q))' \/ EndEvent(q) \in ToSet(unread'[f]) => Tells(f, q)'
    BY <1>1, <1>2 DEF EndsInv, EndsTold, Tells, NoReport
  <2>3. \A f \in watching : reason'[f] # None => EndEvent(reason'[f]) \in ToSet(unread'[f])
    BY <1>1, <1>3 DEF EndsInv, EndsTold, TypeOK
  <2>4. \A f \in Game : reason'[f] # None => phase'[f] = "Finished"
    BY <1>1 DEF EndsInv, EndsTold
  <2> QED BY <1>4, <2>1, <2>2, <2>3, <2>4 DEF EndsTold
<1>7. InterruptedUnrated'
  BY <1>1, <1>5 DEF EndsInv, InterruptedUnrated
<1> QED BY <1>6, <1>7 DEF EndsInv

LEMMA HeardKept ==
  ASSUME TypeOK, EndsInv, NEW g \in Game, NEW before, Hears(g, before),
         \A e \in before : e.type = "PlayerIdle",
         UNCHANGED <<shuttingDown, record, phase, reason, late, watching>>, NoReport
  PROVE  EndsInv'
<1>1. \A f \in Game : f # g => unread'[f] = unread[f]
  BY DEF Hears
<1>2. \A q : EndEvent(q) \in ToSet(unread'[g]) <=> EndEvent(q) \in ToSet(unread[g])
  BY EventsAre DEF Hears
<1>3. \A f \in Game, q \in EndReasons :
        Due(Finalize(f, q))' \/ Due(Persist(f, q))' \/ EndEvent(q) \in ToSet(unread'[f]) => Tells(f, q)'
  BY <1>1, <1>2 DEF EndsInv, EndsTold, Tells, NoReport
<1>4. \A f \in watching : reason[f] # None => EndEvent(reason[f]) \in ToSet(unread'[f])
  BY <1>1, <1>2 DEF EndsInv, EndsTold, TypeOK
<1> QED BY <1>3, <1>4 DEF EndsInv, EndsTold, InterruptedUnrated

LEMMA GivesKept ==
  ASSUME TypeOK, EndsInv, NEW g \in Game, NEW p \in Player, NEW before, Gives(g, p, before),
         \A e \in before : e.type = "PlayerIdle",
         UNCHANGED <<shuttingDown, record>>, NoReport
  PROVE  EndsInv'
<1>1. UNCHANGED watching
  BY DEF Gives
<1>2. ASSUME NEW r \in Ends, phase[g] = "Playing", EndsWith(g, r, before) PROVE EndsInv'
  BY <1>1, <1>2, EndsWithKept
<1>3. CASE Hears(g, before) /\ UNCHANGED <<phase, reason, late>>
  BY <1>1, <1>3, HeardKept
<1> QED BY <1>2, <1>3 DEF Gives

LEMMA EndsHold ==
  ASSUME TypeOK, EndsInv, NEW th \in Threads, HoldEffect(th)
  PROVE  EndsInv'
<1>1. ASSUME NEW p \in Player, Left(th, p) PROVE EndsInv'
  <2>1. UNCHANGED endvars
    BY <1>1 DEF Left, endvars, matches, ends
  <2>2. CASE Took(th, {LeaveLobby(p)}, {})
    BY <2>1, <2>2, EndsTook
  <2>3. ASSUME NEW t \in Table, Took(th, {LeaveLobby(p)}, AfterLeaving(p, t)) PROVE EndsInv'
    <3>1. \A h \in AfterLeaving(p, t) : h.op \notin Reports
      BY HoldFields DEF AfterLeaving, Reports
    <3> QED BY <2>1, <2>3, <3>1, EndsTook
  <2> QED BY <1>1, <2>2, <2>3 DEF Left
<1>2. ASSUME NEW p \in Player, NEW g \in Game, Notified(th, p, g) PROVE EndsInv'
  <2>1. NoReport
    BY <1>2, NoReportTook DEF Notified
  <2>2. CASE Gives(g, p, {})
    BY <1>2, <2>1, <2>2, GivesKept DEF Notified, ends
  <2>3. CASE UNCHANGED matches
    BY <1>2, <2>3, EndsTook DEF Notified, matches, ends, endvars
  <2> QED BY <1>2, <2>2, <2>3 DEF Notified
<1>3. ASSUME NEW t \in Table, Removed(th, t) PROVE EndsInv'
  <2>1. UNCHANGED endvars
    BY <1>3 DEF Removed, endvars, matches, ends
  <2> DEFINE new == IF activeEngine[t] = None THEN {} ELSE {CloseEngine(activeEngine[t])}
  <2>2. \A h \in new : h.op \notin Reports
    BY HoldFields DEF Reports
  <2>3. Took(th, {RemoveLobby(t)}, new)
    BY <1>3 DEF Removed
  <2> QED BY <2>1, <2>2, <2>3, EndsTook
<1>4. ASSUME NEW g \in Game, Silenced(th, g) PROVE EndsInv'
  BY <1>4, EndsTook DEF Silenced, endvars, ends
<1>5. ASSUME NEW p \in Player, NEW t \in Table, Flipped(th, p, t) PROVE EndsInv'
  <2>1. CASE UNCHANGED matches
    BY <1>5, <2>1, EndsTook DEF Flipped, endvars, matches, ends
  <2>2. ASSUME NEW g \in Game, phase[g] = "Waiting", StartGame(t, g) PROVE EndsInv'
    <3>1. NoReport
      BY <1>5, NoReportTook DEF Flipped
    <3>2. /\ \A f \in Game : phase[f] = "Finished" => phase'[f] = "Finished"
          /\ watching' = watching \cup {g} /\ reason[g] = None
          /\ UNCHANGED <<reason, unread, late>>
      BY <2>2 DEF StartGame, TypeOK, EndsInv, EndsTold
    <3>3. UNCHANGED <<shuttingDown, record>>
      BY <1>5 DEF Flipped, ends
    <3> QED BY <3>1, <3>2, <3>3 DEF EndsInv, EndsTold, Tells, InterruptedUnrated, NoReport
  <2> QED BY <1>5, <2>1, <2>2 DEF Flipped
<1>6. ASSUME NEW t \in Table, Released(th, t) PROVE EndsInv'
  <2>1. UNCHANGED endvars
    BY <1>6 DEF Released, endvars, matches, ends
  <2> DEFINE g == activeEngine[t]
  <2>2. \A h \in {CloseEngine(g), ReleaseHeld(t)} : h.op \notin Reports
    BY HoldFields DEF Reports
  <2> HIDE DEF g
  <2>3. CASE Took(th, {ReleaseGame(t)}, {})
    BY <2>1, <2>3, EndsTook
  <2>4. CASE Took(th, {ReleaseGame(t)}, {CloseEngine(g), ReleaseHeld(t)})
    BY <2>1, <2>2, <2>4, EndsTook
  <2> QED BY <1>6, <2>3, <2>4 DEF Released, g
<1>7. ASSUME NEW t \in Table, HeldReleased(th, t) PROVE EndsInv'
  <2>1. \A h \in SomeHold(ExpireEach(HeldAt(t))) : h.op \notin Reports
    BY SomeHoldOps, HoldFields DEF Reports
  <2> QED BY <1>7, <2>1, EndsTook DEF HeldReleased, endvars, matches, ends
<1>8. ASSUME NEW held \in SUBSET Player, NEW p \in held, Expired(th, held, p) PROVE EndsInv'
  <2>1. UNCHANGED endvars
    BY <1>8 DEF Expired, endvars, matches, ends
  <2>2. \A h \in SomeHold(ExpireEach(held \ {p})) : h.op \notin Reports
    BY SomeHoldOps, HoldFields DEF Reports
  <2>3. \A h \in {LeaveLobby(p)} \cup SomeHold(ExpireEach(held \ {p})) : h.op \notin Reports
    BY <2>2, HoldFields DEF Reports
  <2> QED BY <1>8, <2>1, <2>2, <2>3, EndsTook DEF Expired
<1>9. ASSUME NEW g \in Game, NEW r \in EndReasons, Finalized(th, g, r) PROVE EndsInv'
  <2>1. Tells(g, r)
    BY <1>9, DueIs DEF Finalized, EndsInv, EndsTold
  <2>2. UNCHANGED <<shuttingDown, late, reason, phase, unread, watching>>
    BY <1>9 DEF Finalized, matches, ends
  <2>3. \A f \in Game, q \in EndReasons :
          /\ Due(Finalize(f, q))' => Due(Finalize(f, q))
          /\ Due(Persist(f, q))' => Due(Persist(f, q)) \/ (f = g /\ q = r)
    <3>1. ASSUME NEW h, Due(h)' PROVE Due(h) \/ h = Persist(g, r)
      BY <1>9, <3>1, DueTook DEF Finalized
    <3> QED BY <3>1, HoldFields
  <2>4. record'[g] # "Rated" /\ \A f \in Game : f # g => record'[f] = record[f]
    BY <1>9 DEF Finalized, TypeOK
  <2> QED BY <2>1, <2>2, <2>3, <2>4 DEF EndsInv, EndsTold, Tells, InterruptedUnrated
<1>10. ASSUME NEW g \in Game, NEW r \in EndReasons, Written(th, g, r) PROVE EndsInv'
  <2>1. Tells(g, r)
    BY <1>10, DueIs DEF Written, EndsInv, EndsTold
  <2>2. UNCHANGED <<shuttingDown, late, reason, phase, unread, watching>> /\ NoReport
    BY <1>10, NoReportTook DEF Written, matches, ends
  <2>3. /\ record'[g] = "Rated" => Rated(r)
        /\ \A f \in Game : f # g => record'[f] = record[f]
    BY <1>10 DEF Written, TypeOK
  <2>4. Rated(r) => g \notin late /\ reason[g] \notin {"RulesError", "Abandoned"}
    BY <2>1, TablesAssumption DEF Rated, Tells, EndsInv, EndsTold, EndReasons
  <2> QED BY <2>1, <2>2, <2>3, <2>4 DEF EndsInv, EndsTold, Tells, InterruptedUnrated, NoReport
<1> QED BY <1>1, <1>2, <1>3, <1>4, <1>5, <1>6, <1>7, <1>8, <1>9, <1>10 DEF HoldEffect

LEMMA EndsMatch ==
  ASSUME TypeOK, EndsInv, NEW g \in Game, MatchEffect(g)
  PROVE  EndsInv'
<1>0. Watcher(g) \in Threads
  BY ThreadsAre
<1>1. ASSUME NEW r \in Ends, Played(g, r) PROVE EndsInv'
  BY <1>1, EndsWithKept, NoReportSame DEF Played, ends
<1>2. ASSUME NEW p \in Player, Idled(g, p) PROVE EndsInv'
  <2>1. UNCHANGED <<shuttingDown, record>> /\ NoReport
    BY <1>2, NoReportSame DEF Idled, ends
  <2>2. CASE Gives(g, p, {IdleEvent(p)})
    BY <2>1, <2>2, GivesKept, EventsAre
  <2>3. CASE Hears(g, {IdleEvent(p)}) /\ UNCHANGED <<host, seats, phase, reason, feedOpen, watching, late>>
    <3>1. \A e \in {IdleEvent(p)} : e.type = "PlayerIdle"
      BY EventsAre
    <3> QED BY <2>1, <2>3, <3>1, HeardKept
  <2> QED BY <1>2, <2>2, <2>3 DEF Idled
<1>3. ASSUME NEW p \in Player, HeardIdle(g, p) PROVE EndsInv'
  <2>1. NoReport
    BY <1>0, <1>3, NoReportTook, HoldFields DEF HeardIdle, Reports
  <2>2. /\ \A f \in Game : \A q : EndEvent(q) \in ToSet(unread'[f]) <=> EndEvent(q) \in ToSet(unread[f])
    BY <1>3, EventsAre DEF HeardIdle, Takes
  <2>3. UNCHANGED <<shuttingDown, late, reason, phase, record, watching>>
    BY <1>3 DEF HeardIdle, ends
  <2> QED BY <2>1, <2>2, <2>3 DEF EndsInv, EndsTold, Tells, InterruptedUnrated, NoReport, TypeOK
<1>4. ASSUME NEW r \in EndReasons, HeardEnd(g, r) PROVE EndsInv'
  <2>1. Tells(g, r)
    BY <1>4 DEF HeardEnd, Takes, EndsInv, EndsTold
  <2>2. \A f \in Game, q \in EndReasons :
          /\ Due(Finalize(f, q))' => Due(Finalize(f, q)) \/ (f = g /\ q = r)
          /\ Due(Persist(f, q))' => Due(Persist(f, q))
    <3>1. ASSUME NEW h, Due(h)' PROVE Due(h) \/ h = ReleaseGame(host[g]) \/ h = Finalize(g, r)
      BY <1>0, <1>4, <3>1, DueTook DEF HeardEnd
    <3> QED BY <3>1, HoldFields
  <2>3. UNCHANGED <<shuttingDown, late, reason, phase, record>> /\ watching' = watching \ {g}
    BY <1>4 DEF HeardEnd, ends
  <2>4. /\ \A f \in Game : f # g => unread'[f] = unread[f]
        /\ \A q : EndEvent(q) \in ToSet(unread'[g]) => EndEvent(q) \in ToSet(unread[g])
    BY <1>4 DEF HeardEnd, Takes
  <2>5. \A f \in Game, q \in EndReasons :
          Due(Finalize(f, q))' \/ Due(Persist(f, q))' \/ EndEvent(q) \in ToSet(unread'[f]) => Tells(f, q)'
    BY <2>1, <2>2, <2>3, <2>4 DEF EndsInv, EndsTold, Tells
  <2>6. \A f \in watching' : reason[f] # None => EndEvent(reason[f]) \in ToSet(unread'[f])
    BY <2>3, <2>4 DEF EndsInv, EndsTold, TypeOK
  <2> QED BY <2>3, <2>5, <2>6 DEF EndsInv, EndsTold, InterruptedUnrated
<1>5. CASE FoundClosed(g)
  <2>1. UNCHANGED <<shuttingDown, late, reason, phase, record, unread>> /\ watching' = watching \ {g}
    BY <1>5 DEF FoundClosed, ends
  <2>2. CASE UNCHANGED todo
    BY <2>1, <2>2, NoReportSame DEF EndsInv, EndsTold, Tells, InterruptedUnrated, NoReport
  <2>3. CASE phase[g] = "Finished" /\ Took(Watcher(g), {}, {ReleaseGame(host[g]), Finalize(g, "Unknown")})
    <3>1. reason[g] = None
      <4>1. ToSet(unread[g]) = {} /\ g \in watching
        BY <1>5, InSeq DEF FoundClosed, Listening
      <4> QED BY <4>1 DEF EndsInv, EndsTold
    <3>2. \A f \in Game, q \in EndReasons :
            /\ Due(Finalize(f, q))' => Due(Finalize(f, q)) \/ f = g
            /\ Due(Persist(f, q))' => Due(Persist(f, q))
      <4>1. ASSUME NEW h, Due(h)' PROVE Due(h) \/ h = ReleaseGame(host[g]) \/ h = Finalize(g, "Unknown")
        BY <1>0, <2>3, <4>1, DueTook
      <4> QED BY <4>1, HoldFields
    <3>3. \A f \in Game, q \in EndReasons :
            Due(Finalize(f, q))' \/ Due(Persist(f, q))' \/ EndEvent(q) \in ToSet(unread'[f]) => Tells(f, q)'
      BY <2>1, <2>3, <3>1, <3>2 DEF EndsInv, EndsTold, Tells
    <3> QED BY <2>1, <3>3 DEF EndsInv, EndsTold, InterruptedUnrated
  <2> QED BY <1>5, <2>2, <2>3 DEF FoundClosed
<1> QED BY <1>1, <1>2, <1>3, <1>4, <1>5 DEF MatchEffect

LEMMA EndsEnd ==
  ASSUME TypeOK, EndsInv, EndEffect
  PROVE  EndsInv'
<1>0. Main \in Threads
  BY ThreadsAre
<1>1. CASE Drained
  <2>1. \A h \in SomeHold(LeaveEach(HeldSeats)) : h.op \notin Reports
    BY SomeHoldOps, HoldFields DEF Reports
  <2> QED BY <1>0, <1>1, <2>1, EndsTook DEF Drained, endvars, matches, ends
<1>2. ASSUME NEW held \in SUBSET Player, NEW p \in held, DrainedOne(held, p) PROVE EndsInv'
  <2>1. \A h \in SomeHold(LeaveEach(held \ {p})) : h.op \notin Reports
    BY SomeHoldOps, HoldFields DEF Reports
  <2>2. \A h \in {LeaveLobby(p)} \cup SomeHold(LeaveEach(held \ {p})) : h.op \notin Reports
    BY <2>1, HoldFields DEF Reports
  <2>3. UNCHANGED endvars
    BY <1>2 DEF DrainedOne, endvars, matches, ends
  <2> QED BY <1>0, <1>2, <2>2, <2>3, EndsTook DEF DrainedOne
<1>3. CASE BeginShutdown /\ Took(Main, {}, {DrainHeld})
  <2>1. NoReport
    BY <1>0, <1>3, NoReportTook, HoldFields DEF Reports
  <2> QED BY <1>3, <2>1 DEF BeginShutdown, matches, EndsInv, EndsTold, Tells, InterruptedUnrated, NoReport
<1>4. CASE StopFinalizers
  BY <1>4, EndsSame DEF StopFinalizers, endvars, matches
<1> QED BY <1>1, <1>2, <1>3, <1>4 DEF EndEffect

LEMMA EndsStep == TypeInv /\ EndsInv /\ [Next]_vars => EndsInv'
<1> SUFFICES ASSUME TypeInv, EndsInv, [Next]_vars PROVE EndsInv'
  OBVIOUS
<1>1. CASE UNCHANGED vars
  BY <1>1, EndsSame DEF vars, matches, ends, endvars
<1> QED BY <1>1, Effects, EndsSession, EndsHold, EndsMatch, EndsEnd DEF TypeInv

LEMMA EndsInit == Init => EndsInv
<1> SUFFICES ASSUME Init PROVE EndsInv
  OBVIOUS
<1>1. \A th \in Threads : \A h : ~Has(th, h)
  BY InSeq DEF Init, Has
<1>2. \A h : ~Due(h)
  BY <1>1, DueIs
<1>3. \A g \in Game : ToSet(unread[g]) = {}
  BY InSeq DEF Init
<1> QED BY <1>2, <1>3, TablesAssumption DEF Init, EndsInv, EndsTold, InterruptedUnrated

\* A match that ended after the shutdown began moves nobody's rating, and neither does one
\* whose end was announced as broken rules or as an abandoned table: however the watchers, the
\* finalizers and the shutdown interleave.  It says nothing of an abandoned match whose feed
\* was closed before its end; that one the code does rate.
THEOREM InterruptedNeverRated == Spec => []InterruptedUnrated
<1>1. TypeInv /\ EndsInv => InterruptedUnrated
  BY DEF EndsInv
<1> QED BY <1>1, TypeInit, TypeStep, EndsInit, EndsStep, PTL DEF Spec

-----------------------------------------------------------------------------
(* The seats that are held when the process shuts down *)

\* Main is on its way to p's seat.
DrainsSeat(p) ==
  \/ Has(Main, DrainHeld)
  \/ Has(Main, LeaveLobby(p))
  \/ \E held \in SUBSET Player : p \in held /\ Has(Main, LeaveEach(held))

DrainComing == shuttingDown => \A p \in HeldSeats : DrainsSeat(p)

Drains == {"DrainHeld", "LeaveLobby", "LeaveEach"}

\* A step that holds no seat anew, and is none of the drain's own.
LEMMA DrainTook ==
  ASSUME DrainComing, UNCHANGED shuttingDown, shuttingDown => HeldSeats' \subseteq HeldSeats,
         NEW th \in Threads, NEW done, NEW new, Took(th, done, new), \A h \in done : h.op \notin Drains
  PROVE  DrainComing'
<1>1. ASSUME NEW h, h.op \in Drains, Has(Main, h) PROVE Has(Main, h)'
  BY <1>1, ThreadsAre DEF Took, Has
<1>2. ASSUME NEW p \in Player, DrainsSeat(p) PROVE DrainsSeat(p)'
  BY <1>1, <1>2, HoldFields DEF DrainsSeat, Drains
<1> QED BY <1>2 DEF DrainComing, HeldSeats

LEMMA DrainSame ==
  ASSUME DrainComing, UNCHANGED <<shuttingDown, todo>>, shuttingDown => HeldSeats' \subseteq HeldSeats
  PROVE  DrainComing'
BY DEF DrainComing, DrainsSeat, Has

LEMMA DrainSession ==
  ASSUME TypeOK, DrainComing, SessionEffect
  PROVE  DrainComing'
<1>1. UNCHANGED shuttingDown
  BY DEF SessionEffect, New, JoinLobbyByCode, Readies, ToggleReady, Kick, Chooses, LeaveByChoice,
         Drops, Disconnect, Connect, TimerFires, StrayFires, CallsBack, TimerCallback, ends
<1>2. CASE shuttingDown
  <2>1. HeldSeats' \subseteq HeldSeats
    BY ZenonT(60), <1>2 DEF SessionEffect, New, JoinLobbyByCode, Readies, ToggleReady, Kick, Chooses, LeaveByChoice,
         Drops, Connect, TimerFires, StrayFires, CallsBack, BeginExpire, grace, HeldSeats, Holdable, TypeOK
  <2>2. CASE UNCHANGED todo
    BY <1>1, <2>1, <2>2, DrainSame
  <2>3. ASSUME NEW th \in Threads, NEW new, Took(th, {}, new) PROVE DrainComing'
    BY <1>1, <2>1, <2>3, DrainTook
  <2> QED BY <2>2, <2>3, ThreadsAre DEF SessionEffect, New, JoinLobbyByCode, Readies, Kick, Chooses, Drops,
         Arm, Connect, TimerFires, StrayFires, CallsBack
<1> QED BY <1>1, <1>2 DEF DrainComing

LEMMA DrainHold ==
  ASSUME TypeOK, DrainComing, NEW th \in Threads, HoldEffect(th)
  PROVE  DrainComing'
<1>1. ASSUME NEW p \in Player, Left(th, p) PROVE DrainComing'
  <2>1. UNCHANGED shuttingDown /\ HeldSeats' = HeldSeats \ {p}
    BY <1>1 DEF Left, HeldSeats, ends, TypeOK
  <2>2. ASSUME NEW h, h # LeaveLobby(p), Has(Main, h) PROVE Has(Main, h)'
    BY <1>1, <2>2, ThreadsAre DEF Left, Took, Has
  <2>3. ASSUME NEW q \in Player, q # p, DrainsSeat(q) PROVE DrainsSeat(q)'
    BY <2>2, <2>3, HoldFields DEF DrainsSeat
  <2> QED BY <2>1, <2>3 DEF DrainComing, HeldSeats
<1>2. CASE \E p \in Player, g \in Game : Notified(th, p, g)
  BY <1>2, DrainTook, HoldFields DEF Notified, Drains, HeldSeats, grace, ends
<1>3. CASE \E t \in Table : Removed(th, t)
  BY <1>3, DrainTook, HoldFields DEF Removed, Drains, HeldSeats, grace, ends
<1>4. CASE \E g \in Game : Silenced(th, g)
  BY <1>4, DrainTook, HoldFields DEF Silenced, Drains, HeldSeats, grace, ends
<1>5. CASE \E p \in Player, t \in Table : Flipped(th, p, t)
  BY <1>5, DrainTook, HoldFields DEF Flipped, Drains, HeldSeats, grace, ends
<1>6. CASE \E t \in Table : Released(th, t)
  BY <1>6, DrainTook, HoldFields DEF Released, Drains, HeldSeats, grace, ends
<1>7. CASE \E t \in Table : HeldReleased(th, t)
  BY <1>7, DrainTook, HoldFields DEF HeldReleased, Drains, HeldSeats, grace, ends
<1>8. ASSUME NEW held \in SUBSET Player, NEW p \in held, Expired(th, held, p) PROVE DrainComing'
  <2>1. UNCHANGED shuttingDown /\ HeldSeats' \subseteq HeldSeats
    BY <1>8 DEF Expired, BeginExpire, HeldSeats, grace, ends, TypeOK
  <2>2. \A h \in {ExpireEach(held)} : h.op \notin Drains
    BY HoldFields DEF Drains
  <2> QED BY <1>8, <2>1, <2>2, DrainTook DEF Expired
<1>9. CASE \E g \in Game, r \in EndReasons : Finalized(th, g, r)
  BY <1>9, DrainTook, HoldFields DEF Finalized, Drains, HeldSeats, grace, ends
<1>10. CASE \E g \in Game, r \in EndReasons : Written(th, g, r)
  BY <1>10, DrainTook, HoldFields DEF Written, Drains, HeldSeats, grace, ends
<1> QED BY <1>1, <1>2, <1>3, <1>4, <1>5, <1>6, <1>7, <1>8, <1>9, <1>10 DEF HoldEffect

LEMMA DrainMatch ==
  ASSUME DrainComing, NEW g \in Game, MatchEffect(g)
  PROVE  DrainComing'
<1>1. UNCHANGED <<shuttingDown, pending>>
  BY DEF MatchEffect, Played, Idled, HeardIdle, HeardEnd, FoundClosed, grace, ends
<1>2. ASSUME NEW new, Took(Watcher(g), {}, new) PROVE DrainComing'
  BY <1>1, <1>2, DrainTook, ThreadsAre DEF HeldSeats
<1>3. CASE UNCHANGED todo
  BY <1>1, <1>3, DrainSame DEF HeldSeats
<1> QED BY <1>2, <1>3 DEF MatchEffect, Played, Idled, HeardIdle, HeardEnd, FoundClosed

\* From the list of held seats each is given up in turn.
LEMMA DrainEnd ==
  ASSUME TypeOK, DrainComing, EndEffect
  PROVE  DrainComing'
<1>0. Main \in Threads
  BY ThreadsAre
<1>1. CASE Drained
  <2>1. UNCHANGED <<shuttingDown, pending>>
    BY <1>1 DEF Drained, grace, ends
  <2>2. ASSUME NEW p \in HeldSeats PROVE DrainsSeat(p)'
    <3>1. PICK held \in SUBSET Player : held = HeldSeats
      BY DEF HeldSeats
    <3>2. Took(Main, {DrainHeld}, SomeHold(LeaveEach(held)))
      BY <1>1, <3>1 DEF Drained
    <3>3. LeaveEach(held) \in SomeHold(LeaveEach(held))
      BY <3>1, HoldFields DEF SomeHold
    <3>4. Has(Main, LeaveEach(held))'
      BY <3>2, <3>3 DEF Took
    <3> QED BY <3>1, <3>4 DEF DrainsSeat
  <2> QED BY <2>1, <2>2 DEF DrainComing, HeldSeats
<1>2. ASSUME NEW held \in SUBSET Player, NEW p \in held, DrainedOne(held, p) PROVE DrainComing'
  <2>1. UNCHANGED <<shuttingDown, pending>>
    BY <1>2 DEF DrainedOne, grace, ends
  <2> DEFINE rest == held \ {p}
  <2> HIDE DEF rest
  <2>2. Has(Main, LeaveLobby(p))' /\ (rest # {} => Has(Main, LeaveEach(rest))')
    <3>1. Took(Main, {LeaveEach(held)}, {LeaveLobby(p)} \cup SomeHold(LeaveEach(rest)))
      BY <1>2 DEF DrainedOne, rest
    <3>2. rest # {} => LeaveEach(rest) \in SomeHold(LeaveEach(rest))
      BY HoldFields DEF SomeHold
    <3> QED BY <3>1, <3>2 DEF Took
  <2>3. ASSUME NEW h, h # LeaveEach(held), Has(Main, h) PROVE Has(Main, h)'
    BY <1>2, <2>3 DEF DrainedOne, Took
  <2>4. ASSUME NEW q \in Player, DrainsSeat(q) PROVE DrainsSeat(q)'
    <3>1. CASE Has(Main, DrainHeld) \/ Has(Main, LeaveLobby(q))
      BY <2>3, <3>1, HoldFields DEF DrainsSeat
    <3>2. ASSUME NEW l \in SUBSET Player, q \in l, Has(Main, LeaveEach(l)) PROVE DrainsSeat(q)'
      <4>1. CASE l # held
        <5>1. Has(Main, LeaveEach(l))'
          BY <2>3, <3>2, <4>1, HoldFields
        <5> QED BY <3>2, <5>1 DEF DrainsSeat
      <4>2. CASE l = held /\ q = p
        BY <2>2, <4>2 DEF DrainsSeat
      <4>3. CASE l = held /\ q # p
        <5>1. q \in rest /\ rest \in SUBSET Player
          BY <3>2, <4>3 DEF rest
        <5>2. Has(Main, LeaveEach(rest))'
          BY <2>2, <5>1
        <5> QED BY <5>1, <5>2 DEF DrainsSeat
      <4> QED BY <4>1, <4>2, <4>3
    <3> QED BY <2>4, <3>1, <3>2 DEF DrainsSeat
  <2> QED BY <2>1, <2>4 DEF DrainComing, HeldSeats
<1>3. CASE BeginShutdown /\ Took(Main, {}, {DrainHeld})
  BY <1>3 DEF Took, DrainComing, DrainsSeat
<1>4. CASE StopFinalizers
  BY <1>4, DrainSame DEF StopFinalizers, HeldSeats, grace
<1> QED BY <1>1, <1>2, <1>3, <1>4 DEF EndEffect

LEMMA DrainStep == TypeInv /\ DrainComing /\ [Next]_vars => DrainComing'
<1> SUFFICES ASSUME TypeInv, DrainComing, [Next]_vars PROVE DrainComing'
  OBVIOUS
<1>1. CASE UNCHANGED vars
  BY <1>1, DrainSame DEF vars, grace, ends, HeldSeats
<1> QED BY <1>1, Effects, DrainSession, DrainHold, DrainMatch, DrainEnd DEF TypeInv

\* Once the process has begun to shut down and main has drained the holds, no seat is held
\* for a reconnect that cannot come: a session that drops in between is not held anew.
THEOREM HoldsDrained == Spec => []NoHoldAfterDrain
<1>1. Init => DrainComing
  BY DEF Init, DrainComing
<1>2. TypeInv /\ DrainComing => NoHoldAfterDrain
  BY InSeq DEF DrainComing, DrainsSeat, NoHoldAfterDrain, Idle, Has
<1> QED BY <1>1, <1>2, TypeInit, TypeStep, DrainStep, PTL DEF Spec

-----------------------------------------------------------------------------
(* Rosters and the index *)

\* An open table can be found, an unused one cannot, and the table that somebody is about
\* to remove is closed, with one player left on its roster.
TablesListed ==
  /\ \A t \in Table : Open(t) => t \in lobbies
  /\ \A t \in Table : state[t] = "Unused" => t \notin lobbies
  /\ \A t \in Table : Due(RemoveLobby(t)) =>
       state[t] = "Closed" /\ \E p \in Player : roster[t] = <<p>>

\* A table that p left last of all is gone, and took p's index entry with it.
Swept(p) == \E t \in Table : state[t] = "Closed" /\ t \notin lobbies /\ roster[t] = <<p>>

IndexInv == IndexFollowsRoster /\ TablesListed

\* What is gone is gone.
GoneStays == \A t \in Table : state[t] = "Closed" /\ t \notin lobbies =>
                state'[t] = "Closed" /\ t \notin lobbies' /\ roster'[t] = roster[t]

LEMMA SweptStays ==
  ASSUME GoneStays
  PROVE  \A p : Swept(p) => Swept(p)'
BY DEF GoneStays, Swept

LEMMA IndexParts ==
  IndexFollowsRoster <=>
    \A p \in Player, t \in Table :
      /\ playerLobby[p] = t => t \in lobbies /\ Open(t) /\ OnRoster(p, t)
      /\ Open(t) /\ OnRoster(p, t) => playerLobby[p] = t \/ Swept(p)
BY DEF IndexFollowsRoster, Swept

LEMMA IndexPartsNext ==
  IndexFollowsRoster' <=>
    \A p \in Player, t \in Table :
      /\ playerLobby'[p] = t => t \in lobbies' /\ Open(t)' /\ OnRoster(p, t)'
      /\ Open(t)' /\ OnRoster(p, t)' => playerLobby'[p] = t \/ Swept(p)'
BY DEF IndexFollowsRoster, Swept

\* Whoever the server is done with sits nowhere before it opens or joins a table.
LEMMA SitsNowhere ==
  ASSUME TypeOK, IndexInv, NEW p \in Player, ~InLobby(p)
  PROVE  playerLobby[p] = None
BY IndexParts DEF TypeOK, IndexInv, InLobby

LEMMA OpenSeats ==
  ASSUME TypeOK, NEW p \in Player, NEW t \in Table, New(p, t)
  PROVE  /\ ToSet(roster'[t]) = {p}
         /\ \A s \in Table : s # t => ToSet(roster'[s]) = ToSet(roster[s])
<1>1. /\ roster'[t] = <<p>> /\ \A s \in Table : s # t => roster'[s] = roster[s]
  BY DEF New, TypeOK
<1> QED BY <1>1, InSeq

LEMMA JoinSeats ==
  ASSUME TypeOK, NEW p \in Player, NEW t \in Table, JoinLobbyByCode(p, t)
  PROVE  /\ ToSet(roster'[t]) = ToSet(roster[t]) \cup {p}
         /\ \A s \in Table : s # t => ToSet(roster'[s]) = ToSet(roster[s])
<1>1. /\ roster'[t] = Append(roster[t], p) /\ \A s \in Table : s # t => roster'[s] = roster[s]
      /\ roster[t] \in Seq(Player) /\ IsInjective(roster[t]) /\ p \notin ToSet(roster[t])
  BY DEF JoinLobbyByCode, OnRoster, TypeOK
<1> QED BY <1>1, AppendSet

LEMMA KickSeats ==
  ASSUME TypeOK, NEW p \in Player, NEW q \in Player, Kick(p, q)
  PROVE  \E t \in Table :
           /\ playerLobby[p] = t /\ state[t] = "Waiting" /\ OnRoster(q, t)
           /\ SeatLost(q, t) /\ playerLobby' = [playerLobby EXCEPT ![q] = None]
           /\ UNCHANGED <<lobbies, state, activeEngine, todo, grace, matches, people>>
<1> DEFINE t == playerLobby[p]
<1>1. t \in Table /\ OnRoster(q, t)
  BY KickTarget
<1>2. roster' = [roster EXCEPT ![t] = RosterWithout(q, t)]
  BY DEF Kick
<1>3. ToSet(RosterWithout(q, t)) = ToSet(roster[t]) \ {q}
  BY <1>1, RosterLeft
<1>4. SeatLost(q, t)
  <2>1. roster'[t] = RosterWithout(q, t) /\ \A s \in Table : s # t => roster'[s] = roster[s]
    BY <1>1, <1>2 DEF TypeOK
  <2> QED BY <1>2, <1>3, <2>1 DEF SeatLost
<1> QED BY <1>1, <1>4 DEF Kick

NoRemoval == \A t \in Table : Due(RemoveLobby(t))' => Due(RemoveLobby(t))

LEMMA NoRemovalTook ==
  ASSUME NEW th \in Threads, NEW done, NEW new, Took(th, done, new), \A h \in new : h.op # "RemoveLobby"
  PROVE  NoRemoval
BY DueTook, HoldFields DEF NoRemoval

LEMMA NoRemovalSame == UNCHANGED todo => NoRemoval
BY DueSame DEF NoRemoval

indexvars == <<lobbies, playerLobby, state, roster>>

LEMMA IndexQuiet ==
  ASSUME IndexInv, UNCHANGED indexvars, NoRemoval
  PROVE  IndexInv'
BY DEF IndexInv, IndexFollowsRoster, TablesListed, NoRemoval, indexvars, Open, OnRoster

\* p sits down at t, which nobody is about to remove.
LEMMA IndexSits ==
  ASSUME TypeOK, IndexInv, NEW p \in Player, NEW t \in Table, playerLobby[p] = None,
         playerLobby' = [playerLobby EXCEPT ![p] = t], NoRemoval, ~Due(RemoveLobby(t)),
         state[t] = "Closed" => t \in lobbies, t \in lobbies', lobbies' = lobbies \cup {t},
         state'[t] = "Waiting", \A s \in Table : s # t => state'[s] = state[s] /\ roster'[s] = roster[s],
         state[t] # "Waiting" => ToSet(roster'[t]) = {p},
         state[t] = "Waiting" => ToSet(roster'[t]) = ToSet(roster[t]) \cup {p},
         state[t] \in {"Unused", "Waiting"}
  PROVE  IndexInv'
<1>1. playerLobby'[p] = t /\ \A q \in Player : q # p => playerLobby'[q] = playerLobby[q]
  BY DEF TypeOK
<1>2. GoneStays
  BY DEF GoneStays
<1>3. IndexFollowsRoster'
  <2>1. ASSUME NEW q \in Player, NEW s \in Table, playerLobby'[q] = s
        PROVE  s \in lobbies' /\ Open(s)' /\ OnRoster(q, s)'
    <3>1. CASE q = p
      BY <1>1, <2>1, <3>1 DEF Open, OnRoster
    <3>2. CASE q # p
      <4>1. s \in lobbies /\ Open(s) /\ OnRoster(q, s)
        BY <1>1, <2>1, <3>2, IndexParts DEF IndexInv
      <4> QED BY <4>1 DEF Open, OnRoster
    <3> QED BY <3>1, <3>2
  <2>2. ASSUME NEW q \in Player, NEW s \in Table, Open(s)', OnRoster(q, s)', playerLobby'[q] # s
        PROVE  Swept(q)'
    <3>1. q # p \/ s # t
      BY <1>1, <2>2
    <3>2. Open(s) /\ OnRoster(q, s)
      BY <1>1, <2>2, <3>1 DEF Open, OnRoster
    <3>3. playerLobby[q] # s
      BY <1>1, <2>2, TablesAssumption
    <3>4. Swept(q)
      BY <3>2, <3>3, IndexParts DEF IndexInv
    <3> QED BY <1>2, <3>4, SweptStays
  <2> QED BY <2>1, <2>2, IndexPartsNext
<1>4. TablesListed'
  <2>1. ASSUME NEW s \in Table, Due(RemoveLobby(s))'
        PROVE  state'[s] = "Closed" /\ \E q \in Player : roster'[s] = <<q>>
    <3>1. Due(RemoveLobby(s)) /\ s # t
      BY <2>1 DEF NoRemoval
    <3> QED BY <3>1 DEF IndexInv, TablesListed
  <2>2. \A s \in Table : (Open(s)' => s \in lobbies') /\ (state'[s] = "Unused" => s \notin lobbies')
    BY DEF IndexInv, TablesListed, Open
  <2> QED BY <2>1, <2>2 DEF TablesListed
<1> QED BY <1>3, <1>4 DEF IndexInv

LEMMA IndexOpens ==
  ASSUME TypeOK, IndexInv, NEW p \in Player, NEW t \in Table, New(p, t)
  PROVE  IndexInv'
<1>1. playerLobby[p] = None /\ ~Due(RemoveLobby(t)) /\ state[t] = "Unused"
  BY SitsNowhere DEF New, IndexInv, TablesListed
<1>2. ToSet(roster'[t]) = {p}
  BY OpenSeats
<1>3. /\ lobbies' = lobbies \cup {t} /\ t \in lobbies'
      /\ playerLobby' = [playerLobby EXCEPT ![p] = t]
      /\ state'[t] = "Waiting"
      /\ \A s \in Table : s # t => state'[s] = state[s] /\ roster'[s] = roster[s]
      /\ NoRemoval
  BY NoRemovalSame DEF New, TypeOK
<1> QED BY <1>1, <1>2, <1>3, IndexSits

LEMMA IndexJoins ==
  ASSUME TypeOK, IndexInv, NEW p \in Player, NEW t \in Table, JoinLobbyByCode(p, t)
  PROVE  IndexInv'
<1>1. playerLobby[p] = None /\ t \in lobbies /\ state[t] = "Waiting" /\ ~Due(RemoveLobby(t))
  BY SitsNowhere DEF JoinLobbyByCode, IndexInv, TablesListed
<1>2. ToSet(roster'[t]) = ToSet(roster[t]) \cup {p}
  BY JoinSeats
<1>3. /\ playerLobby' = [playerLobby EXCEPT ![p] = t]
      /\ lobbies' = lobbies \cup {t} /\ t \in lobbies'
      /\ state'[t] = "Waiting"
      /\ \A s \in Table : s # t => state'[s] = state[s] /\ roster'[s] = roster[s]
      /\ NoRemoval
  BY <1>1, NoRemovalSame DEF JoinLobbyByCode, TypeOK
<1> QED BY <1>1, <1>2, <1>3, IndexSits

\* Somebody who is not indexed elsewhere, or lost an index entry before, leaves the roster of
\* an open table, and the index.
LEMMA IndexLoses ==
  ASSUME TypeOK, IndexInv, NEW p \in Player, NEW t \in Table, Open(t), OnRoster(p, t), SeatLost(p, t),
         playerLobby' = [playerLobby EXCEPT ![p] = None], UNCHANGED <<lobbies, state>>, NoRemoval
  PROVE  IndexInv'
<1>1. playerLobby'[p] = None /\ \A q \in Player : q # p => playerLobby'[q] = playerLobby[q]
  BY DEF TypeOK
<1>2. GoneStays /\ \A s \in Table : s # t => roster'[s] = roster[s]
  BY DEF GoneStays, SeatLost, Open, TypeOK
<1>3. IndexFollowsRoster'
  <2>1. ASSUME NEW q \in Player, NEW s \in Table, playerLobby'[q] = s
        PROVE  s \in lobbies' /\ Open(s)' /\ OnRoster(q, s)'
    <3>1. q # p
      BY <1>1, <2>1, TablesAssumption
    <3>2. s \in lobbies /\ Open(s) /\ OnRoster(q, s)
      BY <1>1, <2>1, <3>1, IndexParts DEF IndexInv
    <3> QED BY <3>1, <3>2 DEF Open, OnRoster, SeatLost
  <2>2. ASSUME NEW q \in Player, NEW s \in Table, Open(s)', OnRoster(q, s)', playerLobby'[q] # s
        PROVE  Swept(q)'
    <3>1. Open(s) /\ OnRoster(q, s) /\ (q # p \/ s # t)
      BY <2>2 DEF Open, OnRoster, SeatLost
    <3>2. CASE q # p
      BY <1>1, <1>2, <2>2, <3>1, <3>2, IndexParts, SweptStays DEF IndexInv
    <3>3. CASE q = p /\ playerLobby[p] = s
      <4>1. playerLobby[p] # t /\ Swept(p)
        BY <3>1, <3>3, IndexParts DEF IndexInv
      <4> QED BY <1>2, <3>3, <4>1, SweptStays
    <3>4. CASE q = p /\ playerLobby[p] # s
      BY <1>2, <3>1, <3>4, IndexParts, SweptStays DEF IndexInv
    <3> QED BY <3>2, <3>3, <3>4
  <2> QED BY <2>1, <2>2, IndexPartsNext
<1>4. TablesListed'
  <2>1. ASSUME NEW s \in Table, Due(RemoveLobby(s))'
        PROVE  state'[s] = "Closed" /\ \E q \in Player : roster'[s] = <<q>>
    <3>1. state[s] = "Closed" /\ \E q \in Player : roster[s] = <<q>>
      BY <2>1 DEF NoRemoval, IndexInv, TablesListed
    <3> QED BY <1>2, <3>1 DEF Open
  <2> QED BY <2>1 DEF TablesListed, IndexInv, Open
<1> QED BY <1>3, <1>4 DEF IndexInv

LEMMA IndexLeaves ==
  ASSUME TypeOK, IndexInv, NEW th \in Threads, NEW p \in Player, NEW t \in Table, Leaves(p, t),
         UNCHANGED lobbies, Took(th, {LeaveLobby(p)}, AfterLeaving(p, t))
  PROVE  IndexInv'
<1>0. Open(t) /\ t \in lobbies /\ OnRoster(p, t) /\ playerLobby[p] = t
  BY IndexParts DEF Leaves, IndexInv
<1>1. CASE roster[t] # <<p>>
  <2>1. \A h \in AfterLeaving(p, t) : h.op # "RemoveLobby"
    BY <1>1, HoldFields DEF AfterLeaving
  <2>2. NoRemoval
    BY <2>1, NoRemovalTook
  <2> QED BY <1>0, <1>1, <2>2, IndexLoses DEF Leaves
<1>2. CASE roster[t] = <<p>>
  <2>1. /\ playerLobby'[p] = None /\ \A q \in Player : q # p => playerLobby'[q] = playerLobby[q]
        /\ state'[t] = "Closed" /\ \A s \in Table : s # t => state'[s] = state[s]
        /\ UNCHANGED <<lobbies, roster>> /\ ToSet(roster[t]) = {p} /\ playerLobby[p] = t
    BY <1>2 DEF Leaves, TypeOK
  <2>2. \A s \in Table : Due(RemoveLobby(s))' => Due(RemoveLobby(s)) \/ s = t
    <3>1. ASSUME NEW h, Due(h)' PROVE Due(h) \/ h.op # "RemoveLobby" \/ h = RemoveLobby(t)
      BY <3>1, DueTook, HoldFields DEF AfterLeaving
    <3> QED BY <3>1, HoldFields
  <2>3. GoneStays
    BY <2>1 DEF GoneStays
  <2>4. IndexFollowsRoster'
    <3>1. ASSUME NEW q \in Player, NEW s \in Table, playerLobby'[q] = s
          PROVE  s \in lobbies' /\ Open(s)' /\ OnRoster(q, s)'
      <4>1. q # p
        BY <2>1, <3>1, TablesAssumption
      <4>2. s \in lobbies /\ Open(s) /\ OnRoster(q, s)
        BY <2>1, <3>1, <4>1, IndexParts DEF IndexInv
      <4>3. s # t
        BY <2>1, <4>1, <4>2 DEF OnRoster
      <4> QED BY <2>1, <4>2, <4>3 DEF Open, OnRoster
    <3>2. ASSUME NEW q \in Player, NEW s \in Table, Open(s)', OnRoster(q, s)', playerLobby'[q] # s
          PROVE  Swept(q)'
      <4>1. s # t /\ Open(s) /\ OnRoster(q, s)
        BY <2>1, <3>2 DEF Open, OnRoster
      <4>2. playerLobby[q] # s
        BY <2>1, <3>2, <4>1
      <4> QED BY <2>3, <4>1, <4>2, IndexParts, SweptStays DEF IndexInv
    <3> QED BY <3>1, <3>2, IndexPartsNext
  <2>5. TablesListed'
    BY <1>0, <1>2, <2>1, <2>2 DEF IndexInv, TablesListed, Open
  <2> QED BY <2>4, <2>5 DEF IndexInv
<1> QED BY <1>1, <1>2

\* Removing a closed table sweeps the index entry of the one left on its roster, wherever
\* it points to by now, and nobody else's.
LEMMA IndexRemoves ==
  ASSUME TypeOK, IndexInv, NEW th \in Threads, NEW t \in Table, Removed(th, t)
  PROVE  IndexInv'
<1>1. state[t] = "Closed" /\ \E p \in Player : roster[t] = <<p>>
  BY DueIs DEF Removed, IndexInv, TablesListed
<1>2. PICK p \in Player : roster[t] = <<p>>
  BY <1>1
<1>3. /\ playerLobby'[p] = None /\ \A q \in Player : q # p => playerLobby'[q] = playerLobby[q]
      /\ lobbies' = lobbies \ {t} /\ UNCHANGED <<state, roster>>
  BY <1>2, InSeq DEF Removed, OnRoster
<1>4. NoRemoval
  <2> DEFINE new == IF activeEngine[t] = None THEN {} ELSE {CloseEngine(activeEngine[t])}
  <2>1. \A h \in new : h.op # "RemoveLobby"
    BY HoldFields
  <2>2. Took(th, {RemoveLobby(t)}, new)
    BY DEF Removed
  <2> QED BY <2>1, <2>2, NoRemovalTook
<1>5. GoneStays /\ Swept(p)'
  BY <1>1, <1>2, <1>3 DEF GoneStays, Swept
<1>6. IndexFollowsRoster'
  <2>1. ASSUME NEW q \in Player, NEW s \in Table, playerLobby'[q] = s
        PROVE  s \in lobbies' /\ Open(s)' /\ OnRoster(q, s)'
    <3>1. playerLobby[q] = s
      BY <1>3, <2>1, TablesAssumption
    <3>2. s \in lobbies /\ Open(s) /\ OnRoster(q, s)
      BY <3>1, IndexParts DEF IndexInv
    <3>3. s # t
      BY <1>1, <3>2 DEF Open
    <3> QED BY <1>3, <3>2, <3>3 DEF Open, OnRoster
  <2>2. ASSUME NEW q \in Player, NEW s \in Table, Open(s)', OnRoster(q, s)', playerLobby'[q] # s
        PROVE  Swept(q)'
    <3>1. CASE q = p
      BY <1>5, <3>1
    <3>2. CASE q # p
      <4>1. Open(s) /\ OnRoster(q, s) /\ playerLobby[q] # s
        BY <1>3, <2>2, <3>2 DEF Open, OnRoster
      <4> QED BY <1>5, <4>1, IndexParts, SweptStays DEF IndexInv
    <3> QED BY <3>1, <3>2
  <2> QED BY <2>1, <2>2, IndexPartsNext
<1>7. TablesListed'
  BY <1>1, <1>3, <1>4 DEF IndexInv, TablesListed, NoRemoval, Open
<1> QED BY <1>6, <1>7 DEF IndexInv

LEMMA IndexReopens ==
  ASSUME TypeOK, IndexInv, NEW t \in Table, NEW s \in {"Waiting", "InGame"}, Open(t),
         state' = [state EXCEPT ![t] = s], UNCHANGED <<lobbies, playerLobby, roster>>, NoRemoval
  PROVE  IndexInv'
<1>1. /\ \A r \in Table : state'[r] = IF r = t THEN s ELSE state[r]
      /\ \A r \in Table : Open(r)' <=> Open(r)
      /\ \A r \in Table : state'[r] = "Closed" <=> state[r] = "Closed"
      /\ \A r \in Table : state'[r] = "Unused" <=> state[r] = "Unused"
  BY DEF Open, TypeOK
<1> QED BY <1>1 DEF IndexInv, IndexFollowsRoster, TablesListed, NoRemoval, OnRoster

LEMMA IndexHold ==
  ASSUME TypeOK, IndexInv, NEW th \in Threads, HoldEffect(th)
  PROVE  IndexInv'
<1>1. ASSUME NEW p \in Player, Left(th, p) PROVE IndexInv'
  <2>1. CASE UNCHANGED <<tables, playerLobby>> /\ Took(th, {LeaveLobby(p)}, {})
    BY <1>1, <2>1, NoRemovalTook, IndexQuiet DEF Left, tables, indexvars
  <2>2. ASSUME NEW t \in Table, Leaves(p, t), Took(th, {LeaveLobby(p)}, AfterLeaving(p, t)) PROVE IndexInv'
    BY <1>1, <2>2, IndexLeaves DEF Left
  <2> QED BY <1>1, <2>1, <2>2 DEF Left
<1>2. CASE \E p \in Player, g \in Game : Notified(th, p, g)
  BY <1>2, NoRemovalTook, IndexQuiet DEF Notified, index, tables, indexvars
<1>3. CASE \E t \in Table : Removed(th, t)
  BY <1>3, IndexRemoves
<1>4. CASE \E g \in Game : Silenced(th, g)
  BY <1>4, NoRemovalTook, IndexQuiet DEF Silenced, index, tables, indexvars
<1>5. ASSUME NEW p \in Player, NEW t \in Table, Flipped(th, p, t) PROVE IndexInv'
  <2>1. NoRemoval /\ UNCHANGED <<lobbies, playerLobby, roster>>
    BY <1>5, NoRemovalTook DEF Flipped, index
  <2>2. CASE UNCHANGED state
    BY <2>1, <2>2, IndexQuiet DEF indexvars
  <2>3. ASSUME NEW g \in Game, state[t] = "Waiting", StartGame(t, g) PROVE IndexInv'
    BY <2>1, <2>3, IndexReopens DEF StartGame, Open
  <2> QED BY <1>5, <2>2, <2>3 DEF Flipped
<1>6. ASSUME NEW t \in Table, Released(th, t) PROVE IndexInv'
  <2>1. UNCHANGED <<lobbies, playerLobby, roster>>
    BY <1>6 DEF Released, index
  <2>2. CASE UNCHANGED tables /\ Took(th, {ReleaseGame(t)}, {})
    BY <2>1, <2>2, NoRemovalTook, IndexQuiet DEF tables, indexvars
  <2>3. CASE Releasable(t) /\ state' = [state EXCEPT ![t] = "Waiting"]
             /\ Took(th, {ReleaseGame(t)}, {CloseEngine(activeEngine[t]), ReleaseHeld(t)})
    <3>1. NoRemoval
      <4>1. \A h \in {CloseEngine(activeEngine[t]), ReleaseHeld(t)} : h.op # "RemoveLobby"
        BY HoldFields
      <4> QED BY <2>3, <4>1, NoRemovalTook
    <3> QED BY <2>1, <2>3, <3>1, IndexReopens DEF Releasable, Open
  <2> QED BY <1>6, <2>2, <2>3 DEF Released
<1>7. ASSUME NEW t \in Table, HeldReleased(th, t) PROVE IndexInv'
  <2>1. \A h \in SomeHold(ExpireEach(HeldAt(t))) : h.op # "RemoveLobby"
    BY SomeHoldOps, HoldFields
  <2> QED BY <1>7, <2>1, NoRemovalTook, IndexQuiet DEF HeldReleased, index, tables, indexvars
<1>8. ASSUME NEW held \in SUBSET Player, NEW p \in held, Expired(th, held, p) PROVE IndexInv'
  <2>1. \A h \in SomeHold(ExpireEach(held \ {p})) : h.op # "RemoveLobby"
    BY SomeHoldOps, HoldFields
  <2>2. \A h \in {LeaveLobby(p)} \cup SomeHold(ExpireEach(held \ {p})) : h.op # "RemoveLobby"
    BY <2>1, HoldFields
  <2>3. NoRemoval
    BY <1>8, <2>1, <2>2, NoRemovalTook DEF Expired
  <2> QED BY <1>8, <2>3, IndexQuiet DEF Expired, index, tables, indexvars
<1>9. ASSUME NEW g \in Game, NEW r \in EndReasons, Finalized(th, g, r) PROVE IndexInv'
  <2>1. NoRemoval
    BY <1>9, NoRemovalTook, HoldFields DEF Finalized
  <2> QED BY <1>9, <2>1, IndexQuiet DEF Finalized, index, tables, indexvars
<1>10. CASE \E g \in Game, r \in EndReasons : Written(th, g, r)
  BY <1>10, NoRemovalTook, IndexQuiet DEF Written, index, tables, indexvars
<1> QED BY <1>1, <1>2, <1>3, <1>4, <1>5, <1>6, <1>7, <1>8, <1>9, <1>10 DEF HoldEffect

LEMMA IndexSession ==
  ASSUME TypeOK, IndexInv, SessionEffect
  PROVE  IndexInv'
<1>1. ASSUME NEW p \in Player, NEW t \in Table, New(p, t) \/ JoinLobbyByCode(p, t) PROVE IndexInv'
  BY <1>1, IndexOpens, IndexJoins
<1>2. ASSUME NEW p \in Player, NEW q \in Player, Kick(p, q) PROVE IndexInv'
  <2>1. PICK t \in Table : /\ playerLobby[p] = t /\ state[t] = "Waiting" /\ OnRoster(q, t)
                           /\ SeatLost(q, t) /\ playerLobby' = [playerLobby EXCEPT ![q] = None]
                           /\ UNCHANGED <<lobbies, state, todo>>
    BY <1>2, KickSeats
  <2> QED BY <2>1, IndexLoses, NoRemovalSame DEF Open
<1>3. ASSUME NEW p \in Player, NEW t \in Table, Readies(p, t) PROVE IndexInv'
  <2> DEFINE new == (IF state[t] = "InGame" THEN {ReleaseGame(t)} ELSE {}) \cup {FlipReady(p, t)}
  <2>1. \A h \in new : h.op # "RemoveLobby"
    BY HoldFields
  <2>2. Took(Session(p), {}, new) /\ Session(p) \in Threads
    BY <1>3, ThreadsAre DEF Readies
  <2>3. NoRemoval
    BY <2>1, <2>2, NoRemovalTook
  <2> QED BY <1>3, <2>3, IndexQuiet DEF Readies, ToggleReady, index, tables, indexvars
<1>4. ASSUME NEW p \in Player, \/ Chooses(p) \/ Drops(p) \/ Connect(p)
                               \/ TimerFires(p) \/ StrayFires(p) \/ CallsBack(p)
      PROVE  IndexInv'
  <2>1. UNCHANGED indexvars
    BY <1>4 DEF Chooses, LeaveByChoice, Drops, Disconnect, Connect, TimerFires, StrayFires, CallsBack,
                TimerCallback, index, tables, indexvars
  <2>2. ASSUME NEW th \in Threads, Took(th, {}, {LeaveLobby(p)}) PROVE NoRemoval
    BY <2>2, NoRemovalTook, HoldFields
  <2>3. NoRemoval
    BY <1>4, <2>2, NoRemovalSame, ThreadsAre
    DEF Chooses, Drops, Arm, Connect, TimerFires, StrayFires, CallsBack
  <2> QED BY <2>1, <2>3, IndexQuiet
<1> QED BY <1>1, <1>2, <1>3, <1>4 DEF SessionEffect

LEMMA IndexMatch ==
  ASSUME IndexInv, NEW g \in Game, MatchEffect(g)
  PROVE  IndexInv'
<1>1. UNCHANGED indexvars
  BY DEF MatchEffect, Played, Idled, HeardIdle, HeardEnd, FoundClosed, index, tables, indexvars
<1>2. ASSUME NEW r, Took(Watcher(g), {}, {ReleaseGame(host[g]), Finalize(g, r)}) PROVE NoRemoval
  <2>1. \A h \in {ReleaseGame(host[g]), Finalize(g, r)} : h.op # "RemoveLobby"
    BY HoldFields
  <2> QED BY <1>2, <2>1, NoRemovalTook, ThreadsAre
<1>3. ASSUME NEW p \in Player, Took(Watcher(g), {}, {LeaveLobby(p)}) PROVE NoRemoval
  BY <1>3, NoRemovalTook, HoldFields, ThreadsAre
<1>4. NoRemoval
  BY <1>2, <1>3, NoRemovalSame DEF MatchEffect, Played, Idled, HeardIdle, HeardEnd, FoundClosed
<1> QED BY <1>1, <1>4, IndexQuiet

LEMMA IndexEnd ==
  ASSUME IndexInv, EndEffect
  PROVE  IndexInv'
<1>1. UNCHANGED indexvars
  BY DEF EndEffect, Drained, DrainedOne, BeginShutdown, StopFinalizers, index, tables, indexvars
<1>2. CASE Drained
  <2>1. \A h \in SomeHold(LeaveEach(HeldSeats)) : h.op # "RemoveLobby"
    BY SomeHoldOps, HoldFields
  <2> QED BY <1>1, <1>2, <2>1, NoRemovalTook, IndexQuiet, ThreadsAre DEF Drained
<1>3. ASSUME NEW held \in SUBSET Player, NEW p \in held, DrainedOne(held, p) PROVE IndexInv'
  <2>1. \A h \in SomeHold(LeaveEach(held \ {p})) : h.op # "RemoveLobby"
    BY SomeHoldOps, HoldFields
  <2>2. \A h \in {LeaveLobby(p)} \cup SomeHold(LeaveEach(held \ {p})) : h.op # "RemoveLobby"
    BY <2>1, HoldFields
  <2> QED BY <1>1, <1>3, <2>2, NoRemovalTook, IndexQuiet, ThreadsAre DEF DrainedOne
<1>4. CASE Took(Main, {}, {DrainHeld})
  BY <1>1, <1>4, NoRemovalTook, IndexQuiet, ThreadsAre, HoldFields
<1>5. CASE StopFinalizers
  BY <1>1, <1>5, NoRemovalSame, IndexQuiet DEF StopFinalizers
<1> QED BY <1>2, <1>3, <1>4, <1>5 DEF EndEffect

LEMMA IndexStep == TypeInv /\ IndexInv /\ [Next]_vars => IndexInv'
<1> SUFFICES ASSUME TypeInv, IndexInv, [Next]_vars PROVE IndexInv'
  OBVIOUS
<1>1. CASE UNCHANGED vars
  BY <1>1, NoRemovalSame, IndexQuiet DEF vars, index, tables, indexvars
<1> QED BY <1>1, Effects, IndexSession, IndexHold, IndexMatch, IndexEnd DEF TypeInv

LEMMA NothingDue == Init => \A h : ~Due(h)
<1> SUFFICES ASSUME Init PROVE \A h : ~Due(h)
  OBVIOUS
<1>1. \A th \in Threads : \A h : ~Has(th, h)
  BY InSeq DEF Init, Has
<1> QED BY <1>1, DueIs

LEMMA IndexInit == Init => IndexInv
<1> SUFFICES ASSUME Init PROVE IndexInv
  OBVIOUS
<1>1. \A h : ~Due(h)
  BY NothingDue
<1> QED BY <1>1, TablesAssumption DEF Init, IndexInv, IndexFollowsRoster, TablesListed, Open, OnRoster

\* The index never points anywhere but to an open, listed table that seats the player, and
\* no roster seats anybody twice.  The index misses a player who sits at an open table only
\* where the removal of another table, which that player left last of all, swept the entry.
THEOREM PlacesAgree == Spec => []IndexSound
<1>1. TypeInv /\ IndexInv => IndexSound
  BY DEF TypeInv, IndexInv, IndexSound
<1> QED BY <1>1, TypeInit, TypeStep, IndexInit, IndexStep, PTL DEF Spec

-----------------------------------------------------------------------------
(* Holds that expire *)

gracevars == <<pending, expiring, firing>>

\* A step that takes nobody's leave leaves the claims as they are.
LEMMA ClaimedTook ==
  ASSUME ExpiryClaimed, UNCHANGED gracevars,
         NEW th \in Threads, NEW done, NEW new, Took(th, done, new), \A h \in done : h.op # "LeaveLobby"
  PROVE  ExpiryClaimed'
<1>1. \A p \in Player : Due(LeaveLobby(p)) => Due(LeaveLobby(p))'
  BY DueTook, HoldFields
<1> QED BY <1>1 DEF ExpiryClaimed, gracevars

LEMMA ClaimedSame ==
  ASSUME ExpiryClaimed, UNCHANGED <<gracevars, todo>>
  PROVE  ExpiryClaimed'
BY DueSame DEF ExpiryClaimed, gracevars

\* p's hold begins to expire: the goroutine that saw it is about to give the seat up.
LEMMA ClaimedExpires ==
  ASSUME TypeOK, ExpiryClaimed, NEW th \in Threads, NEW done, NEW new, Took(th, done, new),
         NEW p \in Player, BeginExpire(p), LeaveLobby(p) \in new,
         \A h \in done : h.op # "LeaveLobby", \A q \in Player : q # p => firing'[q] = firing[q]
  PROVE  ExpiryClaimed'
<1>1. /\ pending'[p] = "Off" /\ \A q \in Player : q # p => pending'[q] = pending[q]
      /\ expiring' = expiring \cup {p}
  BY DEF BeginExpire, TypeOK
<1>2. Due(LeaveLobby(p))' /\ \A q \in Player : Due(LeaveLobby(q)) => Due(LeaveLobby(q))'
  BY DueTook, HoldFields
<1> QED BY <1>1, <1>2 DEF ExpiryClaimed

LEMMA ClaimedHold ==
  ASSUME TypeOK, ExpiryClaimed, NEW th \in Threads, HoldEffect(th)
  PROVE  ExpiryClaimed'
<1>1. ASSUME NEW p \in Player, Left(th, p) PROVE ExpiryClaimed'
  <2>1. /\ pending'[p] = "Off" /\ \A q \in Player : q # p => pending'[q] = pending[q]
        /\ expiring' = expiring \ {p} /\ UNCHANGED firing
    BY <1>1 DEF Left, TypeOK
  <2>2. \E new : Took(th, {LeaveLobby(p)}, new)
    BY <1>1 DEF Left
  <2>3. \A q \in Player : q # p /\ Due(LeaveLobby(q)) => Due(LeaveLobby(q))'
    BY <2>2, DueTook, HoldFields
  <2> QED BY <2>1, <2>3 DEF ExpiryClaimed
<1>2. CASE \E p \in Player, g \in Game : Notified(th, p, g)
  BY <1>2, ClaimedTook, HoldFields DEF Notified, grace, gracevars
<1>3. CASE \E t \in Table : Removed(th, t)
  BY <1>3, ClaimedTook, HoldFields DEF Removed, grace, gracevars
<1>4. CASE \E g \in Game : Silenced(th, g)
  BY <1>4, ClaimedTook, HoldFields DEF Silenced, grace, gracevars
<1>5. CASE \E p \in Player, t \in Table : Flipped(th, p, t)
  BY <1>5, ClaimedTook, HoldFields DEF Flipped, grace, gracevars
<1>6. CASE \E t \in Table : Released(th, t)
  BY <1>6, ClaimedTook, HoldFields DEF Released, grace, gracevars
<1>7. CASE \E t \in Table : HeldReleased(th, t)
  BY <1>7, ClaimedTook, HoldFields DEF HeldReleased, grace, gracevars
<1>8. ASSUME NEW held \in SUBSET Player, NEW p \in held, Expired(th, held, p) PROVE ExpiryClaimed'
  <2> DEFINE rest == SomeHold(ExpireEach(held \ {p}))
  <2> HIDE DEF rest
  <2>1. CASE UNCHANGED grace /\ Took(th, {ExpireEach(held)}, rest)
    BY <2>1, ClaimedTook, HoldFields DEF grace, gracevars
  <2>2. CASE BeginExpire(p) /\ UNCHANGED firing /\ Took(th, {ExpireEach(held)}, {LeaveLobby(p)} \cup rest)
    BY <2>2, ClaimedExpires, HoldFields
  <2> QED BY <1>8, <2>1, <2>2 DEF Expired, rest
<1>9. CASE \E g \in Game, r \in EndReasons : Finalized(th, g, r)
  BY <1>9, ClaimedTook, HoldFields DEF Finalized, grace, gracevars
<1>10. CASE \E g \in Game, r \in EndReasons : Written(th, g, r)
  BY <1>10, ClaimedTook, HoldFields DEF Written, grace, gracevars
<1> QED BY <1>1, <1>2, <1>3, <1>4, <1>5, <1>6, <1>7, <1>8, <1>9, <1>10 DEF HoldEffect

LEMMA ClaimedSession ==
  ASSUME TypeOK, ExpiryClaimed, SessionEffect
  PROVE  ExpiryClaimed'
<1>1. ASSUME NEW p \in Player, NEW t \in Table, New(p, t) \/ JoinLobbyByCode(p, t) PROVE ExpiryClaimed'
  BY <1>1, ClaimedSame DEF New, JoinLobbyByCode, grace, gracevars
<1>2. ASSUME NEW p \in Player, NEW q \in Player, Kick(p, q) PROVE ExpiryClaimed'
  BY <1>2, ClaimedSame DEF Kick, grace, gracevars
<1>3. ASSUME NEW p \in Player, NEW t \in Table, Readies(p, t) PROVE ExpiryClaimed'
  BY <1>3, ClaimedTook, ThreadsAre DEF Readies, ToggleReady, grace, gracevars
<1>4. ASSUME NEW p \in Player, Chooses(p) PROVE ExpiryClaimed'
  BY <1>4, ClaimedTook, ThreadsAre DEF Chooses, LeaveByChoice, grace, gracevars
<1>5. ASSUME NEW p \in Player, Drops(p) PROVE ExpiryClaimed'
  <2>1. CASE Arm(p)
    <3>1. /\ pending'[p] = "Armed" /\ \A q \in Player : q # p => pending'[q] = pending[q]
          /\ UNCHANGED <<expiring, firing, todo>>
      BY <2>1 DEF Arm, TypeOK
    <3> QED BY <3>1, DueSame DEF ExpiryClaimed
  <2>2. CASE Took(Session(p), {}, {LeaveLobby(p)}) /\ UNCHANGED grace
    BY <2>2, ClaimedTook, ThreadsAre DEF grace, gracevars
  <2>3. CASE UNCHANGED todo /\ UNCHANGED grace
    BY <2>3, ClaimedSame DEF grace, gracevars
  <2> QED BY <1>5, <2>1, <2>2, <2>3 DEF Drops
<1>6. ASSUME NEW p \in Player, Connect(p) PROVE ExpiryClaimed'
  <2>1. \A q \in Player : pending'[q] = "Fired" => pending[q] = "Fired"
    BY <1>6 DEF Connect, TypeOK
  <2> QED BY <1>6, <2>1, DueSame DEF Connect, ExpiryClaimed
<1>7. ASSUME NEW p \in Player, TimerFires(p) \/ StrayFires(p) PROVE ExpiryClaimed'
  <2>1. /\ firing'[p] > 0 /\ \A q \in Player : q # p => firing'[q] = firing[q] /\ pending'[q] = pending[q]
        /\ UNCHANGED <<expiring, todo>>
    BY <1>7 DEF TimerFires, StrayFires, TypeOK
  <2> QED BY <2>1, DueSame DEF ExpiryClaimed
<1>8. ASSUME NEW p \in Player, CallsBack(p) PROVE ExpiryClaimed'
  <2>1. \A q \in Player : q # p => firing'[q] = firing[q]
    BY <1>8 DEF CallsBack, TimerCallback, TypeOK
  <2>2. CASE pending[p] = "Off" /\ UNCHANGED <<pending, expiring, todo>>
    BY <2>1, <2>2, DueSame DEF ExpiryClaimed
  <2>3. CASE Took(Timer(p), {}, {LeaveLobby(p)}) /\ BeginExpire(p)
    BY <2>1, <2>3, ClaimedExpires, ThreadsAre
  <2> QED BY <1>8, <2>2, <2>3 DEF CallsBack
<1> QED BY <1>1, <1>2, <1>3, <1>4, <1>5, <1>6, <1>7, <1>8 DEF SessionEffect

LEMMA ClaimedMatch ==
  ASSUME ExpiryClaimed, NEW g \in Game, MatchEffect(g)
  PROVE  ExpiryClaimed'
<1>1. UNCHANGED gracevars
  BY DEF MatchEffect, Played, Idled, HeardIdle, HeardEnd, FoundClosed, grace, gracevars
<1>2. ASSUME NEW new, Took(Watcher(g), {}, new) PROVE ExpiryClaimed'
  BY <1>1, <1>2, ClaimedTook, ThreadsAre
<1> QED BY <1>1, <1>2, ClaimedSame DEF MatchEffect, Played, Idled, HeardIdle, HeardEnd, FoundClosed

LEMMA ClaimedEnd ==
  ASSUME ExpiryClaimed, EndEffect
  PROVE  ExpiryClaimed'
<1>1. UNCHANGED gracevars
  BY DEF EndEffect, Drained, DrainedOne, BeginShutdown, StopFinalizers, grace, gracevars
<1>2. ASSUME NEW done, NEW new, Took(Main, done, new), \A h \in done : h.op # "LeaveLobby"
      PROVE  ExpiryClaimed'
  BY <1>1, <1>2, ClaimedTook, ThreadsAre
<1>3. CASE Drained
  BY <1>2, <1>3, HoldFields DEF Drained
<1>4. ASSUME NEW held \in SUBSET Player, NEW p \in held, DrainedOne(held, p) PROVE ExpiryClaimed'
  BY <1>2, <1>4, HoldFields DEF DrainedOne
<1>5. CASE BeginShutdown /\ Took(Main, {}, {DrainHeld})
  BY <1>2, <1>5
<1>6. CASE StopFinalizers
  BY <1>1, <1>6, ClaimedSame DEF StopFinalizers
<1> QED BY <1>3, <1>4, <1>5, <1>6 DEF EndEffect

LEMMA ClaimedStep == TypeInv /\ ExpiryClaimed /\ [Next]_vars => ExpiryClaimed'
<1> SUFFICES ASSUME TypeInv, ExpiryClaimed, [Next]_vars PROVE ExpiryClaimed'
  OBVIOUS
<1>1. CASE UNCHANGED vars
  BY <1>1, ClaimedSame DEF vars, grace, gracevars
<1> QED BY <1>1, Effects, ClaimedSession, ClaimedHold, ClaimedMatch, ClaimedEnd DEF TypeInv

\* Whoever ResumePlayer refuses is refused for a reason, however reconnects, drops, leaves and
\* timers race: a seat is marked as expiring only while a leave of that player is on its way,
\* and a hold whose timer can no longer be stopped has a callback on its way.
THEOREM ExpiriesClaimed == Spec => []ExpiryClaimed
<1>1. Init => ExpiryClaimed
  BY DEF Init, ExpiryClaimed
<1> QED BY <1>1, TypeInit, TypeStep, ClaimedStep, PTL DEF Spec

-----------------------------------------------------------------------------
(* Seats that are held *)

\* The players whose seat is held and who are away.
Away == HeldSeats \ online

\* A hold makes sense: p's table is in a match, or somebody is about to give the hold up, or
\* the seat.
MidHand(p) ==
  \A t \in Table : playerLobby[p] = t =>
    \/ state[t] = "InGame"
    \/ Due(ReleaseHeld(t))
    \/ \E held \in SUBSET Player : p \in held /\ Due(ExpireEach(held))
    \/ Due(LeaveLobby(p))

LEMMA MidHandIs ==
  ASSUME TypeOK
  PROVE  HeldOnlyMidHand <=> \A p \in Away : MidHand(p)
<1>1. \A p \in Away : playerLobby[p] # None <=> playerLobby[p] \in Table
  BY TablesAssumption DEF TypeOK, Away, HeldSeats
<1> QED BY <1>1, DueIs DEF HeldOnlyMidHand, HoldEnds, MidHand, Has, Away

LEMMA MidHandIsNext ==
  ASSUME TypeOK'
  PROVE  HeldOnlyMidHand' <=> \A p \in Away' : MidHand(p)'
<1>1. \A p \in Away' : playerLobby'[p] # None <=> playerLobby'[p] \in Table
  BY TablesAssumption DEF TypeOK, Away, HeldSeats
<1> QED BY <1>1, DueIsNext DEF HeldOnlyMidHand, HoldEnds, MidHand, Has, Away

\* p stays where it is, and the match there goes on; or p is nowhere.
Stays(p) ==
  \A t \in Table : playerLobby'[p] = t =>
    playerLobby[p] = t /\ (state[t] = "InGame" => state'[t] = "InGame")

Releases == {"ReleaseHeld", "ExpireEach", "LeaveLobby"}

LEMMA MidHandTook ==
  ASSUME TypeOK, TypeOK', HeldOnlyMidHand, Away' \subseteq Away, \A p \in Away' : Stays(p),
         NEW th \in Threads, NEW done, NEW new, Took(th, done, new),
         \A h \in done : h.op \notin {"ReleaseHeld", "ExpireEach"} /\ \A p \in Away' : h # LeaveLobby(p)
  PROVE  HeldOnlyMidHand'
<1>1. ASSUME NEW h, h \notin done, Due(h) PROVE Due(h)'
  BY <1>1, DueTook
<1>2. ASSUME NEW p \in Away' PROVE MidHand(p)'
  <2>1. MidHand(p)
    BY MidHandIs
  <2>2. /\ \A t \in Table : Due(ReleaseHeld(t)) => Due(ReleaseHeld(t))'
        /\ \A held \in SUBSET Player : Due(ExpireEach(held)) => Due(ExpireEach(held))'
        /\ Due(LeaveLobby(p)) => Due(LeaveLobby(p))'
    BY <1>1, HoldFields
  <2> QED BY <2>1, <2>2 DEF MidHand, Stays
<1> QED BY <1>2, MidHandIsNext

LEMMA MidHandSame ==
  ASSUME TypeOK, TypeOK', HeldOnlyMidHand, Away' \subseteq Away, \A p \in Away' : Stays(p), UNCHANGED todo
  PROVE  HeldOnlyMidHand'
<1>1. ASSUME NEW p \in Away' PROVE MidHand(p)'
  <2>1. MidHand(p)
    BY MidHandIs
  <2> QED BY <2>1, DueSame DEF MidHand, Stays
<1> QED BY <1>1, MidHandIsNext

\* Neither does a step that takes none of the holds in question disturb it.
LEMMA MidHandPast ==
  ASSUME TypeOK, TypeOK', HeldOnlyMidHand, Away' \subseteq Away, \A p \in Away' : Stays(p),
         NEW th \in Threads, NEW done, NEW new, Took(th, done, new), \A h \in done : h.op \notin Releases
  PROVE  HeldOnlyMidHand'
<1>1. \A h \in done : h.op \notin {"ReleaseHeld", "ExpireEach"} /\ \A p \in Away' : h # LeaveLobby(p)
  BY HoldFields DEF Releases
<1> QED BY <1>1, MidHandTook

LEMMA StaysSame == UNCHANGED <<playerLobby, state>> => \A p \in Player : Stays(p)
BY DEF Stays

LEMMA MidHandHold ==
  ASSUME TypeOK, TypeOK', IndexInv, HeldOnlyMidHand, NEW th \in Threads, HoldEffect(th)
  PROVE  HeldOnlyMidHand'
<1>0. ASSUME UNCHANGED <<playerLobby, state, grace, people>>
      PROVE  Away' = Away /\ \A p \in Away' : Stays(p)
  BY <1>0 DEF Away, HeldSeats, grace, people, Stays
<1>1. ASSUME NEW p \in Player, Left(th, p) PROVE HeldOnlyMidHand'
  <2>1. Away' = Away \ {p}
    BY <1>1 DEF Left, Away, HeldSeats, people, TypeOK
  <2>2. ASSUME NEW q \in Away' PROVE Stays(q)
    <3>1. q # p /\ q \in Player
      BY <2>1 DEF Away, HeldSeats
    <3>2. CASE UNCHANGED <<tables, playerLobby>>
      BY <3>2 DEF Stays, tables
    <3>3. ASSUME NEW t \in Table, Leaves(p, t) PROVE Stays(q)
      <4>1. playerLobby'[q] = playerLobby[q]
        BY <3>1, <3>3 DEF Leaves, TypeOK
      <4>2. CASE UNCHANGED state
        BY <4>1, <4>2 DEF Stays
      <4>3. CASE ToSet(roster[t]) = {p} /\ state' = [state EXCEPT ![t] = "Closed"]
        <5>1. playerLobby[q] # t
          BY <3>1, <4>3, IndexParts DEF IndexInv, OnRoster
        <5> QED BY <4>1, <4>3, <5>1 DEF Stays, TypeOK
      <4> QED BY <3>3, <4>2, <4>3 DEF Leaves
    <3> QED BY <1>1, <3>2, <3>3 DEF Left
  <2>3. ASSUME NEW new, Took(th, {LeaveLobby(p)}, new) PROVE HeldOnlyMidHand'
    <3>1. \A h \in {LeaveLobby(p)} : h.op \notin {"ReleaseHeld", "ExpireEach"}
                                     /\ \A q \in Away' : h # LeaveLobby(q)
      BY <2>1, HoldFields
    <3> QED BY <2>1, <2>2, <2>3, <3>1, MidHandTook
  <2> QED BY <1>1, <2>3 DEF Left
<1>2. ASSUME NEW p \in Player, NEW g \in Game, Notified(th, p, g) PROVE HeldOnlyMidHand'
  BY <1>0, <1>2, MidHandPast, HoldFields DEF Notified, index, tables, Releases
<1>3. ASSUME NEW t \in Table, Removed(th, t) PROVE HeldOnlyMidHand'
  <2>1. Away' = Away /\ Away \subseteq Player /\ UNCHANGED state
    BY <1>3 DEF Removed, Away, HeldSeats, grace, people
  <2>2. ASSUME NEW p \in Player, NEW s \in Table, playerLobby'[p] = s PROVE playerLobby[p] = s
    <3>1. playerLobby'[p] = IF OnRoster(p, t) THEN None ELSE playerLobby[p]
      BY <1>3 DEF Removed
    <3>2. s # None
      BY TablesAssumption
    <3> QED BY <2>2, <3>1, <3>2
  <2>3. \A p \in Away' : Stays(p)
    BY <2>1, <2>2 DEF Stays
  <2> QED BY <1>3, <2>1, <2>3, MidHandPast, HoldFields DEF Removed, Releases
<1>4. ASSUME NEW g \in Game, Silenced(th, g) PROVE HeldOnlyMidHand'
  BY <1>0, <1>4, MidHandPast, HoldFields DEF Silenced, index, tables, Releases
<1>5. ASSUME NEW p \in Player, NEW t \in Table, Flipped(th, p, t) PROVE HeldOnlyMidHand'
  <2>1. \A s \in Table : state[s] = "InGame" => state'[s] = "InGame"
    BY <1>5 DEF Flipped, StartGame, TypeOK
  <2>2. Away' = Away /\ \A q \in Away' : Stays(q)
    BY <1>5, <2>1 DEF Flipped, Away, HeldSeats, grace, people, index, Stays, TypeOK
  <2> QED BY <1>5, <2>2, MidHandPast, HoldFields DEF Flipped, Releases
<1>6. ASSUME NEW t \in Table, Released(th, t) PROVE HeldOnlyMidHand'
  <2>1. UNCHANGED <<playerLobby, grace, people>>
    BY <1>6 DEF Released, index
  <2>2. CASE UNCHANGED tables /\ Took(th, {ReleaseGame(t)}, {})
    BY <1>0, <2>1, <2>2, MidHandPast, HoldFields DEF tables, Releases
  <2>3. CASE /\ state' = [state EXCEPT ![t] = "Waiting"]
             /\ Took(th, {ReleaseGame(t)}, {CloseEngine(activeEngine[t]), ReleaseHeld(t)})
    <3>1. Due(ReleaseHeld(t))'
      BY <2>3, DueTook
    <3>2. ASSUME NEW h, h.op \in Releases, Due(h) PROVE Due(h)'
      BY <2>3, <3>2, DueTook, HoldFields DEF Releases
    <3>3. Away' = Away
      BY <2>1 DEF Away, HeldSeats, grace, people
    <3>4. ASSUME NEW p \in Away PROVE MidHand(p)'
      <4>1. MidHand(p) /\ p \in Player
        BY MidHandIs DEF Away, HeldSeats
      <4>2. \A s \in Table : s # t => state'[s] = state[s]
        BY <2>3 DEF TypeOK
      <4>3. ASSUME NEW s \in Table, playerLobby'[p] = s
            PROVE  \/ state'[s] = "InGame"
                   \/ Due(ReleaseHeld(s))'
                   \/ \E held \in SUBSET Player : p \in held /\ Due(ExpireEach(held))'
                   \/ Due(LeaveLobby(p))'
        <5>1. CASE s = t
          BY <3>1, <5>1
        <5>2. CASE s # t
          <6>1. CASE state[s] = "InGame"
            BY <4>2, <5>2, <6>1
          <6>2. CASE Due(ReleaseHeld(s))
            <7>1. ReleaseHeld(s).op \in Releases
              BY HoldFields DEF Releases
            <7> QED BY <3>2, <6>2, <7>1
          <6>3. ASSUME NEW held \in SUBSET Player, p \in held, Due(ExpireEach(held))
                PROVE  Due(ExpireEach(held))'
            <7>1. ExpireEach(held).op \in Releases
              BY HoldFields DEF Releases
            <7> QED BY <3>2, <6>3, <7>1
          <6>4. Due(LeaveLobby(p)) => Due(LeaveLobby(p))'
            <7>1. LeaveLobby(p).op \in Releases
              BY HoldFields DEF Releases
            <7> QED BY <3>2, <7>1
          <6> QED BY <2>1, <4>1, <4>3, <6>1, <6>2, <6>3, <6>4 DEF MidHand
        <5> QED BY <5>1, <5>2
      <4> QED BY <4>3 DEF MidHand
    <3> QED BY <3>3, <3>4, MidHandIsNext
  <2> QED BY <1>6, <2>2, <2>3 DEF Released
<1>7. ASSUME NEW t \in Table, HeldReleased(th, t) PROVE HeldOnlyMidHand'
  <2>1. UNCHANGED <<playerLobby, state, grace, people>>
    BY <1>7 DEF HeldReleased, index, tables
  <2>2. PICK held \in SUBSET Player : held = HeldAt(t)
    BY DEF HeldAt, HeldSeats
  <2>3. Took(th, {ReleaseHeld(t)}, SomeHold(ExpireEach(held)))
    BY <1>7, <2>2 DEF HeldReleased
  <2>4. held # {} => Due(ExpireEach(held))'
    BY <2>3, DueTook, HoldFields DEF SomeHold
  <2>5. ASSUME NEW h, h.op \in Releases, h # ReleaseHeld(t), Due(h) PROVE Due(h)'
    BY <2>3, <2>5, DueTook
  <2>6. ASSUME NEW p \in Away PROVE MidHand(p)'
    <3>1. MidHand(p) /\ p \in Player
      BY MidHandIs DEF Away, HeldSeats
    <3>2. CASE playerLobby[p] = t
      <4>1. p \in held
        BY <2>2, <2>6, <3>2 DEF HeldAt, Away
      <4> QED BY <2>1, <2>4, <4>1 DEF MidHand
    <3>3. CASE playerLobby[p] # t
      BY <2>1, <2>5, <3>1, <3>3, HoldFields DEF MidHand, Releases
    <3> QED BY <3>2, <3>3
  <2>7. Away' = Away
    BY <2>1 DEF Away, HeldSeats, grace, people
  <2> QED BY <2>6, <2>7, MidHandIsNext
<1>8. ASSUME NEW held \in SUBSET Player, NEW p \in held, Expired(th, held, p) PROVE HeldOnlyMidHand'
  <2> DEFINE rest == held \ {p}
  <2>1. UNCHANGED <<playerLobby, state>> /\ Away' = Away \ {p}
    BY <1>8 DEF Expired, BeginExpire, Away, HeldSeats, grace, people, index, tables, TypeOK
  <2> HIDE DEF rest
  <2>2. rest # {} => Due(ExpireEach(rest))'
    <3>1. ASSUME NEW new, Took(th, {ExpireEach(held)}, new), SomeHold(ExpireEach(rest)) \subseteq new
          PROVE  rest # {} => Due(ExpireEach(rest))'
      BY <3>1, DueTook, HoldFields DEF SomeHold
    <3> QED BY <1>8, <3>1 DEF Expired, rest
  <2>3. ASSUME NEW h, h # ExpireEach(held), Due(h) PROVE Due(h)'
    BY <1>8, <2>3, DueTook DEF Expired
  <2>4. ASSUME NEW q \in Away \ {p} PROVE MidHand(q)'
    <3>1. MidHand(q) /\ q \in Player
      BY MidHandIs DEF Away, HeldSeats
    <3>2. /\ \A t \in Table : Due(ReleaseHeld(t)) => Due(ReleaseHeld(t))'
          /\ Due(LeaveLobby(q)) => Due(LeaveLobby(q))'
      BY <2>3, HoldFields
    <3>3. ASSUME NEW l \in SUBSET Player, q \in l, Due(ExpireEach(l))
          PROVE  \E k \in SUBSET Player : q \in k /\ Due(ExpireEach(k))'
      <4>1. CASE l = held
        BY <2>2, <2>4, <3>3, <4>1 DEF rest
      <4>2. CASE l # held
        BY <2>3, <3>3, <4>2, HoldFields
      <4> QED BY <4>1, <4>2
    <3> QED BY <2>1, <3>1, <3>2, <3>3 DEF MidHand
  <2> QED BY <2>1, <2>4, MidHandIsNext
<1>9. ASSUME NEW g \in Game, NEW r \in EndReasons, Finalized(th, g, r) PROVE HeldOnlyMidHand'
  <2>1. \A h \in {Finalize(g, r)} : h.op \notin Releases
    BY HoldFields DEF Releases
  <2> QED BY <1>0, <1>9, <2>1, MidHandPast DEF Finalized, index, tables
<1>10. ASSUME NEW g \in Game, NEW r \in EndReasons, Written(th, g, r) PROVE HeldOnlyMidHand'
  BY <1>0, <1>10, MidHandPast, HoldFields DEF Written, index, tables, Releases
<1> QED BY <1>1, <1>2, <1>3, <1>4, <1>5, <1>6, <1>7, <1>8, <1>9, <1>10 DEF HoldEffect

LEMMA MidHandSession ==
  ASSUME TypeOK, TypeOK', HeldOnlyMidHand, SessionEffect
  PROVE  HeldOnlyMidHand'
<1>1. ASSUME NEW p \in Player, NEW t \in Table, New(p, t) \/ JoinLobbyByCode(p, t) PROVE HeldOnlyMidHand'
  <2>1. Away' = Away /\ p \notin Away /\ UNCHANGED todo
    BY <1>1 DEF New, JoinLobbyByCode, Away, HeldSeats, grace, people
  <2>2. \A q \in Player : q # p => playerLobby'[q] = playerLobby[q]
    BY <1>1 DEF New, JoinLobbyByCode, TypeOK
  <2>3. \A s \in Table : state[s] = "InGame" => state'[s] = "InGame"
    BY <1>1 DEF New, JoinLobbyByCode, TypeOK
  <2>4. \A q \in Away' : Stays(q)
    BY <2>1, <2>2, <2>3 DEF Stays, Away, HeldSeats
  <2> QED BY <2>1, <2>4, MidHandSame
<1>2. ASSUME NEW p \in Player, NEW q \in Player, Kick(p, q) PROVE HeldOnlyMidHand'
  <2>1. Away' = Away /\ UNCHANGED <<todo, state>>
    BY <1>2 DEF Kick, Away, HeldSeats, grace, people
  <2>2. playerLobby' = [playerLobby EXCEPT ![q] = None]
    BY <1>2 DEF Kick
  <2>3. \A r \in Away' : Stays(r)
    BY <2>1, <2>2, TablesAssumption DEF Stays, Away, HeldSeats, TypeOK
  <2> QED BY <2>1, <2>3, MidHandSame
<1>3. ASSUME Away' \subseteq Away, UNCHANGED <<index, tables>>,
             UNCHANGED todo \/ \E th \in Threads : \E new : Took(th, {}, new)
      PROVE  HeldOnlyMidHand'
  <2>1. \A p \in Away' : Stays(p)
    BY <1>3, StaysSame DEF index, tables, Away, HeldSeats
  <2> QED BY <1>3, <2>1, MidHandSame, MidHandPast
<1>4. ASSUME NEW p \in Player, NEW t \in Table, Readies(p, t) PROVE HeldOnlyMidHand'
  BY <1>3, <1>4, ThreadsAre DEF Readies, ToggleReady, Away, HeldSeats, grace, people
<1>5. ASSUME NEW p \in Player, Chooses(p) PROVE HeldOnlyMidHand'
  BY <1>3, <1>5, ThreadsAre DEF Chooses, LeaveByChoice, Away, HeldSeats, grace, people
<1>6. ASSUME NEW p \in Player, Drops(p) PROVE HeldOnlyMidHand'
  <2>1. UNCHANGED <<index, tables>> /\ online' = online \ {p}
    BY <1>6 DEF Drops, Disconnect
  <2>2. ASSUME NEW q \in Away', q # p, \A h : Due(h) => Due(h)',
               \A r \in Player : r # p => pending'[r] = pending[r]
        PROVE  MidHand(q)'
    <3>1. q \in Away /\ MidHand(q)
      BY <2>1, <2>2, MidHandIs DEF Away, HeldSeats
    <3> QED BY <2>1, <2>2, <3>1 DEF MidHand, index, tables
  <2>3. CASE Holdable(playerLobby[p]) /\ Arm(p)
    <3>1. \A r \in Player : r # p => pending'[r] = pending[r]
      BY <2>3 DEF Arm, TypeOK
    <3>2. \A h : Due(h) => Due(h)'
      BY <2>3, DueSame DEF Arm
    <3>3. MidHand(p)'
      BY <2>1, <2>3 DEF Holdable, MidHand, index, tables
    <3> QED BY <2>2, <3>1, <3>2, <3>3, MidHandIsNext
  <2>4. CASE Took(Session(p), {}, {LeaveLobby(p)}) /\ UNCHANGED grace
    <3>1. (\A h : Due(h) => Due(h)') /\ Due(LeaveLobby(p))'
      BY <2>4, DueTook, ThreadsAre
    <3>2. MidHand(p)'
      BY <3>1 DEF MidHand
    <3> QED BY <2>2, <2>4, <3>1, <3>2, MidHandIsNext DEF grace
  <2>5. CASE UNCHANGED todo /\ UNCHANGED grace /\ playerLobby[p] = None
    <3>1. MidHand(p)'
      BY <2>1, <2>5, TablesAssumption DEF MidHand, index
    <3> QED BY <2>2, <2>5, <3>1, DueSame, MidHandIsNext DEF grace
  <2>6. \/ Holdable(playerLobby[p]) /\ Arm(p)
        \/ Took(Session(p), {}, {LeaveLobby(p)}) /\ UNCHANGED grace
        \/ UNCHANGED todo /\ UNCHANGED grace /\ playerLobby[p] = None
    BY <1>6 DEF Drops
  <2> QED BY <2>3, <2>4, <2>5, <2>6
<1>7. ASSUME NEW p \in Player, Connect(p) \/ TimerFires(p) \/ StrayFires(p) PROVE HeldOnlyMidHand'
  BY <1>3, <1>7 DEF Connect, TimerFires, StrayFires, Away, HeldSeats, people, TypeOK
<1>8. ASSUME NEW p \in Player, CallsBack(p) PROVE HeldOnlyMidHand'
  <2>1. Away' \subseteq Away /\ UNCHANGED <<index, tables>>
    BY <1>8 DEF CallsBack, TimerCallback, BeginExpire, Away, HeldSeats, people, TypeOK
  <2> QED BY <1>3, <1>8, <2>1, ThreadsAre DEF CallsBack
<1> QED BY <1>1, <1>2, <1>4, <1>5, <1>6, <1>7, <1>8 DEF SessionEffect

LEMMA MidHandMatch ==
  ASSUME TypeOK, TypeOK', HeldOnlyMidHand, NEW g \in Game, MatchEffect(g)
  PROVE  HeldOnlyMidHand'
<1>1. UNCHANGED <<index, tables, grace, people>>
  BY DEF MatchEffect, Played, Idled, HeardIdle, HeardEnd, FoundClosed
<1>2. Away' = Away /\ \A p \in Away' : Stays(p)
  BY <1>1, StaysSame DEF Away, HeldSeats, index, tables, grace, people
<1>3. ASSUME NEW new, Took(Watcher(g), {}, new) PROVE HeldOnlyMidHand'
  BY <1>2, <1>3, MidHandPast, ThreadsAre
<1> QED BY <1>2, <1>3, MidHandSame DEF MatchEffect, Played, Idled, HeardIdle, HeardEnd, FoundClosed

LEMMA MidHandEnd ==
  ASSUME TypeOK, TypeOK', HeldOnlyMidHand, EndEffect
  PROVE  HeldOnlyMidHand'
<1>1. UNCHANGED <<index, tables, grace, people>>
  BY DEF EndEffect, Drained, DrainedOne, BeginShutdown, StopFinalizers
<1>2. Away' = Away /\ \A p \in Away' : Stays(p)
  BY <1>1, StaysSame DEF Away, HeldSeats, index, tables, grace, people
<1>3. ASSUME NEW done, NEW new, Took(Main, done, new), \A h \in done : h.op \notin Releases
      PROVE  HeldOnlyMidHand'
  BY <1>2, <1>3, MidHandPast, ThreadsAre
<1>4. CASE Drained
  BY <1>3, <1>4, HoldFields DEF Drained, Releases
<1>5. ASSUME NEW held \in SUBSET Player, NEW p \in held, DrainedOne(held, p) PROVE HeldOnlyMidHand'
  BY <1>3, <1>5, HoldFields DEF DrainedOne, Releases
<1>6. CASE BeginShutdown /\ Took(Main, {}, {DrainHeld})
  BY <1>3, <1>6
<1>7. CASE StopFinalizers
  BY <1>2, <1>7, MidHandSame DEF StopFinalizers
<1> QED BY <1>4, <1>5, <1>6, <1>7 DEF EndEffect

LEMMA MidHandStep ==
  ASSUME TypeInv, TypeInv', IndexInv, HeldOnlyMidHand, [Next]_vars
  PROVE  HeldOnlyMidHand'
<1>1. CASE UNCHANGED vars
  <2>1. Away' = Away /\ UNCHANGED todo /\ \A p \in Away' : Stays(p)
    BY <1>1, StaysSame DEF vars, index, tables, grace, people, Away, HeldSeats
  <2> QED BY <2>1, MidHandSame DEF TypeInv
<1> QED BY <1>1, Effects, MidHandSession, MidHandHold, MidHandMatch, MidHandEnd DEF TypeInv

\* The seat of a player who is away is held only while its match runs, or while whoever
\* reopened the table has yet to give the held seats up, or a leave of that player is on its
\* way: whatever the player opens, joins, leaves and drops in between.
THEOREM HoldsMidHand == Spec => []HeldOnlyMidHand
<1>1. Init => HeldOnlyMidHand
  BY DEF Init, HeldOnlyMidHand, HeldSeats
<1>2. TypeInv /\ TypeInv' /\ IndexInv /\ HeldOnlyMidHand /\ [Next]_vars => HeldOnlyMidHand'
  BY MidHandStep
<1> QED BY <1>1, <1>2, TypeInit, TypeStep, IndexInit, IndexStep, PTL DEF Spec

-----------------------------------------------------------------------------
(* The roster of a table and the seats of its match *)

Sits(p, t) == Open(t) /\ OnRoster(p, t)

\* The watcher of g has to be told, or to act on it, that p idled out.
IdleComing(p, g) == IdleEvent(p) \in ToSet(unread[g]) \/ Has(Watcher(g), LeaveLobby(p))

\* What p's seats at the table t and in its match g owe each other.
SeatFollows(p, t, g) ==
  /\ phase[g] = "Playing" /\ p \in seats[g] /\ ~Sits(p, t) => Due(NotifyEngine(p, g))
  /\ phase[g] = "Playing" /\ p \notin seats[g] /\ playerLobby[p] = t => IdleComing(p, g)
  /\ Due(NotifyEngine(p, g)) => ~Sits(p, t)

MatchAt(t, g) == phase[g] # "Waiting" /\ host[g] = t /\ state[t] \in {"InGame", "Closed"}

\* A table's match was started there, the table takes nobody in while it has one, and
\* an engine is told only of players who have left the match's table for good.
SeatsInv ==
  /\ \A t \in Table, g \in Game :
       activeEngine[t] = g => MatchAt(t, g) /\ \A p \in Player : SeatFollows(p, t, g)
  /\ \A p \in Player, g \in Game : Due(NotifyEngine(p, g)) => phase[g] # "Waiting"

\* A step that starts no match and seats or unseats nobody at a table that has one.
SitsStill ==
  \A t \in Table, g \in Game :
    activeEngine'[t] = g =>
      /\ activeEngine[t] = g /\ state'[t] \in {"InGame", "Closed"}
      /\ \A p \in Player : (Sits(p, t)' <=> Sits(p, t)) /\ (playerLobby'[p] = t => playerLobby[p] = t)

LEMMA SitsStillSame == SeatsInv /\ UNCHANGED <<playerLobby, state, roster, activeEngine>> => SitsStill
BY DEF SeatsInv, SitsStill, MatchAt, Sits, Open, OnRoster

LEMMA SeatsQuiet ==
  ASSUME SeatsInv, SitsStill, UNCHANGED <<host, seats, phase>>,
         \A p \in Player, g \in Game : Due(NotifyEngine(p, g))' <=> Due(NotifyEngine(p, g)),
         \A p \in Player, g \in Game : IdleComing(p, g) => IdleComing(p, g)'
  PROVE  SeatsInv'
<1>1. ASSUME NEW t \in Table, NEW g \in Game, activeEngine'[t] = g
      PROVE  MatchAt(t, g)' /\ \A p \in Player : SeatFollows(p, t, g)'
  BY <1>1 DEF SeatsInv, SitsStill, MatchAt, SeatFollows
<1>2. \A p \in Player, g \in Game : Due(NotifyEngine(p, g))' => phase'[g] # "Waiting"
  BY DEF SeatsInv
<1> QED BY <1>1, <1>2 DEF SeatsInv

LEMMA SeatsTook ==
  ASSUME SeatsInv, SitsStill, UNCHANGED <<host, seats, phase, unread>>,
         NEW th \in Threads, NEW done, NEW new, Took(th, done, new),
         \A h \in done : h.op \notin {"NotifyEngine", "LeaveLobby"},
         \A h \in new : h.op # "NotifyEngine"
  PROVE  SeatsInv'
<1>1. \A p \in Player, g \in Game : Due(NotifyEngine(p, g))' <=> Due(NotifyEngine(p, g))
  BY DueTook, HoldFields
<1>2. \A p \in Player, g \in Game : Has(Watcher(g), LeaveLobby(p)) => Has(Watcher(g), LeaveLobby(p))'
  BY ThreadsAre, HoldFields DEF Took, Has
<1> QED BY <1>1, <1>2, SeatsQuiet DEF IdleComing

LEMMA SeatsSame ==
  ASSUME SeatsInv, SitsStill, UNCHANGED <<host, seats, phase, unread, todo>>
  PROVE  SeatsInv'
BY SeatsQuiet, DueSame, ThreadsAre DEF IdleComing

\* A table that takes somebody in, or lets somebody be kicked out, has no match.
LEMMA NoMatchYet ==
  ASSUME SeatsInv, NEW t \in Table, state[t] \in {"Unused", "Waiting"}
  PROVE  \A g \in Game : activeEngine[t] # g
BY DEF SeatsInv, MatchAt

LEMMA SeatsSession ==
  ASSUME TypeOK, SeatsInv, SessionEffect
  PROVE  SeatsInv'
<1>0. ASSUME NEW t \in Table, state[t] \in {"Unused", "Waiting"},
             UNCHANGED <<activeEngine, host, seats, phase, unread, todo>>,
             \A s \in Table : s # t => state'[s] = state[s] /\ ToSet(roster'[s]) = ToSet(roster[s]),
             NEW p \in Player, NEW to \in {t, None}, playerLobby' = [playerLobby EXCEPT ![p] = to]
      PROVE  SeatsInv'
  <2>1. \A q \in Player, s \in Table : s # t /\ playerLobby'[q] = s => playerLobby[q] = s
    BY <1>0, TablesAssumption DEF TypeOK
  <2>2. SitsStill
    BY <1>0, <2>1, NoMatchYet DEF SitsStill, SeatsInv, MatchAt, Sits, Open, OnRoster
  <2> QED BY <1>0, <2>2, SeatsSame
<1>1. ASSUME NEW p \in Player, NEW t \in Table, New(p, t) PROVE SeatsInv'
  <2>1. \A s \in Table : s # t => state'[s] = state[s] /\ ToSet(roster'[s]) = ToSet(roster[s])
    BY <1>1, OpenSeats DEF New, TypeOK
  <2> QED BY <1>0, <1>1, <2>1 DEF New, matches
<1>2. ASSUME NEW p \in Player, NEW t \in Table, JoinLobbyByCode(p, t) PROVE SeatsInv'
  <2>1. \A s \in Table : s # t => state'[s] = state[s] /\ ToSet(roster'[s]) = ToSet(roster[s])
    BY <1>2, JoinSeats DEF JoinLobbyByCode
  <2> QED BY <1>0, <1>2, <2>1 DEF JoinLobbyByCode, matches
<1>3. ASSUME NEW p \in Player, NEW q \in Player, Kick(p, q) PROVE SeatsInv'
  <2>1. PICK t \in Table : /\ state[t] = "Waiting" /\ SeatLost(q, t)
                           /\ playerLobby' = [playerLobby EXCEPT ![q] = None]
                           /\ UNCHANGED <<state, activeEngine, todo, matches>>
    BY <1>3, KickSeats
  <2> QED BY <1>0, <2>1 DEF SeatLost, matches
<1>4. ASSUME UNCHANGED <<index, tables, matches>>,
             UNCHANGED todo \/ \E th \in Threads : \E new : Took(th, {}, new) /\ \A h \in new : h.op # "NotifyEngine"
      PROVE  SeatsInv'
  <2>1. SitsStill
    BY <1>4, SitsStillSame DEF index, tables
  <2>2. UNCHANGED <<host, seats, phase, unread>>
    BY <1>4 DEF matches
  <2> QED BY <1>4, <2>1, <2>2, SeatsSame, SeatsTook
<1>5. ASSUME NEW p \in Player, NEW t \in Table, Readies(p, t) PROVE SeatsInv'
  <2> DEFINE new == (IF state[t] = "InGame" THEN {ReleaseGame(t)} ELSE {}) \cup {FlipReady(p, t)}
  <2>1. Took(Session(p), {}, new) /\ UNCHANGED <<index, tables, matches>>
    BY <1>5 DEF Readies, ToggleReady
  <2>2. \A h \in new : h.op # "NotifyEngine"
    BY HoldFields
  <2> HIDE DEF new
  <2> QED BY <1>4, <2>1, <2>2, ThreadsAre
<1>6. \A p \in Player : \A h \in {LeaveLobby(p)} : h.op # "NotifyEngine"
  BY HoldFields
<1>7. ASSUME NEW p \in Player, Chooses(p) PROVE SeatsInv'
  BY <1>4, <1>6, <1>7, ThreadsAre DEF Chooses, LeaveByChoice
<1>8. ASSUME NEW p \in Player, Drops(p) PROVE SeatsInv'
  <2>1. UNCHANGED <<index, tables, matches>>
    BY <1>8 DEF Drops, Disconnect
  <2> QED BY <1>4, <1>6, <1>8, <2>1, ThreadsAre DEF Drops, Arm
<1>9. ASSUME NEW p \in Player, Connect(p) \/ TimerFires(p) \/ StrayFires(p) PROVE SeatsInv'
  BY <1>4, <1>9 DEF Connect, TimerFires, StrayFires
<1>10. ASSUME NEW p \in Player, CallsBack(p) PROVE SeatsInv'
  <2>1. UNCHANGED <<index, tables, matches>>
    BY <1>10 DEF CallsBack, TimerCallback
  <2> QED BY <1>4, <1>6, <1>10, <2>1, ThreadsAre DEF CallsBack
<1> QED BY <1>1, <1>2, <1>3, <1>5, <1>7, <1>8, <1>9, <1>10 DEF SessionEffect

\* Leaving: the roster lets go of p first, and the engine is about to be told.
LEMMA SeatsLeft ==
  ASSUME TypeOK, IndexInv, SeatsInv, NEW th \in Threads, NEW p \in Player, Left(th, p)
  PROVE  SeatsInv'
<1>1. UNCHANGED <<host, seats, phase, unread>>
  BY DEF Left, matches
<1>2. CASE ~InLobby(p) /\ UNCHANGED <<tables, playerLobby>> /\ Took(th, {LeaveLobby(p)}, {})
  <2>1. \A q \in Player, g \in Game : Due(NotifyEngine(q, g))' <=> Due(NotifyEngine(q, g))
    BY <1>2, DueTook, HoldFields
  <2>2. \A t \in Table : playerLobby[p] # t
    BY <1>2, SitsNowhere, TablesAssumption
  <2>3. ASSUME NEW q \in Player, NEW g \in Game, q # p, IdleComing(q, g) PROVE IdleComing(q, g)'
    <3>1. Has(Watcher(g), LeaveLobby(q)) => Has(Watcher(g), LeaveLobby(q))'
      BY <1>2, <2>3, ThreadsAre, HoldFields DEF Took, Has
    <3> QED BY <1>1, <2>3, <3>1 DEF IdleComing
  <2>4. /\ \A q \in Player, t \in Table : Sits(q, t)' <=> Sits(q, t)
        /\ UNCHANGED playerLobby
    BY <1>2 DEF Sits, Open, OnRoster, tables
  <2>5. ASSUME NEW t \in Table, NEW g \in Game, activeEngine'[t] = g
        PROVE  MatchAt(t, g)' /\ \A q \in Player : SeatFollows(q, t, g)'
    <3>1. activeEngine[t] = g /\ UNCHANGED state
      BY <1>2, <2>5 DEF tables
    <3> QED BY <1>1, <2>1, <2>2, <2>3, <2>4, <3>1 DEF SeatsInv, MatchAt, SeatFollows
  <2> QED BY <1>1, <2>1, <2>5 DEF SeatsInv
<1>3. ASSUME NEW t \in Table, Leaves(p, t), Took(th, {LeaveLobby(p)}, AfterLeaving(p, t))
      PROVE  SeatsInv'
  <2>1. ~Sits(p, t)' /\ \A s \in Table : playerLobby'[p] # s
    BY <1>3, TablesAssumption DEF Leaves, SeatLost, Sits, Open, OnRoster, TypeOK
  <2>2. \A q \in Player, s \in Table : q # p \/ s # t => (Sits(q, s)' <=> Sits(q, s))
    BY ZenonT(60), <1>3 DEF Leaves, SeatLost, Sits, Open, OnRoster, TypeOK
  <2>3. \A q \in Player : q # p => playerLobby'[q] = playerLobby[q]
    BY <1>3 DEF Leaves, TypeOK
  <2>4. \A s \in Table : state'[s] = state[s] \/ state'[s] = "Closed"
    BY <1>3 DEF Leaves, TypeOK
  <2>5. \A h \in AfterLeaving(p, t) : h.op = "NotifyEngine" => activeEngine[t] # None /\ h = NotifyEngine(p, activeEngine[t])
    BY HoldFields DEF AfterLeaving
  <2>6. ASSUME NEW q \in Player, NEW g \in Game
        PROVE  /\ Due(NotifyEngine(q, g)) => Due(NotifyEngine(q, g))'
               /\ Due(NotifyEngine(q, g))' => Due(NotifyEngine(q, g)) \/ (q = p /\ activeEngine[t] = g)
    BY <1>3, <2>5, DueTook, HoldFields
  <2>7. ASSUME NEW g \in Game, activeEngine[t] = g PROVE Due(NotifyEngine(p, g))'
    <3>1. NotifyEngine(p, g) \in AfterLeaving(p, t)
      BY <2>7, TablesAssumption DEF AfterLeaving
    <3> QED BY <1>3, <3>1, DueTook
  <2>8. ASSUME NEW q \in Player, NEW g \in Game, q # p, IdleComing(q, g) PROVE IdleComing(q, g)'
    <3>1. Has(Watcher(g), LeaveLobby(q)) => Has(Watcher(g), LeaveLobby(q))'
      BY <1>3, <2>8, ThreadsAre, HoldFields DEF Took, Has
    <3> QED BY <1>1, <2>8, <3>1 DEF IdleComing
  <2>9. \A q \in Player, g \in Game : Due(NotifyEngine(q, g))' => phase'[g] # "Waiting"
    BY <1>1, <2>6 DEF SeatsInv, MatchAt
  <2>10. ASSUME NEW s \in Table, NEW g \in Game, activeEngine'[s] = g
        PROVE  MatchAt(s, g)' /\ \A q \in Player : SeatFollows(q, s, g)'
    <3>1. activeEngine[s] = g
      BY <1>3, <2>10 DEF Leaves
    <3>2. MatchAt(s, g)'
      BY <1>1, <2>4, <3>1 DEF SeatsInv, MatchAt
    <3>3. ASSUME NEW q \in Player, q # p PROVE SeatFollows(q, s, g)'
      <4>1. SeatFollows(q, s, g)
        BY <3>1 DEF SeatsInv
      <4> QED BY <1>1, <2>2, <2>6, <2>8, <2>3, <3>3, <4>1 DEF SeatFollows
    <3>4. SeatFollows(p, s, g)'
      <4>1. SeatFollows(p, s, g)
        BY <3>1 DEF SeatsInv
      <4>2. CASE s = t
        BY <2>1, <2>7, <3>1, <4>2 DEF SeatFollows
      <4>3. CASE s # t
        <5>1. activeEngine[t] # g
          BY <3>1, <4>3 DEF SeatsInv, MatchAt
        <5> QED BY <1>1, <2>1, <2>2, <2>6, <4>1, <4>3, <5>1 DEF SeatFollows
      <4> QED BY <4>2, <4>3
    <3> QED BY <3>2, <3>3, <3>4
  <2> QED BY <2>9, <2>10 DEF SeatsInv
<1> QED BY <1>2, <1>3 DEF Left

\* One seat of a running match given up by its engine.
LEMMA SeatsGiven ==
  ASSUME TypeOK, IndexInv, SeatsInv, NEW g \in Game, NEW p \in Player, NEW before,
         Gives(g, p, before), UNCHANGED <<playerLobby, state, roster, activeEngine>>,
         \A q \in Player, f \in Game : (q # p \/ f # g) => (Due(NotifyEngine(q, f))' <=> Due(NotifyEngine(q, f))),
         \A q \in Player, f \in Game : Has(Watcher(f), LeaveLobby(q)) => Has(Watcher(f), LeaveLobby(q))',
         \/ Due(NotifyEngine(p, g))
         \/ feedOpen[g] /\ IdleEvent(p) \in before,
         Due(NotifyEngine(p, g))' => Due(NotifyEngine(p, g))
  PROVE  SeatsInv'
<1>1. /\ p \notin seats'[g] /\ \A q \in Player : q # p => (q \in seats'[g] <=> q \in seats[g])
      /\ \A f \in Game : f # g => seats'[f] = seats[f]
  BY DEF Gives, TypeOK
<1>2. /\ UNCHANGED host
      /\ \A f \in Game : f # g => phase'[f] = phase[f]
      /\ phase'[g] = phase[g] \/ (phase[g] = "Playing" /\ phase'[g] = "Finished")
  BY DEF Gives, EndsWith, TypeOK
<1>3. /\ \A f \in Game : ToSet(unread[f]) \subseteq ToSet(unread'[f])
      /\ feedOpen[g] => before \subseteq ToSet(unread'[g])
  BY DEF Gives, EndsWith, Hears
<1>4. \A q \in Player, f \in Game : IdleComing(q, f) => IdleComing(q, f)'
  BY <1>3 DEF IdleComing
<1>5. \A q \in Player, t \in Table : Sits(q, t)' <=> Sits(q, t)
  BY DEF Sits, Open, OnRoster
<1>6. ASSUME NEW t \in Table, NEW f \in Game, activeEngine'[t] = f
      PROVE  MatchAt(t, f)' /\ \A q \in Player : SeatFollows(q, t, f)'
  <2>1. activeEngine[t] = f /\ MatchAt(t, f) /\ \A q \in Player : SeatFollows(q, t, f)
    BY <1>6 DEF SeatsInv
  <2>2. MatchAt(t, f)'
    BY <1>2, <2>1 DEF MatchAt
  <2>3. ASSUME NEW q \in Player, q # p \/ f # g PROVE SeatFollows(q, t, f)'
    <3>1. /\ SeatFollows(q, t, f) /\ (phase'[f] = "Playing" => phase[f] = "Playing")
          /\ (q \in seats'[f] <=> q \in seats[f])
      BY <1>1, <1>2, <2>1, <2>3
    <3> QED BY <1>4, <1>5, <2>3, <3>1 DEF SeatFollows
  <2>4. f = g => SeatFollows(p, t, f)'
    <3>1. ASSUME f = g, Due(NotifyEngine(p, g)) PROVE ~Sits(p, t)
      BY <2>1, <3>1 DEF SeatFollows
    <3>2. feedOpen[g] /\ IdleEvent(p) \in before => IdleComing(p, g)'
      BY <1>3 DEF IdleComing
    <3>3. playerLobby[p] = t => Sits(p, t)
      BY IndexParts DEF IndexInv, Sits
    <3> QED BY <1>1, <1>5, <2>1, <3>1, <3>2, <3>3 DEF SeatFollows
  <2> QED BY <2>2, <2>3, <2>4
<1>7. \A q \in Player, f \in Game : Due(NotifyEngine(q, f))' => phase'[f] # "Waiting"
  BY <1>2 DEF SeatsInv
<1> QED BY <1>6, <1>7 DEF SeatsInv

\* Dealing in: everyone on the roster gets a seat.
LEMMA SeatsDealt ==
  ASSUME TypeOK, IndexInv, SeatsInv, NEW t \in Table, NEW g \in Game, phase[g] = "Waiting",
         StartGame(t, g), UNCHANGED playerLobby,
         NEW th \in Threads, NEW done, Took(th, done, {}),
         \A h \in done : h.op \notin {"NotifyEngine", "LeaveLobby"}
  PROVE  SeatsInv'
<1>1. \A p \in Player, f \in Game : Due(NotifyEngine(p, f))' <=> Due(NotifyEngine(p, f))
  BY DueTook, HoldFields
<1>2. \A p \in Player, f \in Game : Has(Watcher(f), LeaveLobby(p)) => Has(Watcher(f), LeaveLobby(p))'
  BY ThreadsAre, HoldFields DEF Took, Has
<1>3. \A p \in Player, f \in Game : IdleComing(p, f) => IdleComing(p, f)'
  BY <1>2 DEF IdleComing, StartGame
<1>4. /\ activeEngine'[t] = g /\ state'[t] = "InGame" /\ host'[g] = t /\ phase'[g] = "Playing"
      /\ seats'[g] = ToSet(roster[t]) /\ UNCHANGED roster
      /\ \A s \in Table : s # t => activeEngine'[s] = activeEngine[s] /\ state'[s] = state[s]
      /\ \A f \in Game : f # g => host'[f] = host[f] /\ phase'[f] = phase[f] /\ seats'[f] = seats[f]
  BY DEF StartGame, TypeOK
<1>5. \A p \in Player : ~Due(NotifyEngine(p, g))
  BY DEF SeatsInv
<1>6. ASSUME NEW s \in Table, NEW f \in Game, activeEngine'[s] = f
      PROVE  MatchAt(s, f)' /\ \A p \in Player : SeatFollows(p, s, f)'
  <2>1. CASE s = t
    <3>1. f = g /\ MatchAt(t, g)'
      BY <1>4, <1>6, <2>1 DEF MatchAt
    <3>2. \A p \in Player : (Sits(p, t)' <=> p \in seats'[g]) /\ (playerLobby[p] = t => p \in seats'[g])
      BY <1>4, IndexParts DEF IndexInv, Sits, Open, OnRoster
    <3> QED BY <1>1, <1>5, <2>1, <3>1, <3>2 DEF SeatFollows
  <2>2. CASE s # t
    <3>1. activeEngine[s] = f /\ MatchAt(s, f) /\ \A p \in Player : SeatFollows(p, s, f)
      BY <1>4, <1>6, <2>2 DEF SeatsInv
    <3>2. f # g
      BY <3>1 DEF MatchAt
    <3>3. \A p \in Player : Sits(p, s)' <=> Sits(p, s)
      BY <1>4, <2>2 DEF Sits, Open, OnRoster
    <3> QED BY <1>1, <1>3, <1>4, <2>2, <3>1, <3>2, <3>3 DEF MatchAt, SeatFollows
  <2> QED BY <2>1, <2>2
<1>7. \A p \in Player, f \in Game : Due(NotifyEngine(p, f))' => phase'[f] # "Waiting"
  BY <1>1, <1>4 DEF SeatsInv
<1> QED BY <1>6, <1>7 DEF SeatsInv

LEMMA SeatsHold ==
  ASSUME TypeOK, IndexInv, SeatsInv, NEW th \in Threads, HoldEffect(th)
  PROVE  SeatsInv'
<1>0. ASSUME UNCHANGED <<index, tables, matches>>, NEW done, NEW new, Took(th, done, new),
             \A h \in done : h.op \notin {"NotifyEngine", "LeaveLobby"},
             \A h \in new : h.op # "NotifyEngine"
      PROVE  SeatsInv'
  <2>1. SitsStill /\ UNCHANGED <<host, seats, phase, unread>>
    BY <1>0, SitsStillSame DEF index, tables, matches
  <2> QED BY <1>0, <2>1, SeatsTook
<1>1. ASSUME NEW p \in Player, Left(th, p) PROVE SeatsInv'
  BY <1>1, SeatsLeft
<1>2. ASSUME NEW p \in Player, NEW g \in Game, Notified(th, p, g) PROVE SeatsInv'
  <2>1. /\ \A q \in Player, f \in Game : (q # p \/ f # g) => (Due(NotifyEngine(q, f))' <=> Due(NotifyEngine(q, f)))
        /\ Due(NotifyEngine(p, g))' => Due(NotifyEngine(p, g))
    BY <1>2, DueTook, HoldFields DEF Notified
  <2>2. \A q \in Player, f \in Game : Has(Watcher(f), LeaveLobby(q)) => Has(Watcher(f), LeaveLobby(q))'
    BY <1>2, ThreadsAre, HoldFields DEF Notified, Took, Has
  <2>3. Due(NotifyEngine(p, g)) /\ UNCHANGED <<playerLobby, state, roster, activeEngine>>
    BY <1>2, DueIs DEF Notified, index, tables
  <2>4. CASE Gives(g, p, {})
    BY <2>1, <2>2, <2>3, <2>4, SeatsGiven
  <2>5. CASE (phase[g] = "Finished" \/ p \notin seats[g]) /\ UNCHANGED matches
    <3>1. UNCHANGED <<host, seats, phase, unread>>
      BY <2>5 DEF matches
    <3>2. \A q \in Player, t \in Table : Sits(q, t)' <=> Sits(q, t)
      BY <2>3 DEF Sits, Open, OnRoster
    <3>3. \A q \in Player, f \in Game : IdleComing(q, f) => IdleComing(q, f)'
      BY <2>2, <3>1 DEF IdleComing
    <3>4. ASSUME NEW t \in Table, NEW f \in Game, activeEngine'[t] = f
          PROVE  MatchAt(t, f)' /\ \A q \in Player : SeatFollows(q, t, f)'
      <4>1. activeEngine[t] = f /\ MatchAt(t, f) /\ \A q \in Player : SeatFollows(q, t, f)
        BY <2>3, <3>4 DEF SeatsInv
      <4>2. ASSUME NEW q \in Player, q # p \/ f # g PROVE SeatFollows(q, t, f)'
        BY <2>1, <2>3, <3>1, <3>2, <3>3, <4>1, <4>2 DEF SeatFollows
      <4>3. f = g => SeatFollows(p, t, f)'
        BY <2>1, <2>3, <2>5, <3>1, <3>2, <3>3, <4>1 DEF SeatFollows
      <4> QED BY <2>3, <3>1, <4>1, <4>2, <4>3 DEF MatchAt
    <3>5. \A q \in Player, f \in Game : Due(NotifyEngine(q, f))' => phase'[f] # "Waiting"
      BY <2>1, <3>1 DEF SeatsInv
    <3> QED BY <3>4, <3>5 DEF SeatsInv
  <2> QED BY <1>2, <2>4, <2>5 DEF Notified
<1>3. ASSUME NEW t \in Table, Removed(th, t) PROVE SeatsInv'
  <2> DEFINE new == IF activeEngine[t] = None THEN {} ELSE {CloseEngine(activeEngine[t])}
  <2>1. \A h \in new : h.op # "NotifyEngine"
    BY HoldFields
  <2>2. Took(th, {RemoveLobby(t)}, new) /\ UNCHANGED <<host, seats, phase, unread>>
    BY <1>3 DEF Removed, matches
  <2>3. \A s \in Table : s # t => activeEngine'[s] = activeEngine[s]
    BY <1>3 DEF Removed, TypeOK
  <2>4. \A g \in Game : activeEngine'[t] # g
    BY <1>3, TablesAssumption DEF Removed, TypeOK
  <2>5. \A q \in Player, s \in Table : playerLobby'[q] = s => playerLobby[q] = s
    BY <1>3, TablesAssumption DEF Removed
  <2>6. SitsStill
    BY <1>3, <2>3, <2>4, <2>5 DEF Removed, SitsStill, SeatsInv, MatchAt, Sits, Open, OnRoster
  <2> QED BY <2>1, <2>2, <2>6, SeatsTook, HoldFields
<1>4. ASSUME NEW g \in Game, Silenced(th, g) PROVE SeatsInv'
  <2>1. SitsStill /\ UNCHANGED <<host, seats, phase, unread>>
    BY <1>4, SitsStillSame DEF Silenced, index, tables
  <2> QED BY <1>4, <2>1, SeatsTook, HoldFields DEF Silenced
<1>5. ASSUME NEW p \in Player, NEW t \in Table, Flipped(th, p, t) PROVE SeatsInv'
  <2>1. \A h \in {FlipReady(p, t)} : h.op \notin {"NotifyEngine", "LeaveLobby"}
    BY HoldFields
  <2>2. CASE UNCHANGED <<state, activeEngine, matches>>
    <3>1. SitsStill /\ UNCHANGED <<host, seats, phase, unread>>
      BY <1>5, <2>2, SitsStillSame DEF Flipped, index, matches
    <3> QED BY <1>5, <2>1, <3>1, SeatsTook DEF Flipped
  <2>3. ASSUME NEW g \in Game, phase[g] = "Waiting", StartGame(t, g) PROVE SeatsInv'
    BY <1>5, <2>1, <2>3, SeatsDealt DEF Flipped, index
  <2> QED BY <1>5, <2>2, <2>3 DEF Flipped
<1>6. ASSUME NEW t \in Table, Released(th, t) PROVE SeatsInv'
  <2>1. \A h \in {ReleaseGame(t)} : h.op \notin {"NotifyEngine", "LeaveLobby"}
    BY HoldFields
  <2>2. CASE UNCHANGED tables /\ Took(th, {ReleaseGame(t)}, {})
    BY <1>0, <1>6, <2>1, <2>2 DEF Released
  <2>3. CASE /\ state' = [state EXCEPT ![t] = "Waiting"]
             /\ activeEngine' = [activeEngine EXCEPT ![t] = None]
             /\ Took(th, {ReleaseGame(t)}, {CloseEngine(activeEngine[t]), ReleaseHeld(t)})
    <3>1. UNCHANGED <<host, seats, phase, unread, playerLobby, roster>>
      BY <1>6 DEF Released, index, matches
    <3>2. \A s \in Table : s # t => activeEngine'[s] = activeEngine[s] /\ state'[s] = state[s]
      BY <2>3 DEF TypeOK
    <3>3. \A g \in Game : activeEngine'[t] # g
      BY <2>3, TablesAssumption DEF TypeOK
    <3>4. SitsStill
      BY <3>1, <3>2, <3>3 DEF SitsStill, SeatsInv, MatchAt, Sits, Open, OnRoster
    <3>5. \A h \in {CloseEngine(activeEngine[t]), ReleaseHeld(t)} : h.op # "NotifyEngine"
      BY HoldFields
    <3> QED BY <2>1, <2>3, <3>1, <3>4, <3>5, SeatsTook
  <2> QED BY <1>6, <2>2, <2>3 DEF Released
<1>7. ASSUME NEW t \in Table, HeldReleased(th, t) PROVE SeatsInv'
  <2>1. \A h \in SomeHold(ExpireEach(HeldAt(t))) : h.op # "NotifyEngine"
    BY SomeHoldOps, HoldFields
  <2> QED BY <1>0, <1>7, <2>1, HoldFields DEF HeldReleased
<1>8. ASSUME NEW held \in SUBSET Player, NEW p \in held, Expired(th, held, p) PROVE SeatsInv'
  <2> DEFINE rest == SomeHold(ExpireEach(held \ {p}))
  <2>1. \A h \in rest : h.op # "NotifyEngine"
    BY SomeHoldOps, HoldFields
  <2>2. \A h \in {LeaveLobby(p)} \cup rest : h.op # "NotifyEngine"
    BY <2>1, HoldFields
  <2>3. UNCHANGED <<index, tables, matches>>
    BY <1>8 DEF Expired
  <2> HIDE DEF rest
  <2>4. Took(th, {ExpireEach(held)}, rest) \/ Took(th, {ExpireEach(held)}, {LeaveLobby(p)} \cup rest)
    BY <1>8 DEF Expired, rest
  <2> QED BY <1>0, <2>1, <2>2, <2>3, <2>4, HoldFields
<1>9. ASSUME NEW g \in Game, NEW r \in EndReasons, Finalized(th, g, r) PROVE SeatsInv'
  <2>1. \A h \in {Persist(g, r)} : h.op # "NotifyEngine"
    BY HoldFields
  <2> QED BY <1>0, <1>9, <2>1, HoldFields DEF Finalized
<1>10. ASSUME NEW g \in Game, NEW r \in EndReasons, Written(th, g, r) PROVE SeatsInv'
  BY <1>0, <1>10, HoldFields DEF Written
<1> QED BY <1>1, <1>2, <1>3, <1>4, <1>5, <1>6, <1>7, <1>8, <1>9, <1>10 DEF HoldEffect

LEMMA SeatsMatch ==
  ASSUME TypeOK, IndexInv, SeatsInv, NEW g \in Game, MatchEffect(g)
  PROVE  SeatsInv'
<1>0. UNCHANGED <<playerLobby, state, roster, activeEngine, host>> /\ Watcher(g) \in Threads
  BY ThreadsAre DEF MatchEffect, Played, Idled, Gives, HeardIdle, HeardEnd, FoundClosed, index, tables
<1>1. ASSUME NEW r \in Ends, Played(g, r) PROVE SeatsInv'
  <2>1. /\ UNCHANGED <<seats, todo>> /\ phase'[g] = "Finished"
        /\ \A f \in Game : f # g => phase'[f] = phase[f]
        /\ \A f \in Game : ToSet(unread[f]) \subseteq ToSet(unread'[f])
    BY <1>1 DEF Played, EndsWith, Hears, TypeOK
  <2>2. /\ \A p \in Player, f \in Game : Due(NotifyEngine(p, f))' <=> Due(NotifyEngine(p, f))
        /\ \A p \in Player, f \in Game : IdleComing(p, f) => IdleComing(p, f)'
        /\ \A p \in Player, t \in Table : Sits(p, t)' <=> Sits(p, t)
    BY <1>0, <2>1, DueSame, ThreadsAre DEF IdleComing, Sits, Open, OnRoster
  <2>3. ASSUME NEW t \in Table, NEW f \in Game, activeEngine'[t] = f
        PROVE  MatchAt(t, f)' /\ \A p \in Player : SeatFollows(p, t, f)'
    <3>1. activeEngine[t] = f /\ MatchAt(t, f) /\ \A p \in Player : SeatFollows(p, t, f)
      BY <1>0, <2>3 DEF SeatsInv
    <3>2. (phase'[f] = "Playing" => phase[f] = "Playing") /\ (phase[f] # "Waiting" => phase'[f] # "Waiting")
      BY <2>1
    <3> QED BY <1>0, <2>1, <2>2, <3>1, <3>2 DEF MatchAt, SeatFollows
  <2>4. \A p \in Player, f \in Game : Due(NotifyEngine(p, f))' => phase'[f] # "Waiting"
    BY <2>1, <2>2 DEF SeatsInv
  <2> QED BY <2>3, <2>4 DEF SeatsInv
<1>2. ASSUME NEW p \in Player, Idled(g, p), Gives(g, p, {IdleEvent(p)}) PROVE SeatsInv'
  <2>1. feedOpen[g] /\ UNCHANGED todo
    BY <1>2 DEF Idled
  <2> QED BY <1>0, <1>2, <2>1, SeatsGiven, DueSame, ThreadsAre
<1>3. SitsStill
  BY <1>0, SitsStillSame
<1>4. ASSUME UNCHANGED <<host, seats, phase>>, NEW new, Took(Watcher(g), {}, new),
             \A h \in new : h.op # "NotifyEngine",
             \A q \in Player, f \in Game : IdleEvent(q) \in ToSet(unread[f]) =>
               IdleEvent(q) \in ToSet(unread'[f]) \/ (f = g /\ LeaveLobby(q) \in new)
      PROVE  SeatsInv'
  <2>1. \A q \in Player, f \in Game : Due(NotifyEngine(q, f))' <=> Due(NotifyEngine(q, f))
    BY <1>0, <1>4, DueTook, HoldFields
  <2>2. \A q \in Player, f \in Game : Has(Watcher(f), LeaveLobby(q)) => Has(Watcher(f), LeaveLobby(q))'
    BY <1>0, <1>4, ThreadsAre DEF Took, Has
  <2>3. \A q \in Player : LeaveLobby(q) \in new => Has(Watcher(g), LeaveLobby(q))'
    BY <1>4 DEF Took
  <2> QED BY <1>3, <1>4, <2>1, <2>2, <2>3, SeatsQuiet DEF IdleComing
<1>5. ASSUME NEW p \in Player, HeardIdle(g, p) PROVE SeatsInv'
  <2>1. \A h \in {LeaveLobby(p)} : h.op # "NotifyEngine"
    BY HoldFields
  <2>2. \A q \in Player : IdleEvent(q) = IdleEvent(p) => q = p
    BY EventsAre
  <2>3. \A q \in Player, f \in Game : IdleEvent(q) \in ToSet(unread[f]) =>
          IdleEvent(q) \in ToSet(unread'[f]) \/ (f = g /\ LeaveLobby(q) \in {LeaveLobby(p)})
    BY <1>5, <2>2 DEF HeardIdle, Takes
  <2> QED BY <1>4, <1>5, <2>1, <2>3 DEF HeardIdle
<1>6. ASSUME NEW r \in EndReasons, HeardEnd(g, r) PROVE SeatsInv'
  <2>1. \A h \in {ReleaseGame(host[g]), Finalize(g, r)} : h.op # "NotifyEngine"
    BY HoldFields
  <2>2. \A q \in Player : IdleEvent(q) # EndEvent(r)
    BY EventsAre
  <2>3. \A q \in Player, f \in Game : IdleEvent(q) \in ToSet(unread[f]) => IdleEvent(q) \in ToSet(unread'[f])
    BY <1>6, <2>2 DEF HeardEnd, Takes
  <2> QED BY <1>4, <1>6, <2>1, <2>3 DEF HeardEnd
<1>7. CASE FoundClosed(g)
  <2>1. \A h \in {ReleaseGame(host[g]), Finalize(g, "Unknown")} : h.op # "NotifyEngine"
    BY HoldFields
  <2> QED BY <1>3, <1>4, <1>7, <2>1, SeatsSame DEF FoundClosed
<1>8. ASSUME NEW p \in Player, Hears(g, {IdleEvent(p)}), UNCHANGED <<host, seats, phase, todo>>
      PROVE  SeatsInv'
  <2>1. \A q \in Player, f \in Game : IdleEvent(q) \in ToSet(unread[f]) => IdleEvent(q) \in ToSet(unread'[f])
    BY <1>8 DEF Hears
  <2> QED BY <1>3, <1>8, <2>1, SeatsQuiet, DueSame, ThreadsAre DEF IdleComing
<1>9. ASSUME NEW p \in Player, Idled(g, p) PROVE SeatsInv'
  BY <1>2, <1>8, <1>9 DEF Idled
<1> QED BY <1>1, <1>5, <1>6, <1>7, <1>9 DEF MatchEffect

LEMMA SeatsEnd ==
  ASSUME TypeOK, SeatsInv, EndEffect
  PROVE  SeatsInv'
<1>1. SitsStill /\ UNCHANGED <<host, seats, phase, unread>>
  BY SitsStillSame DEF EndEffect, Drained, DrainedOne, BeginShutdown, StopFinalizers, index, tables,
                        matches
<1>2. ASSUME NEW done, NEW new, Took(Main, done, new), \A h \in new : h.op # "NotifyEngine",
             \A h \in done : h.op \notin {"NotifyEngine", "LeaveLobby"}
      PROVE  SeatsInv'
  BY <1>1, <1>2, SeatsTook, ThreadsAre
<1>3. CASE Drained
  <2>1. \A h \in SomeHold(LeaveEach(HeldSeats)) : h.op # "NotifyEngine"
    BY SomeHoldOps, HoldFields
  <2> QED BY <1>2, <1>3, <2>1, HoldFields DEF Drained
<1>4. ASSUME NEW held \in SUBSET Player, NEW p \in held, DrainedOne(held, p) PROVE SeatsInv'
  <2>1. \A h \in SomeHold(LeaveEach(held \ {p})) : h.op # "NotifyEngine"
    BY SomeHoldOps, HoldFields
  <2>2. \A h \in {LeaveLobby(p)} \cup SomeHold(LeaveEach(held \ {p})) : h.op # "NotifyEngine"
    BY <2>1, HoldFields
  <2>3. \A h \in {LeaveEach(held)} : h.op \notin {"NotifyEngine", "LeaveLobby"}
    BY HoldFields
  <2>4. Took(Main, {LeaveEach(held)}, {LeaveLobby(p)} \cup SomeHold(LeaveEach(held \ {p})))
    BY <1>4 DEF DrainedOne
  <2> QED BY <1>2, <2>2, <2>3, <2>4
<1>5. CASE BeginShutdown /\ Took(Main, {}, {DrainHeld})
  BY <1>2, <1>5, HoldFields
<1>6. CASE StopFinalizers
  BY <1>1, <1>6, SeatsSame DEF StopFinalizers
<1> QED BY <1>3, <1>4, <1>5, <1>6 DEF EndEffect

LEMMA SeatsStep == TypeInv /\ IndexInv /\ SeatsInv /\ [Next]_vars => SeatsInv'
<1> SUFFICES ASSUME TypeInv, IndexInv, SeatsInv, [Next]_vars PROVE SeatsInv'
  OBVIOUS
<1>1. CASE UNCHANGED vars
  BY <1>1, SitsStillSame, SeatsSame DEF vars, index, tables, matches
<1> QED BY <1>1, Effects, SeatsSession, SeatsHold, SeatsMatch, SeatsEnd DEF TypeInv

LEMMA SeatsInit == Init => SeatsInv
<1> SUFFICES ASSUME Init PROVE SeatsInv
  OBVIOUS
<1>1. \A t \in Table, g \in Game : activeEngine[t] # g
  BY TablesAssumption DEF Init
<1> QED BY <1>1, NothingDue DEF SeatsInv

\* While a match runs, whoever its engine seats and the roster does not is about to be reported
\* to the engine, and whoever is indexed at its table without a seat in it is about to be
\* detached by its watcher: wherever those players have gone in the meantime.
THEOREM RosterAndSeats == Spec => []SeatsFollowRoster
<1>1. TypeInv /\ SeatsInv => SeatsFollowRoster
  <2> SUFFICES ASSUME TypeOK, SeatsInv, NEW t \in Table, NEW p \in Player, NEW g, g = activeEngine[t],
                      g # None, phase[g] = "Playing"
               PROVE  /\ p \in seats[g] /\ ~(Open(t) /\ OnRoster(p, t)) => Due(NotifyEngine(p, g))
                      /\ p \notin seats[g] /\ playerLobby[p] = t =>
                           IdleEvent(p) \in ToSet(unread[g]) \/ LeaveLobby(p) \in ToSet(todo[Watcher(g)])
    BY DEF SeatsFollowRoster, TypeInv
  <2>1. g \in Game
    BY DEF TypeOK
  <2>2. SeatFollows(p, t, g)
    BY <2>1 DEF SeatsInv
  <2> QED BY <2>2 DEF SeatFollows, Sits, IdleComing, Has
<1> QED BY <1>1, TypeInit, TypeStep, IndexInit, IndexStep, SeatsInit, SeatsStep, PTL DEF Spec
=============================================================================
