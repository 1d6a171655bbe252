--------------------------- MODULE ServiceProofs ---------------------------
(***************************************************************************)
(* Proofs about the small concurrent parts the lobby is served by: the     *)
(* event feed, for any number of subscribers and of senders and for any    *)
(* size of the buffer; the list of public tables, for any number of        *)
(* lobbies and of sessions that browse at the same time; the rate limiter, *)
(* for any limit, window, table size and number of keys; the locks, for    *)
(* any number of goroutines, lobbies and matches; and the ssh sessions,    *)
(* for any number of accounts, of sessions and of slots.                   *)
(***************************************************************************)
EXTENDS Broadcaster, Browse, Limiter, LockOrder, Sessions, SequenceTheorems, FiniteSetTheorems,
        TLAPS

-----------------------------------------------------------------------------
(* The event feed *)

Call == [msg : Nat, todo : SUBSET Subscriber, stage : {"try", "drain", "resend"},
         at : Subscriber \cup {NoOne}]

FeedTypeOK ==
  /\ sent \in Nat
  /\ Subscribed \subseteq Subscriber /\ chan \in [Subscribed -> Seq(Nat)]
  /\ calls \in [Calling -> Call]

\* The lock: one broadcast at a time.
OneCall == \A x, y \in Calling : x = y

\* A broadcast reaches subscribers that are in the map, and the one it makes room for is
\* among those it has yet to reach.
CallsReach ==
  \A x \in Calling : /\ calls[x].msg = sent
                     /\ calls[x].todo \subseteq Subscribed
                     /\ calls[x].stage # "try" => calls[x].at \in calls[x].todo

NeverOverfull == \A s \in Subscribed : Len(chan[s]) <= Buffer

FeedInv ==
  FeedTypeOK /\ OneCall /\ CallsReach /\ NeverOverfull /\ SendHasRoom /\ NewestKept

\* The buffered events are numbered one after another, up to the last one.
Run(queue, last) == \A i \in 1..Buffer : i <= Len(queue) => queue[i] = last - Len(queue) + i

LEMMA RunTail ==
  ASSUME NEW queue \in Seq(Nat), NEW last \in Int, Run(queue, last), Len(queue) <= Buffer,
         queue # <<>>
  PROVE  /\ Tail(queue) \in Seq(Nat) /\ Len(Tail(queue)) = Len(queue) - 1
         /\ Run(Tail(queue), last)
<1>1. /\ Tail(queue) \in Seq(Nat) /\ Len(Tail(queue)) = Len(queue) - 1
      /\ Len(queue) \in Nat /\ Len(queue) > 0
  OBVIOUS
<1>2. ASSUME NEW i \in 1..Buffer, i <= Len(Tail(queue))
      PROVE  Tail(queue)[i] = last - Len(Tail(queue)) + i
  <2>1. Tail(queue)[i] = queue[i + 1] /\ i + 1 \in 1..Buffer /\ i + 1 <= Len(queue)
    BY <1>1, <1>2, BufferAssumption
  <2>2. queue[i + 1] = last - Len(queue) + (i + 1)
    BY <2>1 DEF Run
  <2> QED BY <2>1, <2>2, <1>1
<1> QED BY <1>1, <1>2 DEF Run

LEMMA RunAppend ==
  ASSUME NEW queue \in Seq(Nat), NEW new \in Nat, Run(queue, new - 1), Len(queue) < Buffer
  PROVE  /\ Append(queue, new) \in Seq(Nat) /\ Len(Append(queue, new)) = Len(queue) + 1
         /\ Run(Append(queue, new), new)
<1>1. /\ Append(queue, new) \in Seq(Nat) /\ Len(queue) \in Nat
      /\ Len(Append(queue, new)) = Len(queue) + 1
  OBVIOUS
<1>2. ASSUME NEW i \in 1..Buffer, i <= Len(queue) + 1
      PROVE  Append(queue, new)[i] = new - (Len(queue) + 1) + i
  <2>0. i \in Int
    BY BufferAssumption
  <2>1. CASE i = Len(queue) + 1
    BY <1>1, <2>1
  <2>2. CASE i <= Len(queue)
    <3>1. Append(queue, new)[i] = queue[i]
      BY <1>1, <2>2
    <3>2. queue[i] = (new - 1) - Len(queue) + i
      BY <2>2 DEF Run
    <3> QED BY <3>1, <3>2, <1>1, <2>0
  <2> QED BY <1>1, <1>2, <2>0, <2>1, <2>2
<1> QED BY <1>1, <1>2 DEF Run

LEMMA RunEmpty == ASSUME NEW last \in Int PROVE Run(<<>>, last)
BY DEF Run

LEMMA NewestIsRun == NewestKept <=> \A s \in Subscribed : Run(chan[s], LastFor(s))
BY DEF NewestKept, Run

\* The same, of the next state.
LEMMA NewestIsRunNext == NewestKept' <=> \A s \in Subscribed' : Run(chan'[s], LastFor(s)')
BY DEF NewestKept, Run

-----------------------------------------------------------------------------
(* Changes of the map, which need the lock: no broadcast is under way. *)

LEMMA SubscribeStep ==
  ASSUME FeedInv, NEW s \in Subscriber, Subscribe(s)
  PROVE  FeedInv'
<1>1. /\ Calling = {} /\ UNCHANGED <<calls, sent>> /\ Calling' = {}
      /\ chan' = [q \in Subscribed \cup {s} |-> IF q = s THEN <<>> ELSE chan[q]]
  BY DEF Subscribe, LockFree, Calling
<1>2. /\ Subscribed' = Subscribed \cup {s} /\ chan'[s] = <<>>
      /\ \A q \in Subscribed \ {s} : chan'[q] = chan[q]
  BY <1>1 DEF Subscribed
<1>3. FeedTypeOK'
  <2>1. chan' \in [Subscribed' -> Seq(Nat)]
    BY <1>1, <1>2 DEF FeedInv, FeedTypeOK
  <2> QED BY <1>1, <1>2, <2>1 DEF FeedInv, FeedTypeOK
<1>4. NeverOverfull'
  BY <1>2, BufferAssumption DEF FeedInv, NeverOverfull
<1>5. NewestKept'
  <2>1. \A q : LastFor(q) = sent /\ LastFor(q)' = sent
    BY <1>1 DEF LastFor
  <2> QED BY <1>2, <2>1, NewestIsRun, NewestIsRunNext, RunEmpty DEF FeedInv, FeedTypeOK
<1> QED BY <1>1, <1>3, <1>4, <1>5 DEF FeedInv, OneCall, CallsReach, SendHasRoom

LEMMA LeaveStep ==
  ASSUME FeedInv, Close \/ \E s \in Subscriber : Unsubscribe(s)
  PROVE  FeedInv'
<1>1. /\ Calling = {} /\ UNCHANGED <<calls, sent>> /\ Calling' = {}
  BY DEF Unsubscribe, Close, LockFree, Calling
<1>2. /\ Subscribed' \subseteq Subscribed /\ chan' = [q \in Subscribed' |-> chan'[q]]
      /\ \A q \in Subscribed' : chan'[q] = chan[q]
  BY DEF Unsubscribe, Close, Subscribed
<1>3. FeedTypeOK'
  <2>1. chan' \in [Subscribed' -> Seq(Nat)]
    BY <1>2 DEF FeedInv, FeedTypeOK
  <2> QED BY <1>1, <1>2, <2>1 DEF FeedInv, FeedTypeOK
<1>4. NeverOverfull'
  BY <1>2 DEF FeedInv, NeverOverfull
<1>5. NewestKept'
  <2>1. \A q : LastFor(q) = sent /\ LastFor(q)' = sent
    BY <1>1 DEF LastFor
  <2> QED BY <1>2, <2>1, NewestIsRun, NewestIsRunNext DEF FeedInv
<1> QED BY <1>1, <1>3, <1>4, <1>5 DEF FeedInv, OneCall, CallsReach, SendHasRoom

-----------------------------------------------------------------------------
(* One queue changes, with or without a broadcast under way. *)

LEMMA LastForInt == ASSUME FeedTypeOK, NEW s PROVE LastFor(s) \in Int
BY DEF FeedTypeOK, LastFor

\* The oldest event of s is taken, by s or to make room.
LEMMA OldestTaken ==
  ASSUME FeedInv, NEW s \in Subscribed, chan[s] # <<>>, chan' = [chan EXCEPT ![s] = Tail(@)]
  PROVE  /\ Subscribed' = Subscribed /\ chan' \in [Subscribed -> Seq(Nat)]
         /\ Len(chan'[s]) < Buffer
         /\ \A q \in Subscribed : /\ Run(chan'[q], LastFor(q))
                                  /\ Len(chan'[q]) <= Len(chan[q]) /\ Len(chan[q]) <= Buffer
<1>1. /\ chan \in [Subscribed -> Seq(Nat)] /\ Subscribed' = Subscribed
      /\ chan'[s] = Tail(chan[s])
      /\ \A q \in Subscribed \ {s} : chan'[q] = chan[q]
  BY DEF FeedInv, FeedTypeOK, Subscribed
<1>2. \A q \in Subscribed : Run(chan[q], LastFor(q)) /\ LastFor(q) \in Int
  BY NewestIsRun, LastForInt DEF FeedInv
<1>3. \A q \in Subscribed : Len(chan[q]) \in Nat /\ Len(chan[q]) <= Buffer
  BY <1>1 DEF FeedInv, NeverOverfull
<1>4. /\ Tail(chan[s]) \in Seq(Nat) /\ Len(Tail(chan[s])) = Len(chan[s]) - 1
      /\ Run(Tail(chan[s]), LastFor(s))
  BY <1>1, <1>2, <1>3, RunTail
<1>5. chan' \in [Subscribed -> Seq(Nat)]
  BY <1>1, <1>4
<1>6. Len(chan'[s]) < Buffer /\ Len(chan'[s]) <= Len(chan[s])
  BY <1>1, <1>3, <1>4, BufferAssumption
<1> QED BY <1>1, <1>2, <1>3, <1>4, <1>5, <1>6

LEMMA ReceiveStep ==
  ASSUME FeedInv, NEW s \in Subscriber, Receive(s)
  PROVE  FeedInv'
<1>1. /\ s \in Subscribed /\ chan[s] # <<>> /\ chan' = [chan EXCEPT ![s] = Tail(@)]
      /\ UNCHANGED <<shut, calls, sent>>
  BY DEF Receive
<1>2. /\ Subscribed' = Subscribed /\ chan' \in [Subscribed -> Seq(Nat)]
      /\ \A q \in Subscribed : /\ Run(chan'[q], LastFor(q))
                               /\ Len(chan'[q]) <= Len(chan[q]) /\ Len(chan[q]) <= Buffer
  BY <1>1, OldestTaken
<1>3. Calling' = Calling /\ \A q : LastFor(q)' = LastFor(q)
  BY <1>1 DEF Calling, LastFor
<1>4. FeedTypeOK'
  BY <1>1, <1>2, <1>3 DEF FeedInv, FeedTypeOK
<1>5. \A q \in Subscribed : Len(chan[q]) \in Nat /\ Len(chan'[q]) \in Nat
  BY <1>2 DEF FeedInv, FeedTypeOK
<1>6. NeverOverfull'
  BY <1>2, <1>5, BufferAssumption DEF FeedInv, NeverOverfull
<1>7. NewestKept'
  BY <1>2, <1>3, NewestIsRunNext
<1>8. SendHasRoom'
  <2> SUFFICES ASSUME NEW x \in Calling, calls[x].stage = "resend"
               PROVE  ~(Len(chan'[calls[x].at]) >= Buffer)
    BY <1>1, <1>3 DEF SendHasRoom, Full
  <2>1. calls[x].at \in Subscribed /\ ~(Len(chan[calls[x].at]) >= Buffer)
    BY DEF FeedInv, CallsReach, SendHasRoom, Full
  <2> QED BY <2>1, <1>2, <1>5, BufferAssumption
<1> QED BY <1>1, <1>2, <1>3, <1>4, <1>6, <1>7, <1>8 DEF FeedInv, OneCall, CallsReach

-----------------------------------------------------------------------------
(* The steps of a broadcast *)

LEMMA BeginStep ==
  ASSUME FeedInv, NEW x \in Sender, Begin(x)
  PROVE  FeedInv'
<1> DEFINE call == [msg |-> sent + 1, todo |-> Subscribed, stage |-> "try", at |-> NoOne]
<1>1. /\ Calling = {} /\ sent' = sent + 1 /\ UNCHANGED <<chan, shut>>
      /\ calls' = [y \in Calling \cup {x} |-> IF y = x THEN call ELSE calls[y]]
  BY DEF Begin, LockFree
<1>2. Calling' = {x} /\ calls'[x] = call /\ Subscribed' = Subscribed
  BY <1>1 DEF Calling, Subscribed
<1>3. sent \in Nat /\ call \in Call /\ call.todo = Subscribed /\ call.stage = "try"
      /\ call.msg = sent + 1
  BY DEF FeedInv, FeedTypeOK, Call
<1> HIDE DEF call
<1>4. FeedTypeOK'
  <2>1. calls' \in [Calling' -> Call]
    BY <1>1, <1>2, <1>3
  <2> QED BY <1>1, <1>2, <1>3, <2>1 DEF FeedInv, FeedTypeOK
<1>5. NewestKept'
  <2>1. \A q \in Subscribed : LastFor(q)' = LastFor(q)
    BY <1>1, <1>2, <1>3 DEF LastFor
  <2> QED BY <1>1, <1>2, <2>1, NewestIsRun, NewestIsRunNext DEF FeedInv
<1>6. CallsReach'
  BY <1>1, <1>2, <1>3 DEF CallsReach
<1>7. SendHasRoom'
  BY <1>2, <1>3 DEF SendHasRoom
<1> QED BY <1>1, <1>2, <1>4, <1>5, <1>6, <1>7 DEF FeedInv, OneCall, NeverOverfull

\* What a step that changes one record of calls comes to.
LEMMA CallChanges ==
  ASSUME FeedInv, NEW x \in Calling, NEW call \in Call, calls' = [calls EXCEPT ![x] = call]
  PROVE  /\ Calling = {x} /\ Calling' = {x} /\ calls'[x] = call /\ calls' \in [Calling' -> Call]
         /\ calls[x] \in Call
<1>1. calls \in [Calling -> Call] /\ Calling = {x}
  BY DEF FeedInv, FeedTypeOK, OneCall
<1> QED BY <1>1 DEF Calling

\* s gets the event and is done with.
LEMMA DeliverStep ==
  ASSUME FeedInv, NEW x \in Calling, NEW s \in calls[x].todo, ~Full(s), Deliver(x, s)
  PROVE  FeedInv'
<1> DEFINE call == [calls[x] EXCEPT !.todo = @ \ {s}, !.stage = "try", !.at = NoOne]
<1>1. /\ chan' = [chan EXCEPT ![s] = Append(@, calls[x].msg)]
      /\ calls' = [calls EXCEPT ![x] = call] /\ sent' = sent
  BY DEF Deliver
<1>2. /\ calls[x] \in Call /\ calls[x].msg = sent /\ calls[x].todo \subseteq Subscribed
      /\ Calling = {x} /\ sent \in Nat
  BY DEF FeedInv, FeedTypeOK, CallsReach, OneCall
<1>3. /\ call \in Call /\ call.msg = calls[x].msg /\ call.todo = calls[x].todo \ {s}
      /\ call.stage = "try"
  BY <1>2 DEF Call
<1> HIDE DEF call
<1>4. Calling' = {x} /\ calls'[x] = call /\ calls' \in [Calling' -> Call]
  BY <1>1, <1>3, CallChanges
<1>5. /\ chan \in [Subscribed -> Seq(Nat)] /\ Subscribed' = Subscribed /\ s \in Subscribed
      /\ chan'[s] = Append(chan[s], sent)
      /\ \A q \in Subscribed \ {s} : chan'[q] = chan[q]
  BY <1>1, <1>2 DEF FeedInv, FeedTypeOK, Subscribed
<1>6. LastFor(s) = sent - 1 /\ LastFor(s)' = sent
  BY <1>1, <1>2, <1>3, <1>4 DEF LastFor
<1>7. \A q \in Subscribed \ {s} : LastFor(q)' = LastFor(q)
  BY <1>1, <1>2, <1>3, <1>4 DEF LastFor
<1>8. Len(chan[s]) < Buffer /\ Len(chan[s]) \in Nat
  BY <1>5, BufferAssumption DEF Full
<1>9. /\ Append(chan[s], sent) \in Seq(Nat) /\ Len(Append(chan[s], sent)) = Len(chan[s]) + 1
      /\ Run(Append(chan[s], sent), sent)
  <2>1. Run(chan[s], sent - 1)
    BY <1>5, <1>6, NewestIsRun DEF FeedInv
  <2> QED BY <2>1, <1>2, <1>5, <1>8, RunAppend
<1>10. NeverOverfull'
  BY <1>5, <1>8, <1>9, BufferAssumption DEF FeedInv, NeverOverfull
<1>11. NewestKept'
  BY <1>5, <1>6, <1>7, <1>9, NewestIsRun, NewestIsRunNext DEF FeedInv
<1>12. FeedTypeOK'
  BY <1>1, <1>4, <1>5, <1>9 DEF FeedInv, FeedTypeOK
<1>13. CallsReach' /\ SendHasRoom'
  BY <1>1, <1>2, <1>3, <1>4, <1>5 DEF CallsReach, SendHasRoom
<1> QED BY <1>4, <1>10, <1>11, <1>12, <1>13 DEF FeedInv, OneCall

\* A buffer is found full.
LEMMA FullStep ==
  ASSUME FeedInv, NEW x \in Calling, NEW s \in calls[x].todo,
         calls' = [calls EXCEPT ![x].stage = "drain", ![x].at = s],
         UNCHANGED <<chan, shut, sent>>
  PROVE  FeedInv'
<1> DEFINE call == [calls[x] EXCEPT !.stage = "drain", !.at = s]
<1>1. calls' = [calls EXCEPT ![x] = call]
  OBVIOUS
<1>2. /\ calls[x] \in Call /\ calls[x].msg = sent /\ calls[x].todo \subseteq Subscribed
      /\ Calling = {x}
  BY DEF FeedInv, FeedTypeOK, CallsReach, OneCall
<1>3. /\ call \in Call /\ call.msg = calls[x].msg /\ call.todo = calls[x].todo
      /\ call.stage = "drain" /\ call.at = s
  BY <1>2 DEF Call
<1> HIDE DEF call
<1>4. Calling' = {x} /\ calls'[x] = call /\ calls' \in [Calling' -> Call]
  BY <1>1, <1>3, CallChanges
<1>5. Subscribed' = Subscribed
  BY DEF Subscribed
<1>6. \A q : LastFor(q)' = LastFor(q)
  BY <1>2, <1>3, <1>4 DEF LastFor
<1>7. NewestKept'
  BY <1>5, <1>6, NewestIsRun, NewestIsRunNext DEF FeedInv
<1>8. FeedTypeOK'
  BY <1>4, <1>5 DEF FeedInv, FeedTypeOK
<1>9. CallsReach' /\ SendHasRoom'
  BY <1>2, <1>3, <1>4, <1>5 DEF CallsReach, SendHasRoom
<1> QED BY <1>4, <1>5, <1>7, <1>8, <1>9 DEF FeedInv, OneCall, NeverOverfull

\* The oldest event makes room: afterwards there is room, whatever the subscriber did.
LEMMA MakeRoomStep ==
  ASSUME FeedInv, NEW x \in Sender, MakeRoom(x)
  PROVE  FeedInv'
<1> DEFINE call == [calls[x] EXCEPT !.stage = "resend"]
           s    == calls[x].at
<1>1. /\ x \in Calling /\ calls[x].stage = "drain" /\ calls' = [calls EXCEPT ![x] = call]
      /\ chan' = [chan EXCEPT ![s] = WithoutOldest(@)] /\ sent' = sent
  BY DEF MakeRoom
<1>2. /\ calls[x] \in Call /\ calls[x].msg = sent /\ calls[x].todo \subseteq Subscribed
      /\ Calling = {x} /\ s \in calls[x].todo /\ s \in Subscribed
  BY <1>1 DEF FeedInv, FeedTypeOK, CallsReach, OneCall
<1>3. /\ call \in Call /\ call.msg = calls[x].msg /\ call.todo = calls[x].todo
      /\ call.stage = "resend" /\ call.at = s
  BY <1>2 DEF Call
<1> HIDE DEF call, s
<1>4. Calling' = {x} /\ calls'[x] = call /\ calls' \in [Calling' -> Call]
  BY <1>1, <1>3, CallChanges
<1>5. \A q : LastFor(q)' = LastFor(q)
  BY <1>1, <1>2, <1>3, <1>4 DEF LastFor
<1>6. /\ Subscribed' = Subscribed /\ chan' \in [Subscribed -> Seq(Nat)]
      /\ Len(chan'[s]) < Buffer
      /\ \A q \in Subscribed : Run(chan'[q], LastFor(q)) /\ Len(chan'[q]) <= Buffer
  <2>0. \A q \in Subscribed : Len(chan[q]) \in Nat /\ Len(chan[q]) <= Buffer
    BY DEF FeedInv, FeedTypeOK, NeverOverfull
  <2>1. CASE chan[s] = <<>>
    <3>1. chan' = chan
      BY <1>1, <1>2, <2>1 DEF WithoutOldest, FeedInv, FeedTypeOK
    <3>2. Len(chan[s]) < Buffer
      BY <2>1, BufferAssumption
    <3> QED BY <3>1, <3>2, <2>0, NewestIsRun DEF FeedInv, FeedTypeOK, Subscribed
  <2>2. CASE chan[s] # <<>>
    <3>1. chan' = [chan EXCEPT ![s] = Tail(@)]
      BY <1>1, <2>2 DEF WithoutOldest
    <3>2. /\ Subscribed' = Subscribed /\ chan' \in [Subscribed -> Seq(Nat)]
          /\ Len(chan'[s]) < Buffer
          /\ \A q \in Subscribed : /\ Run(chan'[q], LastFor(q))
                                   /\ Len(chan'[q]) <= Len(chan[q]) /\ Len(chan[q]) <= Buffer
      BY <3>1, <1>2, <2>2, OldestTaken
    <3>3. \A q \in Subscribed : Len(chan'[q]) \in Nat
      BY <3>2
    <3> QED BY <3>2, <3>3, <2>0, BufferAssumption
  <2> QED BY <2>1, <2>2
<1>7. NewestKept'
  BY <1>5, <1>6, NewestIsRunNext
<1>8. FeedTypeOK'
  BY <1>1, <1>4, <1>6 DEF FeedInv, FeedTypeOK
<1>9. CallsReach'
  BY <1>1, <1>2, <1>3, <1>4, <1>6 DEF CallsReach
<1>10. SendHasRoom'
  <2>1. Len(chan'[s]) \in Nat
    BY <1>2, <1>6
  <2> QED BY <2>1, <1>3, <1>4, <1>6, BufferAssumption DEF SendHasRoom, Full
<1>11. NeverOverfull'
  BY <1>6 DEF NeverOverfull
<1> QED BY <1>4, <1>7, <1>8, <1>9, <1>10, <1>11 DEF FeedInv, OneCall

LEMMA ReturnStep ==
  ASSUME FeedInv, NEW x \in Sender, Return(x)
  PROVE  FeedInv'
<1>1. /\ x \in Calling /\ calls[x].todo = {} /\ UNCHANGED <<chan, shut, sent>>
      /\ calls' = [y \in Calling \ {x} |-> calls[y]]
  BY DEF Return
<1>2. Calling = {x} /\ Calling' = {} /\ Subscribed' = Subscribed
  BY <1>1 DEF FeedInv, OneCall, Calling, Subscribed
<1>3. NewestKept'
  <2>1. \A q : LastFor(q)' = LastFor(q)
    BY <1>1, <1>2 DEF LastFor
  <2> QED BY <1>1, <1>2, <2>1, NewestIsRun, NewestIsRunNext DEF FeedInv
<1>4. FeedTypeOK'
  <2>1. calls' \in [Calling' -> Call]
    BY <1>1, <1>2
  <2> QED BY <1>1, <1>2, <2>1 DEF FeedInv, FeedTypeOK
<1> QED BY <1>1, <1>2, <1>3, <1>4
        DEF FeedInv, OneCall, CallsReach, SendHasRoom, NeverOverfull

-----------------------------------------------------------------------------
\* The inductive invariant of the feed.
THEOREM FeedCorrect == BroadcasterSpec => []FeedInv
<1>1. BroadcasterInit => FeedInv
  BY DEF BroadcasterInit, FeedInv, FeedTypeOK, OneCall, CallsReach, NeverOverfull, SendHasRoom,
         NewestKept, Calling, Subscribed
<1>2. FeedInv /\ [BroadcasterNext]_cvars => FeedInv'
  <2> SUFFICES ASSUME FeedInv, [BroadcasterNext]_cvars PROVE FeedInv'
    OBVIOUS
  <2>1. CASE UNCHANGED cvars
    BY <2>1 DEF cvars, FeedInv, FeedTypeOK, OneCall, CallsReach, NeverOverfull, SendHasRoom,
                NewestKept, LastFor, Full, Calling, Subscribed
  <2>2. CASE Close \/ \E s \in Subscriber : Unsubscribe(s)
    BY <2>2, LeaveStep
  <2>3. CASE \E s \in Subscriber : Subscribe(s) \/ Receive(s)
    BY <2>3, SubscribeStep, ReceiveStep
  <2>4. CASE \E x \in Sender : Begin(x) \/ MakeRoom(x) \/ Return(x)
    BY <2>4, BeginStep, MakeRoomStep, ReturnStep
  <2>5. ASSUME NEW x \in Sender, Resend(x) PROVE FeedInv'
    <3>1. /\ x \in Calling /\ calls[x].at \in calls[x].todo /\ ~Full(calls[x].at)
          /\ Deliver(x, calls[x].at)
      BY <2>5 DEF Resend, FeedInv, CallsReach
    <3> QED BY <3>1, DeliverStep
  <2>6. ASSUME NEW x \in Sender, NEW s \in Subscriber, TrySend(x, s) PROVE FeedInv'
    <3>1. x \in Calling /\ s \in calls[x].todo
      BY <2>6 DEF TrySend
    <3>2. CASE ~Full(s) /\ Deliver(x, s)
      BY <3>1, <3>2, DeliverStep
    <3>3. CASE /\ calls' = [calls EXCEPT ![x].stage = "drain", ![x].at = s]
               /\ UNCHANGED <<chan, shut, sent>>
      BY <3>1, <3>3, FullStep
    <3> QED BY <2>6, <3>2, <3>3 DEF TrySend
  <2> QED BY <2>1, <2>2, <2>3, <2>4, <2>5, <2>6 DEF BroadcasterNext
<1> QED BY <1>1, <1>2, PTL DEF BroadcasterSpec

\* A slow subscriber loses its oldest events only (Broadcast): what it has buffered is the
\* latest run of events, so the end of a match reaches whoever keeps listening.
THEOREM LatestEventsKept == BroadcasterSpec => []NewestKept
<1>1. FeedInv => NewestKept
  BY DEF FeedInv
<1> QED BY <1>1, FeedCorrect, PTL

\* The send that follows the oldest event's removal never blocks (Broadcast), so no stuck
\* subscriber holds up the table, which broadcasts under its own lock.
THEOREM BroadcastNeverBlocks == BroadcasterSpec => []SendHasRoom
<1>1. FeedInv => SendHasRoom
  BY DEF FeedInv
<1> QED BY <1>1, FeedCorrect, PTL

-----------------------------------------------------------------------------
(* The list of public tables *)

\* What a scan that nobody overlaps has found so far is what is on offer, as long as
\* nothing was invalidated since it began; what it has not read yet it will read.
ScanFollows ==
  \A b \in Scanning : scans[b].alone =>
    /\ Scanning = {b}
    /\ \A t \in scans[b].todo : t \notin scans[b].found
    /\ ~dirty => \A t \in Lobby : t \in scans[b].todo \/ (t \in scans[b].found <=> t \in offered)

BrowseInv == BrowseTypeOK /\ ScanFollows /\ InvalidationSticks

Scan == [todo : SUBSET Lobby, found : SUBSET Lobby, alone : BOOLEAN]

\* The tables change: whatever changes what is on offer raises the flag (New, RemoveLobby,
\* withLeaderSettings, setStateLocked), and no scan is touched.
LEMMA TablesChange ==
  ASSUME BrowseInv, NEW t \in Lobby,
         OpenLobby(t) \/ RemoveLobby(t) \/ Offer(t, TRUE) \/ Offer(t, FALSE)
  PROVE  BrowseInv'
<1>1. dirty' = TRUE /\ UNCHANGED <<old, cached, scans, sound>>
  BY DEF OpenLobby, RemoveLobby, Offer
<1>2. open' \subseteq Lobby /\ offered' \subseteq open'
  BY DEF BrowseInv, BrowseTypeOK, OpenLobby, RemoveLobby, Offer
<1>3. BrowseTypeOK'
  BY <1>1, <1>2 DEF BrowseInv, BrowseTypeOK, Scanning
<1>4. ScanFollows'
  BY <1>1 DEF BrowseInv, ScanFollows, Scanning
<1> QED BY <1>1, <1>3, <1>4 DEF BrowseInv, InvalidationSticks

\* A scan begins: it is alone only if no other is under way, it has everything to read, and
\* what is not open is not on offer.
LEMMA StartScanStep ==
  ASSUME BrowseInv, NEW b \in Browser, StartScan(b)
  PROVE  BrowseInv'
<1> DEFINE first == [Fresh EXCEPT !.todo = open, !.alone = Scanning = {}]
           later(c) == [scans[c] EXCEPT !.alone = FALSE]
<1>1. /\ b \notin Scanning
      /\ scans' = [c \in Scanning \cup {b} |-> IF c = b THEN first ELSE later(c)]
  BY DEF StartScan
<1>2. Scanning' = Scanning \cup {b}
  BY <1>1 DEF Scanning
<1>3. first \in Scan /\ first.todo = open /\ first.found = {} /\ (first.alone => Scanning = {})
  <2>2. CASE Scanning = {}
    BY <2>2 DEF BrowseInv, BrowseTypeOK, Scan, Fresh
  <2>3. CASE Scanning # {}
    BY <2>3 DEF BrowseInv, BrowseTypeOK, Scan, Fresh
  <2> QED BY <2>2, <2>3
<1>4. \A c \in Scanning : later(c) \in Scan /\ ~later(c).alone
  BY DEF BrowseInv, BrowseTypeOK, Scan
<1>5. scans'[b] = first /\ \A c \in Scanning : scans'[c] = later(c)
  BY <1>1
<1> HIDE DEF first, later
<1>6. BrowseTypeOK'
  <2>1. scans' \in [Scanning' -> Scan]
    BY <1>1, <1>2, <1>3, <1>4
  <2> QED BY <2>1, <1>2 DEF BrowseInv, BrowseTypeOK, StartScan, Scan
<1>7. ScanFollows'
  <2> SUFFICES ASSUME NEW c \in Scanning', scans'[c].alone
               PROVE  /\ Scanning' = {c}
                      /\ \A t \in scans'[c].todo : t \notin scans'[c].found
                      /\ ~dirty' => \A t \in Lobby :
                           t \in scans'[c].todo \/ (t \in scans'[c].found <=> t \in offered')
    BY DEF ScanFollows
  <2>1. c = b
    BY <1>2, <1>4, <1>5
  <2>2. Scanning = {}
    BY <2>1, <1>3, <1>5
  <2>3. offered' \subseteq open
    BY DEF StartScan, BrowseInv, BrowseTypeOK
  <2>4. Scanning' = {c}
    BY <2>1, <2>2, <1>2
  <2>5. scans'[c].todo = open /\ scans'[c].found = {}
    BY <2>1, <1>3, <1>5
  <2> QED BY <2>3, <2>4, <2>5
<1>8. Scanning' # {}
  BY <1>2
<1> QED BY <1>6, <1>7, <1>8 DEF BrowseInv, InvalidationSticks

\* A lobby is read under its own lock: it is on offer at that moment or it is not.
LEMMA ReadLobbyStep ==
  ASSUME BrowseInv, NEW b \in Browser, NEW t \in Lobby, ReadLobby(b, t)
  PROVE  BrowseInv'
<1>1. /\ b \in Scanning /\ t \in scans[b].todo
      /\ UNCHANGED <<open, offered, dirty, old, cached, sound>>
  BY DEF ReadLobby
<1> DEFINE now == [scans[b] EXCEPT !.todo = @ \ {t},
                                   !.found = IF t \in offered THEN @ \cup {t} ELSE @]
<1>2. scans[b] \in Scan /\ scans \in [Scanning -> Scan]
  BY <1>1 DEF BrowseInv, BrowseTypeOK, Scan
<1>3. scans' = [scans EXCEPT ![b] = now]
  BY DEF ReadLobby
<1>4. now \in Scan
  BY <1>2 DEF Scan
<1>5. /\ now.alone = scans[b].alone /\ now.todo = scans[b].todo \ {t}
      /\ now.found = IF t \in offered THEN scans[b].found \cup {t} ELSE scans[b].found
  BY <1>2 DEF Scan
<1> HIDE DEF now
<1>6. Scanning' = Scanning /\ scans' \in [Scanning' -> Scan]
  BY <1>2, <1>3, <1>4 DEF Scanning
<1>7. scans'[b] = now /\ \A c \in Scanning \ {b} : scans'[c] = scans[c]
  BY <1>1, <1>2, <1>3
<1>8. BrowseTypeOK'
  BY <1>1, <1>6 DEF BrowseInv, BrowseTypeOK, Scan
<1>9. ScanFollows'
  <2> SUFFICES ASSUME NEW c \in Scanning, scans'[c].alone
               PROVE  /\ Scanning = {c}
                      /\ \A u \in scans'[c].todo : u \notin scans'[c].found
                      /\ ~dirty => \A u \in Lobby :
                           u \in scans'[c].todo \/ (u \in scans'[c].found <=> u \in offered)
    BY <1>1, <1>6 DEF ScanFollows
  <2>1. CASE c = b
    <3>1. scans'[c] = now /\ scans[b].alone
      BY <2>1, <1>5, <1>7
    <3>2. /\ Scanning = {b}
          /\ \A u \in scans[b].todo : u \notin scans[b].found
          /\ ~dirty => \A u \in Lobby :
               u \in scans[b].todo \/ (u \in scans[b].found <=> u \in offered)
      BY <3>1, <1>1 DEF BrowseInv, ScanFollows
    <3>3. ASSUME ~dirty, NEW u \in Lobby
          PROVE  u \in now.todo \/ (u \in now.found <=> u \in offered)
      <4>1. CASE u = t
        BY <4>1, <3>2, <3>3, <1>1, <1>5
      <4>2. CASE u # t
        BY <4>2, <3>2, <3>3, <1>5
      <4> QED BY <4>1, <4>2
    <3>4. \A u \in now.todo : u \notin now.found
      BY <3>2, <1>5
    <3> QED BY <2>1, <3>1, <3>2, <3>3, <3>4
  <2>2. CASE c # b
    BY <2>2, <1>7, <1>1 DEF BrowseInv, ScanFollows
  <2> QED BY <2>1, <2>2
<1> QED BY <1>1, <1>6, <1>8, <1>9 DEF BrowseInv, InvalidationSticks

\* A scan that was alone and was not invalidated stores what is on offer.
LEMMA StoreListStep ==
  ASSUME BrowseInv, NEW b \in Browser, StoreList(b)
  PROVE  BrowseInv'
<1>1. /\ b \in Scanning /\ scans[b].todo = {}
      /\ cached' = scans[b].found /\ old' = FALSE /\ dirty' = dirty
      /\ sound' = scans[b].alone
      /\ scans' = [c \in Scanning \ {b} |-> scans[c]]
      /\ UNCHANGED <<open, offered>>
  BY DEF StoreList, FlagAfterStore
<1>2. scans[b] \in Scan /\ scans \in [Scanning -> Scan]
  BY <1>1 DEF BrowseInv, BrowseTypeOK, Scan
<1>3. Scanning' = Scanning \ {b} /\ \A c \in Scanning' : scans'[c] = scans[c]
  BY <1>1 DEF Scanning
<1>4. BrowseTypeOK'
  <2>1. scans' \in [Scanning' -> Scan]
    BY <1>1, <1>2, <1>3
  <2>2. cached' \subseteq Lobby /\ sound' \in BOOLEAN
    BY <1>1, <1>2 DEF Scan
  <2> QED BY <2>1, <2>2, <1>1, <1>3 DEF BrowseInv, BrowseTypeOK, Scan
<1>5. ScanFollows'
  BY <1>1, <1>3 DEF BrowseInv, ScanFollows
<1>6. InvalidationSticks'
  <2> SUFFICES ASSUME ~dirty, scans[b].alone
               PROVE  cached' = offered'
    BY <1>1 DEF InvalidationSticks
  <2>1. \A t \in Lobby : t \in scans[b].found <=> t \in offered
    BY <1>1 DEF BrowseInv, ScanFollows
  <2>2. scans[b].found \subseteq Lobby /\ offered \subseteq Lobby
    BY <1>2 DEF Scan, BrowseInv, BrowseTypeOK
  <2> QED BY <2>1, <2>2, <1>1
<1> QED BY <1>4, <1>5, <1>6 DEF BrowseInv

\* The inductive invariant: what a lone scan has read is what is on offer, up to the flag.
THEOREM ScansCorrect == BrowseSpec => []BrowseInv
<1>1. BrowseInit => BrowseInv
  BY DEF BrowseInit, BrowseInv, BrowseTypeOK, ScanFollows, InvalidationSticks, Scanning
<1>2. BrowseInv /\ [BrowseNext]_bvars => BrowseInv'
  <2> SUFFICES ASSUME BrowseInv, [BrowseNext]_bvars PROVE BrowseInv'
    OBVIOUS
  <2>1. CASE UNCHANGED bvars
    BY <2>1 DEF bvars, BrowseInv, BrowseTypeOK, ScanFollows, InvalidationSticks, Scanning
  <2>2. CASE \E t \in Lobby : OpenLobby(t) \/ RemoveLobby(t) \/ Offer(t, TRUE) \/ Offer(t, FALSE)
    BY <2>2, TablesChange
  <2>3. CASE Age
    BY <2>3 DEF Age, BrowseInv, BrowseTypeOK, ScanFollows, InvalidationSticks, Scanning
  <2>4. CASE \E b \in Browser : StartScan(b)
    BY <2>4, StartScanStep
  <2>5. CASE \E b \in Browser : StoreList(b)
    BY <2>5, StoreListStep
  <2>6. CASE \E b \in Browser, t \in Lobby : ReadLobby(b, t)
    BY <2>6, ReadLobbyStep
  <2> QED BY <2>1, <2>2, <2>3, <2>4, <2>5, <2>6 DEF BrowseNext
<1> QED BY <1>1, <1>2, PTL DEF BrowseSpec

\* An invalidation is never lost (invalidatePublicCache, getCachedPublicLobbies): a browse
\* served from the cache sees what is on offer, unless scans overlapped.
THEOREM NoInvalidationLost == BrowseSpec => []InvalidationSticks
<1>1. BrowseInv => InvalidationSticks
  BY DEF BrowseInv
<1> QED BY <1>1, ScansCorrect, PTL

-----------------------------------------------------------------------------
(* The rate limiter *)

\* A log, or a history: finitely many numbered admissions and their ages.
Ages(f, last) ==
  /\ IsFiniteSet(DOMAIN f) /\ DOMAIN f \subseteq Nat
  /\ f = [n \in DOMAIN f |-> f[n]]
  /\ \A n \in DOMAIN f : f[n] \in 0..last

LogIn(table, k) == IF k \in DOMAIN table THEN table[k] ELSE NoAdmissions

TableOK(table) ==
  /\ DOMAIN table \subseteq Key /\ IsFiniteSet(DOMAIN table)
  /\ table = [k \in DOMAIN table |-> table[k]]
  /\ \A k \in DOMAIN table : Ages(table[k], Window)

LimiterTypeOK ==
  /\ TableOK(logs)
  /\ ops \in 0..(SweepEvery - 1)
  /\ granted = [k \in Key |-> granted[k]]
  /\ \A k \in Key : Ages(granted[k], Window - 1)

LimiterInv == LimiterTypeOK /\ LimitHolds

\* A key without a log has none to count.
LEMMA NoAdmissionsAges ==
  Ages(NoAdmissions, Window) /\ Ages(NoAdmissions, Window - 1) /\ Size(NoAdmissions) = 0
  /\ DOMAIN NoAdmissions = {}
<1>1. DOMAIN NoAdmissions = {} /\ NoAdmissions = [n \in DOMAIN NoAdmissions |-> NoAdmissions[n]]
  BY DEF NoAdmissions
<1> QED BY <1>1, FS_EmptySet DEF Ages, Size

\* Filtering a log keeps a log, all of it in the window; filtering it again changes nothing.
LEMMA UnexpiredAges ==
  ASSUME NEW f, Ages(f, Window)
  PROVE  /\ Ages(Unexpired(f), Window) /\ Ages(Unexpired(f), Window - 1)
         /\ Unexpired(Unexpired(f)) = Unexpired(f)
         /\ DOMAIN Unexpired(f) = {n \in DOMAIN f : f[n] < Window}
         /\ \A n \in DOMAIN Unexpired(f) : Unexpired(f)[n] = f[n]
<1> DEFINE young == {n \in DOMAIN f : f[n] < Window}
<1>1. Unexpired(f) = [n \in young |-> f[n]]
  BY DEF Unexpired, InWindow
<1>2. IsFiniteSet(young) /\ young \subseteq DOMAIN f
  BY FS_Subset DEF Ages
<1>3. \A n \in young : f[n] \in 0..(Window - 1) /\ f[n] \in 0..Window
  BY LimiterAssumption DEF Ages
<1>4. \A n \in young : f[n] < Window
  OBVIOUS
<1> HIDE DEF young
<1>5. DOMAIN Unexpired(f) = young /\ \A n \in young : Unexpired(f)[n] = f[n]
  BY <1>1
<1>6. Ages(Unexpired(f), Window) /\ Ages(Unexpired(f), Window - 1)
  BY <1>1, <1>2, <1>3, <1>5 DEF Ages
<1>7. Unexpired(Unexpired(f)) = [n \in {m \in young : f[m] < Window} |-> f[n]]
  BY <1>1, <1>5 DEF Unexpired, InWindow
<1>8. {m \in young : f[m] < Window} = young
  BY <1>4
<1> QED BY <1>1, <1>5, <1>6, <1>7, <1>8 DEF young

\* A log without admissions is the empty one.
LEMMA SizeZero ==
  ASSUME NEW f, NEW last, Ages(f, last)
  PROVE  Size(f) \in Nat /\ (Size(f) = 0 <=> f = NoAdmissions)
<1>1. Size(f) \in Nat /\ (Size(f) = 0 <=> DOMAIN f = {})
  BY FS_CardinalityType, FS_EmptySet DEF Ages, Size
<1>2. ASSUME DOMAIN f = {} PROVE f = NoAdmissions
  BY <1>2 DEF Ages, NoAdmissions
<1> QED BY <1>1, <1>2, NoAdmissionsAges

\* A new admission is one more, and it is in the window.
LEMMA OneMore ==
  ASSUME NEW f, NEW n \in Nat, n \notin DOMAIN f, Ages(f, Window - 1)
  PROVE  /\ Ages(With(f, n, 0), Window - 1) /\ Ages(With(f, n, 0), Window)
         /\ Unexpired(With(f, n, 0)) = With(f, n, 0)
         /\ Size(With(f, n, 0)) = Size(f) + 1
<1> DEFINE g == With(f, n, 0)
<1>1. DOMAIN g = DOMAIN f \cup {n} /\ g = [m \in DOMAIN g |-> g[m]]
  BY DEF With
<1>2. \A m \in DOMAIN g : g[m] = IF m = n THEN 0 ELSE f[m]
  BY DEF With
<1>3. IsFiniteSet(DOMAIN g) /\ Size(g) = Size(f) + 1
  BY <1>1, FS_AddElement DEF Ages, Size
<1>4. \A m \in DOMAIN g : g[m] \in 0..(Window - 1) /\ g[m] \in 0..Window /\ g[m] < Window
  BY <1>1, <1>2, LimiterAssumption DEF Ages
<1> HIDE DEF g
<1>5. Ages(g, Window - 1) /\ Ages(g, Window)
  BY <1>1, <1>3, <1>4 DEF Ages
<1>6. {m \in DOMAIN g : InWindow(g[m])} = DOMAIN g
  BY <1>4 DEF InWindow
<1>7. Unexpired(g) = g
  BY <1>1, <1>6 DEF Unexpired
<1> QED BY <1>3, <1>5, <1>7 DEF g

\* Time passes: the log ages under the filter as the history does.
LEMMA LogsAge ==
  ASSUME NEW f, Ages(f, Window)
  PROVE  /\ Ages(Older(f), Window)
         /\ Unexpired(Older(f)) = Recent(Unexpired(f))
<1> DEFINE g == Older(f)
           young == {n \in DOMAIN f : f[n] < Window}
           younger == {n \in DOMAIN f : f[n] + 1 < Window}
<1>1. DOMAIN g = DOMAIN f /\ g = [m \in DOMAIN g |-> g[m]]
  BY DEF Older
<1>2. \A n \in DOMAIN f : g[n] = IF f[n] < Window THEN f[n] + 1 ELSE Window
  BY DEF Older
<1>3. \A n \in DOMAIN f : f[n] \in 0..Window
  BY DEF Ages
<1>4. \A n \in DOMAIN f : g[n] \in 0..Window /\ (g[n] < Window <=> f[n] + 1 < Window)
  BY <1>2, <1>3, LimiterAssumption
<1> HIDE DEF g
<1>5. Ages(g, Window)
  BY <1>1, <1>4 DEF Ages
<1>6. {n \in DOMAIN g : InWindow(g[n])} = younger
  BY <1>1, <1>4 DEF InWindow
<1>7. \A n \in younger : g[n] = f[n] + 1
  BY <1>2, <1>3, LimiterAssumption
<1>8. Unexpired(g) = [n \in younger |-> f[n] + 1]
  BY <1>6, <1>7 DEF Unexpired
<1>9. /\ DOMAIN Unexpired(f) = young
      /\ \A n \in young : Unexpired(f)[n] = f[n]
  BY UnexpiredAges
<1>10. {m \in young : Unexpired(f)[m] + 1 < Window} = younger
  <2>1. \A m \in DOMAIN f : f[m] + 1 < Window => f[m] < Window
    BY <1>3, LimiterAssumption
  <2> QED BY <1>9, <2>1
<1>11. Recent(Unexpired(f)) = [n \in younger |-> f[n] + 1]
  <2>1. Recent(Unexpired(f)) = [n \in younger |-> Unexpired(f)[n] + 1]
    BY <1>9, <1>10 DEF Recent
  <2>2. younger \subseteq young
    BY <1>3, LimiterAssumption
  <2> QED BY <1>9, <2>1, <2>2
<1> QED BY <1>5, <1>8, <1>11 DEF g

\* The history forgets what the window no longer covers, and never grows by it.
LEMMA HistoryAges ==
  ASSUME NEW f, Ages(f, Window - 1)
  PROVE  Ages(Recent(f), Window - 1) /\ Size(Recent(f)) <= Size(f)
<1> DEFINE g == Recent(f)
<1>1. DOMAIN g \subseteq DOMAIN f /\ g = [m \in DOMAIN g |-> g[m]]
  BY DEF Recent
<1>2. \A n \in DOMAIN g : g[n] = f[n] + 1 /\ f[n] + 1 < Window
  BY DEF Recent
<1>3. \A n \in DOMAIN g : g[n] \in 0..(Window - 1)
  BY <1>1, <1>2, LimiterAssumption DEF Ages
<1> HIDE DEF g
<1>4. IsFiniteSet(DOMAIN g) /\ Size(g) <= Size(f)
  BY <1>1, FS_Subset DEF Ages, Size
<1> QED BY <1>1, <1>3, <1>4 DEF Ages, g

\* A number that is new to the history is new to the log the history follows.
LEMMA NumberIsNew ==
  ASSUME NEW k \in Key, Ages(granted[k], Window - 1)
  PROVE  NewNumber(k) \in Nat /\ NewNumber(k) \notin DOMAIN granted[k]
<1> DEFINE used == DOMAIN granted[k]
           size == Cardinality(used)
<1>1. IsFiniteSet(used) /\ size \in Nat
  BY FS_CardinalityType DEF Ages
<1>2. IsFiniteSet(0..size) /\ Cardinality(0..size) = size + 1
  BY <1>1, FS_Interval
<1>3. ~(0..size \subseteq used)
  BY <1>1, <1>2, FS_Subset
<1>4. \E n \in 0..size : n \notin used
  BY <1>3
<1> HIDE DEF used, size
<1>5. NewNumber(k) = CHOOSE n \in 0..size : n \notin used
  BY DEF NewNumber, Size, used, size
<1>6. NewNumber(k) \in 0..size /\ NewNumber(k) \notin used
  BY <1>4, <1>5
<1> QED BY <1>1, <1>6 DEF used

\* The sweep drops what has expired from every log, and keys with nothing left.
LEMMA SweepKeeps ==
  ASSUME NEW table, TableOK(table)
  PROVE  /\ TableOK(Kept(table)) /\ DOMAIN Kept(table) \subseteq DOMAIN table
         /\ \A k \in Key : Unexpired(LogIn(Kept(table), k)) = Unexpired(LogIn(table, k))
<1> DEFINE swept == Swept(table)
           left == {q \in DOMAIN table : Size(Unexpired(table[q])) # 0}
<1>1. DOMAIN swept = left /\ \A k \in left : swept[k] = Unexpired(table[k])
  BY DEF Swept
<1>2. swept = [k \in DOMAIN swept |-> swept[k]]
  BY DEF Swept
<1>3. left \subseteq DOMAIN table /\ IsFiniteSet(left)
  BY FS_Subset DEF TableOK
<1>4. \A k \in DOMAIN table : /\ Ages(Unexpired(table[k]), Window)
                              /\ Unexpired(Unexpired(table[k])) = Unexpired(table[k])
  BY UnexpiredAges DEF TableOK
<1>5. \A k \in DOMAIN table : k \notin left => Unexpired(table[k]) = NoAdmissions
  BY <1>4, SizeZero
<1> HIDE DEF swept, left
<1>6. TableOK(swept) /\ DOMAIN swept \subseteq DOMAIN table
  BY <1>1, <1>2, <1>3, <1>4 DEF TableOK
<1>7. Unexpired(NoAdmissions) = NoAdmissions
  BY NoAdmissionsAges, UnexpiredAges, SizeZero DEF Unexpired, NoAdmissions
<1>8. ASSUME NEW k \in Key PROVE Unexpired(LogIn(swept, k)) = Unexpired(LogIn(table, k))
  <2>1. CASE k \in left
    BY <1>1, <1>3, <1>4, <2>1 DEF LogIn
  <2>2. CASE k \notin left /\ k \in DOMAIN table
    BY <1>1, <1>5, <1>7, <2>2 DEF LogIn
  <2>3. CASE k \notin DOMAIN table
    BY <1>1, <1>3, <2>3 DEF LogIn
  <2> QED BY <2>1, <2>2, <2>3
<1>9. CASE (ops + 1) % SweepEvery = 0
  BY <1>6, <1>8, <1>9 DEF Kept, swept
<1>10. CASE (ops + 1) % SweepEvery # 0
  BY <1>10 DEF Kept
<1> QED BY <1>9, <1>10

\* Forgetting a key, or giving it a log, leaves the other keys alone.
LEMMA WithoutKeeps ==
  ASSUME NEW table, TableOK(table), NEW k
  PROVE  /\ TableOK(Without(table, k)) /\ DOMAIN Without(table, k) = DOMAIN table \ {k}
         /\ LogIn(Without(table, k), k) = NoAdmissions
         /\ \A q \in Key : q # k => LogIn(Without(table, k), q) = LogIn(table, q)
<1>1. /\ DOMAIN Without(table, k) = DOMAIN table \ {k}
      /\ \A q \in DOMAIN table \ {k} : Without(table, k)[q] = table[q]
      /\ Without(table, k) = [q \in DOMAIN Without(table, k) |-> Without(table, k)[q]]
  BY DEF Without
<1>2. IsFiniteSet(DOMAIN table \ {k})
  BY FS_Subset DEF TableOK
<1>3. TableOK(Without(table, k))
  BY <1>1, <1>2 DEF TableOK
<1> QED BY <1>1, <1>3 DEF LogIn

LEMMA WithKeeps ==
  ASSUME NEW table, TableOK(table), NEW k \in Key, NEW f, Ages(f, Window)
  PROVE  /\ TableOK(With(table, k, f)) /\ DOMAIN With(table, k, f) = DOMAIN table \cup {k}
         /\ LogIn(With(table, k, f), k) = f
         /\ \A q \in Key : q # k => LogIn(With(table, k, f), q) = LogIn(table, q)
<1>1. /\ DOMAIN With(table, k, f) = DOMAIN table \cup {k}
      /\ \A q \in DOMAIN table \cup {k} : With(table, k, f)[q] = IF q = k THEN f ELSE table[q]
      /\ With(table, k, f) = [q \in DOMAIN With(table, k, f) |-> With(table, k, f)[q]]
  BY DEF With
<1>2. IsFiniteSet(DOMAIN table \cup {k})
  BY FS_AddElement DEF TableOK
<1>3. TableOK(With(table, k, f))
  BY <1>1, <1>2 DEF TableOK
<1> QED BY <1>1, <1>3 DEF LogIn

\* Pruning a key's own entries changes nothing that counts, and tracks no new key.
LEMMA PruneKeeps ==
  ASSUME LimiterTypeOK, NEW k \in Key
  PROVE  /\ TableOK(Pruned(k)) /\ DOMAIN Pruned(k) \subseteq DOMAIN logs
         /\ \A q \in Key : Unexpired(LogIn(Pruned(k), q)) = Unexpired(LogIn(logs, q))
         /\ Ages(Unexpired(Log(k)), Window)
<1>1. TableOK(logs) /\ Log(k) = LogIn(logs, k)
  BY DEF LimiterTypeOK, Log, LogIn
<1>2. Ages(Log(k), Window)
  BY NoAdmissionsAges DEF LimiterTypeOK, TableOK, Log
<1> DEFINE kept == Unexpired(Log(k))
<1>3. Ages(kept, Window) /\ Unexpired(kept) = kept
  BY <1>2, UnexpiredAges
<1>4. Unexpired(NoAdmissions) = NoAdmissions
  BY DEF Unexpired, NoAdmissions
<1>5. CASE Size(kept) = 0
  <2>1. kept = NoAdmissions
    BY <1>3, <1>5, SizeZero
  <2>2. Pruned(k) = Without(logs, k)
    BY <1>5 DEF Pruned
  <2> HIDE DEF kept
  <2>3. Unexpired(LogIn(Pruned(k), k)) = Unexpired(LogIn(logs, k))
    BY ZenonT(60), <1>1, <1>4, <2>1, <2>2, WithoutKeeps DEF kept
  <2>4. /\ TableOK(Without(logs, k)) /\ DOMAIN Without(logs, k) = DOMAIN logs \ {k}
        /\ \A q \in Key : q # k => LogIn(Without(logs, k), q) = LogIn(logs, q)
    BY <1>1, WithoutKeeps
  <2>5. TableOK(Pruned(k)) /\ DOMAIN Pruned(k) \subseteq DOMAIN logs
    BY <2>2, <2>4
  <2> QED BY <1>3, <2>2, <2>3, <2>4, <2>5 DEF kept
<1>6. CASE Size(kept) # 0
  <2>1. Pruned(k) = With(logs, k, kept)
    BY <1>6 DEF Pruned
  <2>2. k \in DOMAIN logs
    <3> SUFFICES ASSUME k \notin DOMAIN logs PROVE FALSE
      OBVIOUS
    <3>1. kept = NoAdmissions
      BY <1>4 DEF Log
    <3> QED BY <1>6, <3>1, NoAdmissionsAges
  <2> HIDE DEF kept
  <2>3. /\ TableOK(Pruned(k)) /\ DOMAIN Pruned(k) = DOMAIN logs \cup {k}
        /\ LogIn(Pruned(k), k) = kept
        /\ \A q \in Key : q # k => LogIn(Pruned(k), q) = LogIn(logs, q)
    BY <1>1, <1>3, <2>1, WithKeeps
  <2>4. Unexpired(LogIn(Pruned(k), k)) = Unexpired(LogIn(logs, k))
    BY <1>1, <1>3, <2>3 DEF kept
  <2> QED BY <1>3, <2>2, <2>3, <2>4 DEF kept
<1> QED BY <1>5, <1>6

LEMMA TickStep ==
  ASSUME LimiterInv, Tick
  PROVE  LimiterInv'
<1>1. /\ DOMAIN logs' = DOMAIN logs /\ \A k \in DOMAIN logs : logs'[k] = Older(logs[k])
      /\ logs' = [k \in DOMAIN logs' |-> logs'[k]]
      /\ granted' = [k \in Key |-> Recent(granted[k])] /\ ops' = ops
  BY DEF Tick
<1>2. \A k \in DOMAIN logs : Ages(Older(logs[k]), Window)
  BY LogsAge DEF LimiterInv, LimiterTypeOK, TableOK
<1>3. \A k \in Key : Ages(Recent(granted[k]), Window - 1)
                     /\ Size(Recent(granted[k])) <= Size(granted[k])
  BY HistoryAges DEF LimiterInv, LimiterTypeOK
<1>4. LimiterTypeOK'
  <2>1. TableOK(logs')
    BY <1>1, <1>2 DEF LimiterInv, LimiterTypeOK, TableOK
  <2>2. TableOK(logs)'
    BY <2>1 DEF TableOK, Ages
  <2>3. \A k \in Key : Ages(granted'[k], Window - 1)
    BY <1>1, <1>3
  <2>4. (\A k \in Key : Ages(granted[k], Window - 1))'
    BY <2>3 DEF Ages
  <2> QED BY <1>1, <2>2, <2>4 DEF LimiterInv, LimiterTypeOK
<1>5. ASSUME NEW k \in Key PROVE Size(granted'[k]) <= Limit
  <2>1. Size(granted'[k]) \in Nat /\ Size(granted[k]) \in Nat
    BY <1>1, <1>3, SizeZero DEF LimiterInv, LimiterTypeOK
  <2> QED BY <1>1, <1>3, <2>1, LimiterAssumption DEF LimiterInv, LimitHolds
<1>6. ASSUME NEW k \in Key PROVE Unexpired(Log(k))' = granted'[k]
  <2>1. Unexpired(Log(k)) = granted[k]
    BY DEF LimiterInv, LimitHolds
  <2>2. CASE k \in DOMAIN logs
    <3>1. Unexpired(logs'[k]) = Recent(Unexpired(logs[k]))
      BY <1>1, <2>2, LogsAge DEF LimiterInv, LimiterTypeOK, TableOK
    <3> QED BY <1>1, <2>1, <2>2, <3>1 DEF Log, Unexpired
  <2>3. CASE k \notin DOMAIN logs
    <3>1. granted[k] = NoAdmissions /\ Recent(granted[k]) = NoAdmissions
      BY <2>1, <2>3 DEF Log, Unexpired, Recent, NoAdmissions
    <3> QED BY <1>1, <2>3, <3>1 DEF Log, Unexpired, NoAdmissions
  <2> QED BY <2>2, <2>3
<1>7. LimitHolds'
  BY <1>1, <1>5, <1>6 DEF LimiterInv, LimitHolds, Size
<1> QED BY <1>4, <1>7 DEF LimiterInv

LEMMA RefuseStep ==
  ASSUME LimiterInv, NEW k \in Key, Refuse(k)
  PROVE  LimiterInv'
<1>1. logs' = Pruned(k) /\ ops' = ops /\ granted' = granted
  BY DEF Refuse
<1> DEFINE table == Pruned(k)
<1>2. /\ TableOK(table) /\ DOMAIN table \subseteq DOMAIN logs
      /\ \A q \in Key : Unexpired(LogIn(table, q)) = Unexpired(LogIn(logs, q))
  BY PruneKeeps DEF LimiterInv
<1> HIDE DEF table
<1>3. Cardinality(DOMAIN table) <= MaxKeys
  <2>1. Cardinality(DOMAIN table) <= Cardinality(DOMAIN logs)
    BY <1>2, FS_Subset DEF LimiterInv, LimiterTypeOK, TableOK
  <2>2. Cardinality(DOMAIN table) \in Nat /\ Cardinality(DOMAIN logs) \in Nat
    BY <1>2, FS_CardinalityType DEF LimiterInv, LimiterTypeOK, TableOK
  <2> QED BY <2>1, <2>2, LimiterAssumption DEF LimiterInv, LimitHolds
<1>4. LimiterTypeOK'
  BY <1>1, <1>2 DEF LimiterInv, LimiterTypeOK, TableOK, Ages, table
<1>5. ASSUME NEW q \in Key PROVE Unexpired(Log(q))' = granted'[q]
  <2>1. Unexpired(LogIn(logs, q)) = granted[q]
    BY DEF LimiterInv, LimitHolds, Log, LogIn
  <2>2. Unexpired(LogIn(logs', q)) = granted'[q]
    BY <1>1, <1>2, <2>1 DEF table
  <2> QED BY <2>2 DEF Unexpired, Log, LogIn, InWindow
<1>6. LimitHolds'
  BY <1>1, <1>3, <1>5 DEF LimiterInv, LimitHolds, Size, table
<1> QED BY <1>4, <1>6 DEF LimiterInv

\* The table a new admission goes into has room for its key, and differs from the pruned one
\* by at most one evicted key.
LEMMA RoomIsMade ==
  ASSUME LimiterInv, NEW k \in Key, NEW table \in Rooms(k)
  PROVE  /\ TableOK(table) /\ DOMAIN table \subseteq DOMAIN Pruned(k)
         /\ Cardinality(DOMAIN table \cup {k}) <= MaxKeys
         /\ \A q \in Key : LogIn(table, q) = IF q \in DOMAIN Pruned(k) \ DOMAIN table
                                             THEN NoAdmissions ELSE LogIn(Pruned(k), q)
<1> DEFINE pruned == Pruned(k)
<1>1. TableOK(pruned) /\ DOMAIN pruned \subseteq DOMAIN logs /\ IsFiniteSet(DOMAIN logs)
  BY PruneKeeps DEF LimiterInv, LimiterTypeOK, TableOK
<1>2. Cardinality(DOMAIN pruned) \in Nat /\ Cardinality(DOMAIN pruned) <= MaxKeys
  <2>1. Cardinality(DOMAIN pruned) <= Cardinality(DOMAIN logs)
    BY <1>1, FS_Subset
  <2>2. Cardinality(DOMAIN pruned) \in Nat /\ Cardinality(DOMAIN logs) \in Nat
    BY <1>1, FS_CardinalityType DEF TableOK
  <2> QED BY <2>1, <2>2, LimiterAssumption DEF LimiterInv, LimitHolds
<1> HIDE DEF pruned
<1>3. CASE k \notin DOMAIN pruned /\ Cardinality(DOMAIN pruned) >= MaxKeys
  <2>1. PICK v \in DOMAIN pruned : table = Without(pruned, v)
    BY <1>3 DEF Rooms, pruned
  <2>2. /\ TableOK(table) /\ DOMAIN table = DOMAIN pruned \ {v}
        /\ LogIn(table, v) = NoAdmissions
        /\ \A q \in Key \ {v} : LogIn(table, q) = LogIn(pruned, q)
    BY <1>1, <2>1, WithoutKeeps
  <2>3. Cardinality(DOMAIN table) = Cardinality(DOMAIN pruned) - 1
    BY <1>1, <2>1, <2>2, FS_RemoveElement DEF TableOK
  <2>4. Cardinality(DOMAIN table \cup {k}) = Cardinality(DOMAIN table) + 1
    BY <1>3, <2>2, FS_AddElement DEF TableOK
  <2> QED BY <1>2, <2>2, <2>3, <2>4, LimiterAssumption DEF pruned
<1>4. CASE k \in DOMAIN pruned
  <2>1. table = pruned /\ DOMAIN table \cup {k} = DOMAIN table
    BY <1>4 DEF Rooms, pruned
  <2> QED BY <1>1, <1>2, <2>1 DEF pruned
<1>5. CASE k \notin DOMAIN pruned /\ ~(Cardinality(DOMAIN pruned) >= MaxKeys)
  <2>1. table = pruned
    BY <1>5 DEF Rooms, pruned
  <2>2. Cardinality(DOMAIN table \cup {k}) = Cardinality(DOMAIN table) + 1
    BY <1>1, <1>5, <2>1, FS_AddElement DEF TableOK
  <2> QED BY <1>1, <1>2, <1>5, <2>1, <2>2, LimiterAssumption DEF pruned
<1> QED BY <1>3, <1>4, <1>5

LEMMA AdmitStep ==
  ASSUME LimiterInv, NEW k \in Key, Admit(k)
  PROVE  LimiterInv'
<1> DEFINE n == NewNumber(k)
           kept == Unexpired(Log(k))
           more == With(kept, n, 0)
<1>1. kept = granted[k] /\ Ages(granted[k], Window - 1)
  BY DEF LimiterInv, LimiterTypeOK, LimitHolds
<1>2. n \in Nat /\ n \notin DOMAIN kept
  BY <1>1, NumberIsNew
<1>3. Size(kept) < Limit /\ Size(kept) \in Nat
  BY <1>1, SizeZero DEF Admit
<1> HIDE DEF n, kept
<1>4. /\ Ages(more, Window) /\ Ages(more, Window - 1) /\ Unexpired(more) = more
      /\ Size(more) = Size(kept) + 1
  BY <1>1, <1>2, OneMore
<1>5. PICK table \in Rooms(k) :
         /\ logs' = Kept(With(table, k, more))
         /\ granted' = [q \in Key |-> IF q = k THEN With(granted[k], n, 0)
                                      ELSE IF q \in DOMAIN Pruned(k) \ DOMAIN table
                                      THEN NoAdmissions ELSE granted[q]]
  BY DEF Admit, n, kept
<1> HIDE DEF more
<1>6. /\ TableOK(table) /\ DOMAIN table \subseteq DOMAIN Pruned(k)
      /\ Cardinality(DOMAIN table \cup {k}) <= MaxKeys
      /\ \A q \in Key : LogIn(table, q) = IF q \in DOMAIN Pruned(k) \ DOMAIN table
                                          THEN NoAdmissions ELSE LogIn(Pruned(k), q)
  BY RoomIsMade
<1>6a. Ages(more, Window) /\ TableOK(table)
  BY <1>4, <1>6
<1> HIDE <1>4, <1>5, <1>6
<1> DEFINE whole == With(table, k, more)
<1>7. /\ TableOK(whole) /\ DOMAIN whole = DOMAIN table \cup {k}
      /\ LogIn(whole, k) = more
      /\ \A q \in Key : q # k => LogIn(whole, q) = LogIn(table, q)
  <2>1. PICK f : f = more
    OBVIOUS
  <2>2. /\ TableOK(With(table, k, f)) /\ DOMAIN With(table, k, f) = DOMAIN table \cup {k}
        /\ LogIn(With(table, k, f), k) = f
        /\ \A q \in Key : q # k => LogIn(With(table, k, f), q) = LogIn(table, q)
    BY <1>6a, <2>1, WithKeeps
  <2> QED BY <2>1, <2>2
<1> HIDE DEF whole
<1>8. /\ TableOK(logs') /\ DOMAIN logs' \subseteq DOMAIN whole
      /\ \A q \in Key : Unexpired(LogIn(logs', q)) = Unexpired(LogIn(whole, q))
  BY <1>5, <1>7, SweepKeeps DEF whole
<1>9. granted'[k] = more
  BY <1>1, <1>5 DEF more
<1>10. \A q \in Key \ {k} : granted'[q] = IF q \in DOMAIN Pruned(k) \ DOMAIN table
                                          THEN NoAdmissions ELSE granted[q]
  BY <1>5
<1>11. \A q \in Key : Ages(granted'[q], Window - 1) /\ Size(granted'[q]) <= Limit
  <2>1. Ages(granted'[k], Window - 1) /\ Size(granted'[k]) <= Limit
    BY <1>3, <1>4, <1>9, LimiterAssumption
  <2>2. ASSUME NEW q \in Key \ {k}
        PROVE  Ages(granted'[q], Window - 1) /\ Size(granted'[q]) <= Limit
    <3>1. CASE q \in DOMAIN Pruned(k) \ DOMAIN table
      BY <1>10, <3>1, NoAdmissionsAges, LimiterAssumption
    <3>2. CASE q \notin DOMAIN Pruned(k) \ DOMAIN table
      BY <1>10, <3>2 DEF LimiterInv, LimiterTypeOK, LimitHolds
    <3> QED BY <3>1, <3>2
  <2> QED BY <2>1, <2>2
<1>12. ASSUME NEW q \in Key PROVE Unexpired(LogIn(logs', q)) = granted'[q]
  <2>1. CASE q = k
    BY <1>4, <1>7, <1>8, <1>9, <2>1
  <2>2. CASE q # k /\ q \in DOMAIN Pruned(k) \ DOMAIN table
    <3>1. Unexpired(NoAdmissions) = NoAdmissions
      BY DEF Unexpired, NoAdmissions
    <3> QED BY <1>6, <1>7, <1>8, <1>10, <2>2, <3>1
  <2>3. CASE q # k /\ q \notin DOMAIN Pruned(k) \ DOMAIN table
    <3>1. Unexpired(LogIn(Pruned(k), q)) = Unexpired(LogIn(logs, q))
      BY PruneKeeps DEF LimiterInv
    <3>2. Unexpired(LogIn(logs, q)) = granted[q]
      BY DEF LimiterInv, LimitHolds, Log, LogIn
    <3> QED BY <1>6, <1>7, <1>8, <1>10, <2>3, <3>1, <3>2
  <2> QED BY <2>1, <2>2, <2>3
<1>13. Cardinality(DOMAIN logs') <= MaxKeys
  <2>1. IsFiniteSet(DOMAIN table \cup {k}) /\ DOMAIN logs' \subseteq DOMAIN table \cup {k}
    BY <1>6, <1>7, <1>8, FS_AddElement DEF TableOK
  <2>2. /\ Cardinality(DOMAIN logs') <= Cardinality(DOMAIN table \cup {k})
        /\ Cardinality(DOMAIN logs') \in Nat /\ Cardinality(DOMAIN table \cup {k}) \in Nat
    BY <2>1, FS_Subset, FS_CardinalityType
  <2> QED BY <1>6, <2>2, LimiterAssumption
<1>14. LimiterTypeOK'
  <2>1. ops' \in 0..(SweepEvery - 1)
    BY LimiterAssumption DEF Admit, LimiterInv, LimiterTypeOK
  <2>2. granted' = [q \in Key |-> granted'[q]]
    BY <1>5
  <2>3. TableOK(logs)'
    BY <1>8 DEF TableOK, Ages
  <2>4. (\A q \in Key : Ages(granted[q], Window - 1))'
    BY <1>11 DEF Ages
  <2> QED BY <2>1, <2>2, <2>3, <2>4 DEF LimiterTypeOK
<1>15. LimitHolds'
  <2>1. \A q \in Key : Unexpired(Log(q))' = granted'[q]
    BY <1>12 DEF Unexpired, Log, LogIn, InWindow
  <2> QED BY <1>11, <1>13, <2>1 DEF LimitHolds, Size
<1> QED BY <1>14, <1>15 DEF LimiterInv

\* Allow of internal/ratelimit/limiter.go: the history is what the limiter's logs say under its
\* own filter, tables and logs are finite, and the table never tracks a key too many.
THEOREM LimiterCorrect == LimiterSpec => []LimiterInv
<1>1. LimiterInit => LimiterInv
  <2> SUFFICES ASSUME LimiterInit PROVE LimiterInv
    OBVIOUS
  <2>1. DOMAIN logs = {} /\ logs = [k \in DOMAIN logs |-> logs[k]]
    BY DEF LimiterInit
  <2>2. IsFiniteSet(DOMAIN logs) /\ Cardinality(DOMAIN logs) = 0
    BY <2>1, FS_EmptySet
  <2>3. \A k \in Key : Log(k) = NoAdmissions /\ granted[k] = NoAdmissions
    BY <2>1 DEF LimiterInit, Log
  <2>4. Unexpired(NoAdmissions) = NoAdmissions
    BY DEF Unexpired, NoAdmissions
  <2>5. TableOK(logs)
    BY <2>1, <2>2 DEF TableOK
  <2>6. LimiterTypeOK
    BY <2>3, <2>5, NoAdmissionsAges, LimiterAssumption DEF LimiterInit, LimiterTypeOK
  <2>7. LimitHolds
    BY <2>2, <2>3, <2>4, NoAdmissionsAges, LimiterAssumption DEF LimitHolds
  <2> QED BY <2>6, <2>7 DEF LimiterInv
<1>2. LimiterInv /\ [LimiterNext]_lvars => LimiterInv'
  <2> SUFFICES ASSUME LimiterInv, [LimiterNext]_lvars PROVE LimiterInv'
    OBVIOUS
  <2>1. CASE UNCHANGED lvars
    <3>1. LimiterTypeOK'
      BY <2>1 DEF lvars, LimiterInv, LimiterTypeOK, TableOK, Ages
    <3>2. \A k \in Key : Unexpired(Log(k))' = Unexpired(Log(k))
      BY <2>1 DEF lvars, Log, Unexpired, InWindow
    <3>3. LimitHolds'
      BY <2>1, <3>2 DEF lvars, LimiterInv, LimitHolds, Size
    <3> QED BY <3>1, <3>3 DEF LimiterInv
  <2> QED BY <2>1, TickStep, RefuseStep, AdmitStep DEF LimiterNext
<1> QED BY <1>1, <1>2, PTL DEF LimiterSpec

\* Whatever the sweeps, the pruning and the evictions drop, no key that was not evicted gets
\* more than its limit in a window, or waits for an admission that has left the window.
THEOREM LimitKept == LimiterSpec => []LimitHolds
<1>1. LimiterInv => LimitHolds
  BY DEF LimiterInv
<1> QED BY <1>1, LimiterCorrect, PTL

-----------------------------------------------------------------------------
(* Locks: every lock has a rank, the manager's first and the feeds' last, and whoever holds
   a lock only takes locks of a greater rank before releasing it. *)

Rank(lock) ==
  CASE lock[1] \in {"Manager.mu", "Manager.finalizerMu"} -> 1
    [] lock[1] = "Lobby.mu"  -> 2
    [] lock[1] = "Engine.mu" -> 3
    [] OTHER                 -> 4

Locks ==
  {ManagerMu, FinalizerMu}
  \cup UNION {{LobbyMu(c), EngineMu(c), LobbyFeed(c), MatchFeed(c)} : c \in Code}

Step == [lock : Locks, mode : {"Read", "Write", "Release"}]

Takes(k) == k.mode # "Release"

\* A hold that may go inside whatever has rank r: it takes locks of greater ranks only, each
\* above those it has not released, and releases all it takes.
Ascends(s, r) ==
  /\ s \in Seq(Step)
  /\ \A i \in 1..Len(s) : Takes(s[i]) =>
       /\ Rank(s[i].lock) > r
       /\ \E j \in 1..Len(s) : i < j /\ s[j] = [lock |-> s[i].lock, mode |-> "Release"]
  /\ \A h, i \in 1..Len(s) : h < i /\ Takes(s[h]) /\ Takes(s[i]) =>
       \/ Rank(s[h].lock) < Rank(s[i].lock)
       \/ \E j \in 1..Len(s) : h < j /\ j < i /\ s[j] = [lock |-> s[h].lock, mode |-> "Release"]

-----------------------------------------------------------------------------
(* Holds *)

LEMMA RankType == \A lock : Rank(lock) \in 1..4
BY DEF Rank

\* Nothing at all takes no lock.
LEMMA NothingAscends == \A r \in Nat : Ascends(<<>>, r)
BY DEF Ascends

\* What may go inside a lock, taken around it, may go inside all that ranks below the lock.
LEMMA AroundAscends ==
  ASSUME NEW lock \in Locks, NEW mode \in {"Read", "Write"}, NEW r \in Nat,
         NEW s, Ascends(s, Rank(lock)), r < Rank(lock)
  PROVE  Ascends(Around(lock, mode, s), r)
<1> DEFINE a == [lock |-> lock, mode |-> mode]
           z == [lock |-> lock, mode |-> "Release"]
           w == Around(lock, mode, s)
           n == Len(s)
<1>1. a \in Step /\ z \in Step /\ Takes(a) /\ ~Takes(z) /\ a.lock = lock
  BY DEF Step, Takes
<1>2. s \in Seq(Step) /\ n \in Nat
  BY DEF Ascends
<1>3. /\ w \in Seq(Step) /\ Len(w) = n + 2
      /\ w[1] = a /\ w[n + 2] = z
      /\ \A i \in 1..n : w[i + 1] = s[i]
  <2> DEFINE u == <<a>> \o s
  <2>1. w = u \o <<z>>
    BY DEF Around
  <2>2. u \in Seq(Step) /\ Len(u) = n + 1 /\ u[1] = a /\ \A i \in 1..n : u[i + 1] = s[i]
    BY <1>1, <1>2
  <2> HIDE DEF a, z, w, n, u
  <2>3. w \in Seq(Step) /\ Len(w) = n + 2
    BY <1>1, <1>2, <2>1, <2>2
  <2>4. w[n + 2] = z /\ \A i \in 1..(n + 1) : w[i] = u[i]
    BY <1>1, <1>2, <2>1, <2>2
  <2> QED BY <1>2, <2>2, <2>3, <2>4
<1>4. \A i \in 2..(n + 1) : i - 1 \in 1..n /\ w[i] = s[i - 1]
  <2> HIDE DEF w, n
  <2> SUFFICES ASSUME NEW i \in 2..(n + 1) PROVE i - 1 \in 1..n /\ w[i] = s[i - 1]
    OBVIOUS
  <2>1. i - 1 \in 1..n /\ (i - 1) + 1 = i
    BY <1>2
  <2>2. w[(i - 1) + 1] = s[i - 1]
    BY <1>3, <2>1
  <2> QED BY <2>1, <2>2
<1> HIDE DEF a, w, n
<1>5. ASSUME NEW i \in 1..Len(w), Takes(w[i])
      PROVE  /\ Rank(w[i].lock) > r
             /\ \E j \in 1..Len(w) : i < j /\ w[j] = [lock |-> w[i].lock, mode |-> "Release"]
  <2>1. CASE i = 1
    BY SMTT(30), <1>1, <1>2, <1>3, <2>1
  <2>2. CASE i \in 2..(n + 1)
    <3>1. Rank(s[i - 1].lock) > Rank(lock)
      BY <1>4, <1>5, <2>2 DEF Ascends, n
    <3>2. PICK j \in 1..n : i - 1 < j /\ s[j] = [lock |-> s[i - 1].lock, mode |-> "Release"]
      BY <1>4, <1>5, <2>2 DEF Ascends, n
    <3>3. j + 1 \in 1..Len(w) /\ i < j + 1 /\ w[j + 1] = s[j]
      BY <1>2, <1>3, <3>2
    <3> QED BY <1>4, <2>2, <3>1, <3>2, <3>3, RankType
  <2> QED BY <1>1, <1>2, <1>3, <1>5, <2>1, <2>2
<1>6. ASSUME NEW h \in 1..Len(w), NEW i \in 1..Len(w), h < i, Takes(w[h]), Takes(w[i])
      PROVE  \/ Rank(w[h].lock) < Rank(w[i].lock)
             \/ \E j \in 1..Len(w) :
                  h < j /\ j < i /\ w[j] = [lock |-> w[h].lock, mode |-> "Release"]
  <2>1. i \in 2..(n + 1)
    BY <1>1, <1>2, <1>3, <1>6
  <2>2. CASE h = 1
    BY <1>1, <1>3, <1>4, <1>6, <2>1, <2>2 DEF Ascends, n
  <2>3. CASE h # 1
    <3>1. h \in 2..(n + 1)
      BY <1>2, <1>3, <1>6, <2>1, <2>3
    <3>2. CASE Rank(s[h - 1].lock) < Rank(s[i - 1].lock)
      BY <1>4, <2>1, <3>1, <3>2
    <3>3. CASE \E j \in 1..n : /\ h - 1 < j /\ j < i - 1
                               /\ s[j] = [lock |-> s[h - 1].lock, mode |-> "Release"]
      <4>1. PICK j \in 1..n : /\ h - 1 < j /\ j < i - 1
                              /\ s[j] = [lock |-> s[h - 1].lock, mode |-> "Release"]
        BY <3>3
      <4>2. j + 1 \in 1..Len(w) /\ h < j + 1 /\ j + 1 < i /\ w[j + 1] = s[j]
        BY <1>2, <1>3, <2>1, <3>1, <4>1
      <4> QED BY <1>4, <3>1, <4>1, <4>2
    <3>4. h - 1 \in 1..n /\ i - 1 \in 1..n /\ h - 1 < i - 1 /\ w[h] = s[h - 1] /\ w[i] = s[i - 1]
      BY <1>4, <1>6, <2>1, <3>1
    <3> QED BY <1>6, <3>2, <3>3, <3>4 DEF Ascends, n
  <2> QED BY <2>2, <2>3
<1> QED BY <1>3, <1>5, <1>6 DEF Ascends, w

\* One after the other.
LEMMA ThenAscends ==
  ASSUME NEW r \in Nat, NEW s, NEW t, Ascends(s, r), Ascends(t, r)
  PROVE  Ascends(s \o t, r)
<1> DEFINE w == s \o t
           m == Len(s)
           n == Len(t)
<1>1. s \in Seq(Step) /\ t \in Seq(Step) /\ m \in Nat /\ n \in Nat
  BY DEF Ascends
<1>2. /\ w \in Seq(Step) /\ Len(w) = m + n
      /\ \A i \in 1..m : w[i] = s[i]
      /\ \A i \in 1..n : w[m + i] = t[i]
  BY <1>1
<1>3. \A i \in 1..Len(w) : i \in 1..m \/ (i - m \in 1..n /\ w[i] = t[i - m])
  <2>1. \A i \in 1..(m + n) : i \in 1..m \/ (i - m \in 1..n /\ i = m + (i - m))
    BY <1>1
  <2> QED BY <1>2, <2>1
<1> HIDE DEF w, m, n
<1>4. ASSUME NEW i \in 1..Len(w), Takes(w[i])
      PROVE  /\ Rank(w[i].lock) > r
             /\ \E j \in 1..Len(w) : i < j /\ w[j] = [lock |-> w[i].lock, mode |-> "Release"]
  <2>1. CASE i \in 1..m
    <3>1. Rank(s[i].lock) > r
      BY <1>2, <1>4, <2>1 DEF Ascends, m
    <3>2. PICK j \in 1..m : i < j /\ s[j] = [lock |-> s[i].lock, mode |-> "Release"]
      BY <1>2, <1>4, <2>1 DEF Ascends, m
    <3>3. j \in 1..Len(w) /\ w[j] = s[j]
      BY <1>1, <1>2
    <3> QED BY <1>2, <2>1, <3>1, <3>2, <3>3
  <2>2. CASE i - m \in 1..n /\ w[i] = t[i - m]
    <3>1. Rank(t[i - m].lock) > r
      BY <1>4, <2>2 DEF Ascends, n
    <3>2. PICK j \in 1..n : i - m < j /\ t[j] = [lock |-> t[i - m].lock, mode |-> "Release"]
      BY <1>4, <2>2 DEF Ascends, n
    <3>3. w[m + j] = t[j]
      BY <1>2, <3>2
    <3>4. i \in 1..(m + n) /\ i - m < j
      BY <1>2, <3>2
    <3>5. m + j \in 1..(m + n) /\ i < m + j
      BY <1>1, <3>4
    <3>6. m + j \in 1..Len(w) /\ i < m + j /\ w[m + j] = t[j]
      BY <1>2, <3>3, <3>5
    <3> QED BY <2>2, <3>1, <3>2, <3>6
  <2> QED BY <1>3, <2>1, <2>2
<1>5. ASSUME NEW h \in 1..Len(w), NEW i \in 1..Len(w), h < i, Takes(w[h]), Takes(w[i])
      PROVE  \/ Rank(w[h].lock) < Rank(w[i].lock)
             \/ \E j \in 1..Len(w) :
                  h < j /\ j < i /\ w[j] = [lock |-> w[h].lock, mode |-> "Release"]
  <2>1. CASE i \in 1..m
    <3>1. h \in 1..m
      BY <1>1, <1>5, <2>1
    <3>2. CASE Rank(s[h].lock) < Rank(s[i].lock)
      BY <1>2, <2>1, <3>1, <3>2
    <3>3. CASE \E j \in 1..m : /\ h < j /\ j < i
                               /\ s[j] = [lock |-> s[h].lock, mode |-> "Release"]
      <4>1. PICK j \in 1..m : /\ h < j /\ j < i
                              /\ s[j] = [lock |-> s[h].lock, mode |-> "Release"]
        BY <3>3
      <4>2. j \in 1..Len(w) /\ w[j] = s[j]
        BY <1>1, <1>2
      <4> QED BY <1>2, <3>1, <4>1, <4>2
    <3> QED BY <1>2, <1>5, <2>1, <3>1, <3>2, <3>3 DEF Ascends, m
  <2>2. CASE i - m \in 1..n /\ w[i] = t[i - m] /\ h \in 1..m
    <3>1. PICK j \in 1..m : h < j /\ s[j] = [lock |-> s[h].lock, mode |-> "Release"]
      BY <1>2, <1>5, <2>2 DEF Ascends, m
    <3>2. j \in 1..Len(w) /\ w[j] = s[j] /\ j < i
      BY <1>1, <1>2, <2>2
    <3> QED BY <1>2, <2>2, <3>1, <3>2
  <2>3. CASE i - m \in 1..n /\ w[i] = t[i - m] /\ h - m \in 1..n /\ w[h] = t[h - m]
    <3>1. CASE Rank(t[h - m].lock) < Rank(t[i - m].lock)
      BY <2>3, <3>1
    <3>2. CASE \E j \in 1..n : /\ h - m < j /\ j < i - m
                               /\ t[j] = [lock |-> t[h - m].lock, mode |-> "Release"]
      <4>1. PICK j \in 1..n : /\ h - m < j /\ j < i - m
                              /\ t[j] = [lock |-> t[h - m].lock, mode |-> "Release"]
        BY <3>2
      <4>2. w[m + j] = t[j]
        BY <1>2, <4>1
      <4>3. h \in 1..(m + n) /\ i \in 1..(m + n) /\ h - m < j /\ j < i - m
        BY <1>2, <4>1
      <4>4. m + j \in 1..(m + n) /\ h < m + j /\ m + j < i
        BY <1>1, <4>3
      <4>5. m + j \in 1..Len(w) /\ h < m + j /\ m + j < i /\ w[m + j] = t[j]
        BY <1>2, <4>2, <4>4
      <4> QED BY <2>3, <4>1, <4>5
    <3>3. h - m < i - m
      BY <1>1, <1>5
    <3> QED BY <1>5, <2>3, <3>1, <3>2, <3>3 DEF Ascends, n
  <2> QED BY <1>3, <2>1, <2>2, <2>3
<1> QED BY <1>2, <1>4, <1>5 DEF Ascends, w

\* What may go inside a lock may go inside one that ranks below it.
LEMMA LowerAscends ==
  ASSUME NEW r \in Nat, NEW q \in Nat, q <= r, NEW s, Ascends(s, r)
  PROVE  Ascends(s, q)
BY RankType DEF Ascends

LEMMA AloneAscends ==
  ASSUME NEW lock \in Locks, NEW r \in Nat, r < Rank(lock)
  PROVE  Ascends(Alone(lock), r)
BY NothingAscends, AroundAscends, RankType DEF Alone, Writing

LEMMA RankOfLocks ==
  /\ ManagerMu \in Locks /\ Rank(ManagerMu) = 1
  /\ FinalizerMu \in Locks /\ Rank(FinalizerMu) = 1
  /\ \A c \in Code : /\ LobbyMu(c) \in Locks   /\ Rank(LobbyMu(c)) = 2
                     /\ EngineMu(c) \in Locks  /\ Rank(EngineMu(c)) = 3
                     /\ LobbyFeed(c) \in Locks /\ Rank(LobbyFeed(c)) = 4
                     /\ MatchFeed(c) \in Locks /\ Rank(MatchFeed(c)) = 4
BY DEF Locks, Rank, ManagerMu, FinalizerMu, LobbyMu, EngineMu, LobbyFeed, MatchFeed

\* What a lobby and its match lock without the manager's lock may go inside it.
LEMMA LobbyHolds ==
  ASSUME NEW c \in Code
  PROVE  /\ Ascends(Looks(c), 1) /\ Ascends(Announces(c), 1) /\ Ascends(Tells(c), 1)
         /\ Ascends(Alone(LobbyMu(c)), 1) /\ Ascends(Alone(EngineMu(c)), 1)
         /\ Ascends(Alone(LobbyFeed(c)), 1) /\ Ascends(Alone(MatchFeed(c)), 1)
         /\ Ascends(StartGameHold(c), 1)
         /\ Ascends(Writing(LobbyMu(c), Alone(EngineMu(c))), 1)
<1> USE RankOfLocks
<1>1. \A r \in 0..3 : Ascends(Alone(LobbyFeed(c)), r) /\ Ascends(Alone(MatchFeed(c)), r)
  BY AloneAscends
<1>2. \A r \in 0..2 : Ascends(Alone(EngineMu(c)), r)
  BY AloneAscends
<1>3. \A r \in 0..2 : Ascends(Tells(c), r)
  BY <1>1, AroundAscends DEF Tells, Writing
<1>4. Ascends(Looks(c), 1)
  BY NothingAscends, AroundAscends DEF Looks, Reading
<1>5. Ascends(Announces(c), 1)
  BY <1>1, AroundAscends DEF Announces, Writing
<1>6. Ascends(StartGameHold(c), 1)
  <2>1. Ascends(Tells(c) \o Alone(MatchFeed(c)), 2)
    BY <1>1, <1>3, ThenAscends
  <2>2. Ascends(Tells(c) \o Alone(MatchFeed(c)) \o Alone(LobbyFeed(c)), 2)
    BY <1>1, <2>1, ThenAscends
  <2> QED BY <2>2, AroundAscends DEF StartGameHold, Writing
<1>7. Ascends(Writing(LobbyMu(c), Alone(EngineMu(c))), 1)
  BY <1>2, AroundAscends DEF Writing
<1>8. Ascends(Alone(LobbyMu(c)), 1)
  BY AloneAscends
<1> QED BY <1>1, <1>2, <1>3, <1>4, <1>5, <1>6, <1>7, <1>8

\* No method of the manager, a lobby or an engine takes its locks in another order.
LEMMA HoldsAscend == \A h \in Holds : Ascends(h, 0)
<1>1. \A c \in Code :
        /\ Ascends(Looks(c), 0) /\ Ascends(Announces(c), 0) /\ Ascends(Tells(c), 0)
        /\ Ascends(Alone(LobbyMu(c)), 0) /\ Ascends(Alone(EngineMu(c)), 0)
        /\ Ascends(Alone(LobbyFeed(c)), 0) /\ Ascends(Alone(MatchFeed(c)), 0)
        /\ Ascends(StartGameHold(c), 0)
        /\ Ascends(Writing(LobbyMu(c), Alone(EngineMu(c))), 0)
  BY LobbyHolds, LowerAscends
<1>2. \A s : Ascends(s, 1) => Ascends(Writing(ManagerMu, s), 0) /\ Ascends(Reading(ManagerMu, s), 0)
  BY RankOfLocks, AroundAscends DEF Writing, Reading
<1>3. /\ Ascends(Alone(ManagerMu), 0) /\ Ascends(Alone(FinalizerMu), 0)
      /\ Ascends(Reading(ManagerMu, <<>>), 0)
  BY <1>2, RankOfLocks, AloneAscends, NothingAscends
<1>4. \A check \in Checks : Ascends(check, 1)
  BY LobbyHolds, NothingAscends DEF Checks
<1>5. \A h \in NewHolds \cup ResumeHolds : Ascends(h, 0)
  BY <1>2, <1>4 DEF NewHolds, ResumeHolds
<1>6. \A h \in JoinHolds : Ascends(h, 0)
  <2>1. ASSUME NEW check \in Checks, NEW c \in Code
        PROVE  Ascends(Writing(ManagerMu, check \o Announces(c)), 0)
    BY <1>2, <1>4, LobbyHolds, ThenAscends
  <2> QED BY <2>1 DEF JoinHolds
<1>7. \A h \in FindHolds \cup StatsHolds \cup BrowseHolds : Ascends(h, 0)
  BY <1>1, <1>3 DEF FindHolds, StatsHolds, BrowseHolds
<1>8. ASSUME NEW c \in Code
      PROVE  \A h \in EngineHolds(c) \cup SettingsHolds(c) \cup KickHolds(c) \cup DisconnectHolds(c)
                         \cup ShutdownHolds(c) \cup ToggleReadyHolds(c) \cup WatchHolds(c) :
               Ascends(h, 0)
  <2>1. \A h \in EngineHolds(c) \cup EngineCloseHolds(c) \cup SettingsHolds(c) \cup NotifyHolds(c) :
          Ascends(h, 0)
    BY <1>1 DEF EngineHolds, EngineCloseHolds, SettingsHolds, NotifyHolds
  <2>2. \A h \in RemoveLobbyHolds(c) : Ascends(h, 0)
    BY <1>1, <1>2, <2>1, LobbyHolds DEF RemoveLobbyHolds
  <2>3. \A h \in LeaveHolds(c) \cup KickHolds(c) : Ascends(h, 0)
    BY <1>2, <2>1, <2>2, LobbyHolds DEF LeaveHolds, KickHolds
  <2>4. \A h \in DisconnectHolds(c) \cup ExpireHolds(c) \cup ShutdownHolds(c) : Ascends(h, 0)
    BY <1>2, <1>3, <2>3, LobbyHolds DEF DisconnectHolds, ExpireHolds, ShutdownHolds
  <2>5. \A h \in ReleaseHeldHolds(c) \cup ReleaseGameHolds(c) : Ascends(h, 0)
    BY <1>1, <1>3, <2>1, <2>4 DEF ReleaseHeldHolds, ReleaseGameHolds
  <2>6. \A h \in ToggleReadyHolds(c) \cup WatchHolds(c) : Ascends(h, 0)
    BY <1>1, <1>3, <2>3, <2>5 DEF ToggleReadyHolds, WatchHolds
  <2> QED BY <2>1, <2>3, <2>4, <2>6
<1> QED BY <1>5, <1>6, <1>7, <1>8 DEF Holds

-----------------------------------------------------------------------------
(* Goroutines *)

Unlocking(k) == [lock |-> k.lock, mode |-> "Release"]

\* What x has locked it has yet to unlock, and until then it locks only what ranks above it.
Follows(x) ==
  /\ Ascends(ahead[x], 0)
  /\ \A k \in taken[x] :
       /\ \E j \in 1..Len(ahead[x]) : ahead[x][j] = Unlocking(k)
       /\ \A i \in 1..Len(ahead[x]) : Takes(ahead[x][i]) =>
            \/ Rank(k.lock) < Rank(ahead[x][i].lock)
            \/ \E j \in 1..Len(ahead[x]) : j < i /\ ahead[x][j] = Unlocking(k)

\* The inductive invariant.
LocksFollowed ==
  /\ ahead \in [Caller -> Seq(Step)]
  /\ taken \in [Caller -> SUBSET Step]
  /\ \A x \in Caller : Follows(x)
  /\ \A x \in queued : x \in Caller /\ ahead[x] # <<>> /\ Wants(x).mode = "Write"

LEMMA TailAscends ==
  ASSUME NEW s, s # <<>>, Ascends(s, 0)
  PROVE  Ascends(Tail(s), 0)
<1> DEFINE t == Tail(s)
           n == Len(t)
<1>1. s \in Seq(Step)
  BY DEF Ascends
<1>2. /\ t \in Seq(Step) /\ n \in Nat /\ Len(s) = n + 1
      /\ \A i \in 1..n : t[i] = s[i + 1] /\ i + 1 \in 1..Len(s)
  BY <1>1
<1> HIDE DEF t, n
<1>3. ASSUME NEW i \in 1..n, Takes(t[i])
      PROVE  /\ Rank(t[i].lock) > 0
             /\ \E j \in 1..n : i < j /\ t[j] = [lock |-> t[i].lock, mode |-> "Release"]
  <2>1. PICK j \in 1..Len(s) : i + 1 < j /\ s[j] = [lock |-> s[i + 1].lock, mode |-> "Release"]
    BY <1>2, <1>3 DEF Ascends
  <2>2. j - 1 \in 1..n /\ i < j - 1 /\ t[j - 1] = s[j]
    BY <1>2, <2>1
  <2>3. Rank(t[i].lock) > 0
    BY RankType
  <2> QED BY <1>2, <2>1, <2>2, <2>3
<1>4. ASSUME NEW h \in 1..n, NEW i \in 1..n, h < i, Takes(t[h]), Takes(t[i])
      PROVE  \/ Rank(t[h].lock) < Rank(t[i].lock)
             \/ \E j \in 1..n : h < j /\ j < i /\ t[j] = [lock |-> t[h].lock, mode |-> "Release"]
  <2>1. h + 1 \in 1..Len(s) /\ i + 1 \in 1..Len(s) /\ h + 1 < i + 1
        /\ t[h] = s[h + 1] /\ t[i] = s[i + 1]
    BY <1>2, <1>4
  <2>2. CASE \E j \in 1..Len(s) : /\ h + 1 < j /\ j < i + 1
                                  /\ s[j] = [lock |-> s[h + 1].lock, mode |-> "Release"]
    <3>1. PICK j \in 1..Len(s) : /\ h + 1 < j /\ j < i + 1
                                 /\ s[j] = [lock |-> s[h + 1].lock, mode |-> "Release"]
      BY <2>2
    <3>2. j - 1 \in 1..n /\ h < j - 1 /\ j - 1 < i /\ t[j - 1] = s[j]
      BY <1>2, <3>1
    <3> QED BY <2>1, <3>1, <3>2
  <2> QED BY <1>4, <2>1, <2>2 DEF Ascends
<1> QED BY <1>2, <1>3, <1>4 DEF Ascends, t, n

\* Taking the next step keeps a goroutine to the order.
LEMMA StepFollows ==
  ASSUME LocksFollowed, NEW x \in Caller, ahead[x] # <<>>, Follows(x),
         ahead' = [ahead EXCEPT ![x] = Tail(@)],
         \/ taken' = [taken EXCEPT ![x] = @ \cup {Wants(x)}] /\ Takes(Wants(x))
         \/ taken' = [taken EXCEPT ![x] = {k \in @ : k.lock # Wants(x).lock}] /\ ~Takes(Wants(x))
  PROVE  /\ ahead' \in [Caller -> Seq(Step)]
         /\ taken' \in [Caller -> SUBSET Step]
         /\ \A y \in Caller : Follows(y)'
<1> DEFINE s == ahead[x]
           n == Len(Tail(s))
<1>1. s \in Seq(Step) /\ s # <<>>
  BY DEF LocksFollowed
<1>2. /\ Tail(s) \in Seq(Step) /\ n \in Nat /\ Len(s) = n + 1
      /\ s[1] = Wants(x) /\ Wants(x) \in Step
      /\ \A i \in 1..n : Tail(s)[i] = s[i + 1] /\ i + 1 \in 1..Len(s)
  BY <1>1 DEF Wants
<1>3. ahead'[x] = Tail(s) /\ \A y \in Caller : y # x => ahead'[y] = ahead[y] /\ taken'[y] = taken[y]
  BY DEF LocksFollowed
<1>4. ahead' \in [Caller -> Seq(Step)] /\ taken' \in [Caller -> SUBSET Step]
  BY <1>2 DEF LocksFollowed
<1>5. Ascends(Tail(s), 0)
  BY <1>1, TailAscends DEF Follows
<1> HIDE DEF s, n
<1>6. ASSUME NEW k \in taken'[x]
      PROVE  /\ \E j \in 1..n : Tail(s)[j] = Unlocking(k)
             /\ \A i \in 1..n : Takes(Tail(s)[i]) =>
                  \/ Rank(k.lock) < Rank(Tail(s)[i].lock)
                  \/ \E j \in 1..n : j < i /\ Tail(s)[j] = Unlocking(k)
  <2>1. /\ \E j \in 1..Len(s) : 1 < j /\ s[j] = Unlocking(k)
        /\ \A i \in 2..Len(s) : Takes(s[i]) =>
             \/ Rank(k.lock) < Rank(s[i].lock)
             \/ \E j \in 1..Len(s) : 1 < j /\ j < i /\ s[j] = Unlocking(k)
    <3>1. CASE k = Wants(x) /\ Takes(k)
      BY <1>2, <3>1 DEF Follows, Ascends, Unlocking, s
    <3>2. CASE k \in taken[x] /\ s[1] # Unlocking(k)
      <4>1. \A j \in 1..Len(s) : s[j] = Unlocking(k) => 1 < j
        BY <1>2, <3>2
      <4>2. /\ \E j \in 1..Len(s) : s[j] = Unlocking(k)
            /\ \A i \in 1..Len(s) : Takes(s[i]) =>
                 \/ Rank(k.lock) < Rank(s[i].lock)
                 \/ \E j \in 1..Len(s) : j < i /\ s[j] = Unlocking(k)
        BY <3>2 DEF Follows, s
      <4> QED BY <4>1, <4>2, <1>2
    <3>3. \/ k = Wants(x) /\ Takes(k)
          \/ k \in taken[x] /\ s[1] # Unlocking(k)
      BY <1>2, <1>6 DEF LocksFollowed, Takes, Unlocking
    <3> QED BY <3>1, <3>2, <3>3
  <2>2. PICK j \in 1..Len(s) : 1 < j /\ s[j] = Unlocking(k)
    BY <2>1
  <2>3. j - 1 \in 1..n /\ Tail(s)[j - 1] = Unlocking(k)
    BY <1>2, <2>2
  <2>4. ASSUME NEW i \in 1..n, Takes(Tail(s)[i])
        PROVE  \/ Rank(k.lock) < Rank(Tail(s)[i].lock)
               \/ \E m \in 1..n : m < i /\ Tail(s)[m] = Unlocking(k)
    <3>1. i + 1 \in 2..Len(s) /\ Tail(s)[i] = s[i + 1]
      BY <1>2
    <3>2. CASE \E m \in 1..Len(s) : 1 < m /\ m < i + 1 /\ s[m] = Unlocking(k)
      <4>1. PICK m \in 1..Len(s) : 1 < m /\ m < i + 1 /\ s[m] = Unlocking(k)
        BY <3>2
      <4>2. m - 1 \in 1..n /\ m - 1 < i /\ Tail(s)[m - 1] = s[m]
        BY <1>2, <4>1
      <4> QED BY <4>1, <4>2
    <3> QED BY <2>1, <2>4, <3>1, <3>2
  <2> QED BY <2>3, <2>4
<1>7. Follows(x)'
  <2>1. ahead'[x] = Tail(s)
    BY <1>3
  <2> QED BY ZenonT(60), <1>5, <1>6, <2>1 DEF Follows, n
<1>8. ASSUME NEW y \in Caller, y # x
      PROVE  Follows(y)'
  <2>1. Follows(y)
    BY DEF LocksFollowed
  <2>2. ahead'[y] = ahead[y] /\ taken'[y] = taken[y]
    BY <1>3, <1>8
  <2> QED BY ONLY <2>1, <2>2 DEF Follows
<1> QED BY <1>4, <1>7, <1>8

\* Every goroutine keeps to the order of the locks.
THEOREM LocksOrdered == LockSpec => []LocksFollowed
<1>1. LockInit => LocksFollowed
  <2> SUFFICES ASSUME LockInit PROVE LocksFollowed
    OBVIOUS
  <2>1. \A x \in Caller : Follows(x)
    BY NothingAscends DEF LockInit, Follows
  <2> QED BY <2>1 DEF LockInit, LocksFollowed
<1>2. LocksFollowed /\ [LockNext]_kvars => LocksFollowed'
  <2> SUFFICES ASSUME LocksFollowed, [LockNext]_kvars PROVE LocksFollowed'
    OBVIOUS
  <2>1. ASSUME NEW x \in Caller, Enter(x)
        PROVE  LocksFollowed'
    <3>1. PICK h \in Holds : ahead' = [ahead EXCEPT ![x] = h]
      BY <2>1 DEF Enter
    <3>2. Ascends(h, 0) /\ h \in Seq(Step)
      BY HoldsAscend DEF Ascends
    <3>3. taken[x] = {}
      BY <2>1 DEF Enter, LocksFollowed, Follows
    <3>4. Follows(x)'
      BY <2>1, <3>1, <3>2, <3>3 DEF Enter, LocksFollowed, Follows
    <3>5. \A y \in Caller : y # x => Follows(y)'
      BY <2>1, <3>1 DEF Enter, LocksFollowed, Follows
    <3>6. \A y \in queued : y # x
      BY <2>1 DEF Enter, LocksFollowed
    <3> QED BY <2>1, <3>1, <3>2, <3>4, <3>5, <3>6 DEF Enter, LocksFollowed, Wants
  <2>2. ASSUME NEW x \in Caller, Lock(x)
        PROVE  LocksFollowed'
    <3>1. /\ ahead' \in [Caller -> Seq(Step)] /\ taken' \in [Caller -> SUBSET Step]
          /\ \A y \in Caller : Follows(y)'
      BY <2>2, StepFollows DEF Lock, LocksFollowed, Takes
    <3> QED BY <2>2, <3>1 DEF Lock, LocksFollowed, Wants
  <2>3. ASSUME NEW x \in Caller, Queue(x)
        PROVE  LocksFollowed'
    BY <2>3 DEF Queue, LocksFollowed, Follows, Wants
  <2>4. ASSUME NEW x \in Caller, Unlock(x)
        PROVE  LocksFollowed'
    <3>1. /\ ahead' \in [Caller -> Seq(Step)] /\ taken' \in [Caller -> SUBSET Step]
          /\ \A y \in Caller : Follows(y)'
      BY <2>4, StepFollows DEF Unlock, LocksFollowed, Takes
    <3>2. x \notin queued
      BY <2>4 DEF Unlock, LocksFollowed
    <3> QED BY <2>4, <3>1, <3>2 DEF Unlock, LocksFollowed, Wants
  <2>5. CASE UNCHANGED kvars
    BY <2>5 DEF kvars, LocksFollowed, Follows, Wants
  <2> QED BY <2>1, <2>2, <2>3, <2>4, <2>5 DEF LockNext
<1> QED BY <1>1, <1>2, PTL DEF LockSpec

\* Whoever has a lock that somebody waits for, and waits too, waits for a lock of a greater rank.
LEMMA HoldersWaitAbove ==
  ASSUME LocksFollowed, NEW y \in Caller, ahead[y] # <<>>, Blockers(y) # {},
         NEW lock, HasTaken(y, lock)
  PROVE  Rank(lock) < Rank(Wants(y).lock)
<1>1. PICK k \in taken[y] : k.lock = lock
  BY DEF HasTaken
<1>2. Takes(Wants(y))
  BY DEF Blockers, Takes
<1>3. ahead[y] \in Seq(Step) /\ Wants(y) = ahead[y][1] /\ 1 \in 1..Len(ahead[y])
  BY DEF LocksFollowed, Wants
<1>4. \/ Rank(k.lock) < Rank(ahead[y][1].lock)
      \/ \E j \in 1..Len(ahead[y]) : j < 1 /\ ahead[y][j] = Unlocking(k)
  BY <1>2, <1>3 DEF LocksFollowed, Follows
<1> QED BY <1>1, <1>3, <1>4

\* However many goroutines use however many lobbies, they never wait in a circle.
THEOREM LocksNeverDeadlock == LockSpec => []LocksNeverCircle
<1>1. LocksFollowed => LocksNeverCircle
  <2> SUFFICES ASSUME LocksFollowed, NEW S \in (SUBSET Caller) \ {{}},
                      \A x \in S : ahead[x] # <<>> /\ Blockers(x) \cap S # {}
               PROVE  FALSE
    BY DEF LocksNeverCircle
  <2>1. ASSUME NEW x \in S
        PROVE  \E y \in S : Rank(Wants(x).lock) < Rank(Wants(y).lock)
    <3>1. PICK y \in S : y \in Blockers(x)
      OBVIOUS
    <3>2. CASE HasTaken(y, Wants(x).lock)
      BY <3>2, HoldersWaitAbove
    <3>3. CASE y \in queued /\ Wants(y).lock = Wants(x).lock
      <4>1. PICK z \in S : z \in Blockers(y)
        OBVIOUS
      <4>2. HasTaken(z, Wants(y).lock)
        BY <3>3, <4>1 DEF LocksFollowed, Blockers
      <4> QED BY <3>3, <4>2, HoldersWaitAbove
    <3>4. HasTaken(y, Wants(x).lock) \/ (y \in queued /\ Wants(y).lock = Wants(x).lock)
      BY <3>1 DEF Blockers, HasTaken
    <3> QED BY <3>2, <3>3, <3>4
  <2> DEFINE rank(x) == Rank(Wants(x).lock)
  <2>2. \A x \in S : rank(x) \in 1..4
    BY RankType
  <2>3. \A x \in S : \E y \in S : rank(x) < rank(y)
    BY <2>1
  <2> HIDE DEF rank
  <2>4. PICK a \in S : TRUE
    OBVIOUS
  <2>5. PICK b \in S : rank(a) < rank(b)
    BY <2>3
  <2>6. PICK c \in S : rank(b) < rank(c)
    BY <2>3
  <2>7. PICK d \in S : rank(c) < rank(d)
    BY <2>3
  <2>8. PICK e \in S : rank(d) < rank(e)
    BY <2>3
  <2>9. /\ rank(a) \in 1..4 /\ rank(b) \in 1..4 /\ rank(c) \in 1..4 /\ rank(d) \in 1..4
        /\ rank(e) \in 1..4
    BY <2>2
  <2> QED BY <2>5, <2>6, <2>7, <2>8, <2>9
<1> QED BY <1>1, LocksOrdered, PTL

-----------------------------------------------------------------------------
(* The ssh sessions *)

\* What the account's seat goes through leaves the tracker and the handlers alone.
LobbyStep ==
  \/ \E s \in Session : TakeSeat(s) \/ LeaveLobby(s)
  \/ \E a \in Account : Manager(a)

\* Types hold in every reachable state.
THEOREM TypeCorrect == SessionsSpec => []SessionsTypeOK
<1>1. SessionsInit => SessionsTypeOK
  BY SessionsAssumption DEF SessionsInit, SessionsTypeOK, Stages
<1>2. SessionsTypeOK /\ [SessionsNext]_svars => SessionsTypeOK'
  <2> SUFFICES ASSUME SessionsTypeOK, [SessionsNext]_svars PROVE SessionsTypeOK'
    OBVIOUS
  <2> USE SessionsAssumption DEF SessionsTypeOK, Goes, Stages, Serving, Tearing
  <2>1. CASE LobbyStep
    BY <2>1 DEF LobbyStep, TakeSeat, LeaveLobby, Manager, MatchStarts, MatchEnds, IdleOut,
                Expire, GiveUp, Vacated, tracker, sessions
  <2>2. ASSUME NEW s \in Session, NEW a \in Account, Resume(s, a)
        PROVE  SessionsTypeOK'
    BY <2>2 DEF Resume, tracker
  <2>3. ASSUME NEW s \in Session, Connect(s) \/ ConnectFull(s) \/ HangUp(s)
        PROVE  SessionsTypeOK'
    BY <2>3 DEF Connect, ConnectFull, HangUp, tracker, lobby
  <2>4. ASSUME NEW s \in Session, Ends(s) \/ CheckOwner(s) \/ ReleaseSlot(s)
        PROVE  SessionsTypeOK'
    BY <2>4 DEF Ends, CheckOwner, ReleaseSlot, tracker, lobby
  <2>5. ASSUME NEW s \in Session, Disconnect(s) \/ Vacate(s)
        PROVE  SessionsTypeOK'
    BY <2>5 DEF Disconnect, Vacate, Vacated, tracker
  <2>6. CASE UNCHANGED svars
    BY <2>6 DEF svars, tracker, sessions, lobby
  <2> QED BY <2>1, <2>2, <2>3, <2>4, <2>5, <2>6 DEF SessionsNext, Handler, LobbyStep
<1> QED BY <1>1, <1>2, PTL DEF SessionsSpec

-----------------------------------------------------------------------------
(* The tracker *)

\* One slot more, one slot fewer, or another session in it: the count follows.
LEMMA OccupiedCount ==
  ASSUME SessionsTypeOK
  PROVE  /\ IsFiniteSet(Occupied)
         /\ Cardinality(Occupied) \in Nat
         /\ \A a \in Account : /\ Cardinality(Occupied \cup {a}) \in Nat
                               /\ Cardinality(Occupied \cup {a}) <= Cardinality(Occupied) + 1
<1>1. IsFiniteSet(Occupied) /\ Cardinality(Occupied) \in Nat
  BY SessionsAssumption, FS_Subset, FS_CardinalityType DEF Occupied
<1>2. ASSUME NEW a \in Account
      PROVE  /\ Cardinality(Occupied \cup {a}) \in Nat
             /\ Cardinality(Occupied \cup {a}) <= Cardinality(Occupied) + 1
  <2>1. CASE a \in Occupied
    <3>1. Occupied \cup {a} = Occupied
      BY <2>1
    <3>2. Cardinality(Occupied \cup {a}) = Cardinality(Occupied)
      BY <3>1, Zenon
    <3> QED BY <1>1, <3>2
  <2>2. CASE a \notin Occupied
    <3>1. Cardinality(Occupied \cup {a}) = Cardinality(Occupied) + 1
      BY <1>1, <2>2, FS_AddElement
    <3> QED BY <1>1, <3>1
  <2> QED BY <2>1, <2>2
<1> QED BY <1>1, <1>2

\* Every step but Connect leaves the count alone or lets it fall.
LEMMA CountStep ==
  ASSUME SessionsTypeOK, SessionsTypeOK', CountBounded, Occupied' \subseteq Occupied
  PROVE  CountBounded'
<1>1. /\ IsFiniteSet(Occupied) /\ Cardinality(Occupied) \in Nat
      /\ Cardinality(Occupied') \in Nat /\ Cardinality(Occupied') <= Cardinality(Occupied)
  BY OccupiedCount, FS_Subset, FS_CardinalityType
<1> QED BY <1>1, SessionsAssumption DEF CountBounded

\* The tracker's invariant, inductive: nobody can lose a slot without being told to go,
\* because whoever takes it knows whom it took it from.
THEOREM TrackerCorrect == SessionsSpec => []TrackerInv
<1>1. SessionsInit => TrackerInv
  <2> SUFFICES ASSUME SessionsInit PROVE TrackerInv
    OBVIOUS
  <2>1. Occupied = {}
    BY DEF SessionsInit, Occupied
  <2>2. Cardinality(Occupied) = 0
    BY <2>1, FS_EmptySet
  <2> QED BY <2>2, SessionsAssumption
      DEF SessionsInit, TrackerInv, SlotHasOwner, DisplacedSentAway, CountBounded, Serving
<1>2. SessionsTypeOK /\ SessionsTypeOK' /\ TrackerInv /\ [SessionsNext]_svars => TrackerInv'
  <2> SUFFICES ASSUME SessionsTypeOK, SessionsTypeOK', TrackerInv, [SessionsNext]_svars PROVE TrackerInv'
    OBVIOUS
  <2> USE DEF TrackerInv
  <2>1. CASE UNCHANGED <<tracker, sessions>>
    <3>1. CountBounded'
      BY <2>1 DEF tracker, CountBounded, Occupied
    <3> QED BY <2>1, <3>1 DEF tracker, sessions, SlotHasOwner, DisplacedSentAway, Owns, SentAway
  <2>2. ASSUME NEW s \in Session, NEW a \in Account, Resume(s, a)
        PROVE  TrackerInv'
    <3>1. CountBounded'
      BY <2>2 DEF Resume, tracker, CountBounded, Occupied
    <3>2. SlotHasOwner'
      BY <2>2 DEF Resume, tracker, Goes, SessionsTypeOK, SlotHasOwner, Serving, Tearing
    <3>3. DisplacedSentAway'
      BY <2>2 DEF Resume, tracker, Goes, SessionsTypeOK, DisplacedSentAway, Owns, SentAway, Serving
    <3> QED BY <3>1, <3>2, <3>3
  <2>3. ASSUME NEW s \in Session, Connect(s)
        PROVE  TrackerInv'
    <3> DEFINE a == user[s]
    <3>1. a \in Account /\ s # Nobody /\ progress[s] = "Built"
      BY <2>3, SessionsAssumption DEF Connect, SessionsTypeOK
    <3>2. Occupied' = Occupied \cup {a}
      BY <2>3, <3>1, SessionsAssumption DEF Connect, Occupied, SessionsTypeOK
    <3>3. CountBounded'
      <4>1. CASE active[a] # Nobody
        <5>1. Occupied' = Occupied
          BY <3>1, <3>2, <4>1 DEF Occupied
        <5> QED BY <5>1, CountStep
      <4>2. CASE active[a] = Nobody /\ MaxSessions # 0
        <5>1. Cardinality(Occupied) < MaxSessions
          BY <2>3, <4>2 DEF Connect, Admitted
        <5>2. /\ Cardinality(Occupied) \in Nat /\ Cardinality(Occupied \cup {a}) \in Nat
              /\ Cardinality(Occupied \cup {a}) <= Cardinality(Occupied) + 1
          BY <3>1, OccupiedCount
        <5>3. Cardinality(Occupied') = Cardinality(Occupied \cup {a})
          BY <3>2, Zenon
        <5>4. Cardinality(Occupied') <= MaxSessions
          BY <5>1, <5>2, <5>3, SessionsAssumption
        <5> QED BY <5>4 DEF CountBounded
      <4>3. CASE MaxSessions = 0
        BY <4>3 DEF CountBounded
      <4> QED BY <4>1, <4>2, <4>3
    <3>4. SlotHasOwner'
      BY <2>3, <3>1 DEF Connect, Goes, SessionsTypeOK, SlotHasOwner, Serving, Tearing
    <3>5. DisplacedSentAway'
      BY <2>3, <3>1, SessionsAssumption
      DEF Connect, Goes, SessionsTypeOK, SlotHasOwner, DisplacedSentAway, Owns, SentAway, Serving, Tearing
    <3> QED BY <3>3, <3>4, <3>5
  <2>4. ASSUME NEW s \in Session, ConnectFull(s) \/ Ends(s) \/ CheckOwner(s) \/ Disconnect(s) \/ Vacate(s)
        PROVE  TrackerInv'
    <3>1. UNCHANGED <<tracker, user>>
      BY <2>4 DEF ConnectFull, Ends, CheckOwner, Disconnect, Vacate, lobby
    <3>2. CountBounded'
      BY <3>1 DEF tracker, CountBounded, Occupied
    <3>3. SlotHasOwner'
      BY <2>4, <3>1 DEF ConnectFull, Ends, CheckOwner, Disconnect, Vacate, Goes, SessionsTypeOK, tracker,
                        SlotHasOwner, Owns, Serving, Tearing
    <3>4. DisplacedSentAway'
      BY <2>4, <3>1 DEF ConnectFull, Ends, CheckOwner, Disconnect, Vacate, Goes, SessionsTypeOK, tracker,
                        DisplacedSentAway, Owns, SentAway, Serving
    <3> QED BY <3>2, <3>3, <3>4
  <2>5. ASSUME NEW s \in Session, HangUp(s)
        PROVE  TrackerInv'
    <3>1. CountBounded'
      BY <2>5 DEF HangUp, CountBounded, Occupied
    <3>2. SlotHasOwner'
      BY <2>5 DEF HangUp, Goes, SessionsTypeOK, SlotHasOwner, Serving, Tearing
    <3>3. DisplacedSentAway'
      BY <2>5 DEF HangUp, Goes, SessionsTypeOK, DisplacedSentAway, Owns, SentAway, Serving
    <3> QED BY <3>1, <3>2, <3>3
  <2>6. ASSUME NEW s \in Session, ReleaseSlot(s)
        PROVE  TrackerInv'
    <3>1. Occupied' \subseteq Occupied
      BY <2>6 DEF ReleaseSlot, Occupied, SessionsTypeOK
    <3>2. SlotHasOwner'
      BY <2>6 DEF ReleaseSlot, Goes, SessionsTypeOK, SlotHasOwner, Owns, Serving, Tearing
    <3>3. DisplacedSentAway'
      BY <2>6, SessionsAssumption
      DEF ReleaseSlot, Goes, SessionsTypeOK, SlotHasOwner, DisplacedSentAway, Owns, SentAway, Serving, Tearing
    <3> QED BY <3>1, <3>2, <3>3, CountStep
  <2>7. CASE UNCHANGED svars
    BY <2>1, <2>7 DEF svars
  <2>8. CASE LobbyStep
    BY <2>1, <2>8 DEF LobbyStep, TakeSeat, LeaveLobby, Manager, MatchStarts, MatchEnds, IdleOut,
                      Expire, GiveUp
  <2> QED BY <2>2, <2>3, <2>4, <2>5, <2>6, <2>7, <2>8 DEF SessionsNext, Handler, LobbyStep
<1> QED BY <1>1, <1>2, TypeCorrect, PTL DEF SessionsSpec

\* A slot is never stranded, whatever order sessions connect, displace and end in; and
\* however far teardowns lag behind takeovers, the sessions nobody has hung up on keep
\* within one per account and within the server's capacity.
THEOREM TrackerKept == SessionsSpec => []TrackerSound
<1>1. SessionsTypeOK /\ TrackerInv => CapacityHolds
  <2> SUFFICES ASSUME SessionsTypeOK, TrackerInv PROVE CapacityHolds
    OBVIOUS
  <2>1. ASSUME NEW s \in Welcome
        PROVE  user[s] \in Occupied /\ active[user[s]] = s
    BY <2>1, SessionsAssumption
    DEF Welcome, TrackerInv, DisplacedSentAway, Owns, Occupied, SessionsTypeOK, Serving
  <2>2. \A r, s \in Welcome : user[r] = user[s] => r = s
    BY <2>1
  <2>3. ASSUME MaxSessions # 0
        PROVE  Cardinality(Welcome) <= MaxSessions
    <3> DEFINE f == [s \in Welcome |-> user[s]]
    <3>1. f \in Injection(Welcome, Occupied)
      BY <2>1, <2>2 DEF Injection, IsInjective
    <3> HIDE DEF f
    <3>2. IsFiniteSet(Occupied) /\ Cardinality(Occupied) \in Nat
      BY OccupiedCount
    <3>3. IsFiniteSet(Welcome) /\ Cardinality(Welcome) <= Cardinality(Occupied)
      BY <3>1, <3>2, FS_Injection
    <3>4. Cardinality(Welcome) \in Nat
      BY <3>3, FS_CardinalityType
    <3> QED BY <2>3, <3>2, <3>3, <3>4, SessionsAssumption DEF TrackerInv, CountBounded
  <2> QED BY <2>2, <2>3 DEF CapacityHolds
<1>2. TrackerInv => SlotHasOwner
  BY DEF TrackerInv
<1>3. SessionsTypeOK /\ TrackerInv => TrackerSound
  BY <1>1, <1>2 DEF TrackerSound
<1> QED BY <1>3, TypeCorrect, TrackerCorrect, PTL

-----------------------------------------------------------------------------
(* The seat *)

\* Whoever sits somewhere has a session that sees to the seat, a grace period that ends it,
\* was turned away, or sat down by a session that had lost its slot.
THEOREM SeatsMinded == SessionsSpec => []SeatMinded
<1>1. SessionsInit => SeatMinded
  BY DEF SessionsInit, SeatMinded
<1>2. SessionsTypeOK /\ SessionsTypeOK' /\ TrackerInv /\ SeatMinded /\ [SessionsNext]_svars => SeatMinded'
  <2> SUFFICES ASSUME SessionsTypeOK, SessionsTypeOK', TrackerInv, SeatMinded, [SessionsNext]_svars,
                      NEW a \in Account, a \notin stray', seat'[a] # "None", hold'[a] = "Off"
               PROVE  \E s \in Session : user'[s] = a /\ Minds(s)'
    BY DEF SeatMinded
  <2> USE DEF SessionsTypeOK, Goes
  <2>1. ASSUME NEW s \in Session, TakeSeat(s)
        PROVE  \E r \in Session : user'[r] = a /\ Minds(r)'
    BY <2>1 DEF TakeSeat, SeatMinded, Minds, Owns, Serving, tracker, sessions
  <2>2. ASSUME NEW s \in Session, LeaveLobby(s)
        PROVE  \E r \in Session : user'[r] = a /\ Minds(r)'
    BY <2>2 DEF LeaveLobby, Vacated, SeatMinded, Minds, Owns, tracker, sessions
  <2>3. ASSUME NEW b \in Account, Manager(b)
        PROVE  \E r \in Session : user'[r] = a /\ Minds(r)'
    BY <2>3 DEF Manager, MatchStarts, MatchEnds, IdleOut, Expire, GiveUp, Vacated, SeatMinded, Minds,
                Owns, tracker, sessions
  <2>4. ASSUME NEW s \in Session, NEW b \in Account, Resume(s, b)
        PROVE  \E r \in Session : user'[r] = a /\ Minds(r)'
    <3>1. CASE a = b
      BY <2>4, <3>1 DEF Resume, Minds
    <3>2. CASE a # b
      BY <2>4, <3>2 DEF Resume, SeatMinded, Minds, Owns, Serving, tracker
    <3> QED BY <3>1, <3>2
  <2>5. ASSUME NEW s \in Session, Connect(s)
        PROVE  \E r \in Session : user'[r] = a /\ Minds(r)'
    <3>1. CASE user[s] = a
      BY <2>5, <3>1 DEF Connect, Minds, Owns, Serving
    <3>2. CASE user[s] # a
      BY <2>5, <3>2 DEF Connect, SeatMinded, Minds, Owns, Serving, lobby
    <3> QED BY <3>1, <3>2
  <2>6. ASSUME NEW s \in Session, ConnectFull(s) \/ HangUp(s) \/ Ends(s)
        PROVE  \E r \in Session : user'[r] = a /\ Minds(r)'
    BY <2>6 DEF ConnectFull, HangUp, Ends, SeatMinded, Minds, Owns, Serving, tracker, lobby
  <2>7. ASSUME NEW s \in Session, CheckOwner(s)
        PROVE  \E r \in Session : user'[r] = a /\ Minds(r)'
    BY <2>7 DEF CheckOwner, SeatMinded, Minds, Owns, Serving, tracker, lobby
  <2>8. ASSUME NEW s \in Session, Disconnect(s)
        PROVE  \E r \in Session : user'[r] = a /\ Minds(r)'
    BY <2>8 DEF Disconnect, SeatMinded, Minds, Owns, Serving, tracker
  <2>9. ASSUME NEW s \in Session, Vacate(s)
        PROVE  \E r \in Session : user'[r] = a /\ Minds(r)'
    BY <2>9 DEF Vacate, Vacated, SeatMinded, Minds, Owns, Serving, tracker
  <2>10. ASSUME NEW s \in Session, ReleaseSlot(s)
         PROVE  \E r \in Session : user'[r] = a /\ Minds(r)'
    BY <2>10 DEF ReleaseSlot, SeatMinded, Minds, Owns, Serving, lobby
  <2>11. CASE UNCHANGED svars
    BY <2>11 DEF svars, tracker, sessions, lobby, SeatMinded, Minds, Owns
  <2> QED BY <2>1, <2>2, <2>3, <2>4, <2>5, <2>6, <2>7, <2>8, <2>9, <2>10, <2>11 DEF SessionsNext, Handler
<1> QED BY <1>1, <1>2, TypeCorrect, TrackerCorrect, PTL DEF SessionsSpec

\* The same in the words of the comments on takeover and grace.
THEOREM SeatsAccountedFor == SessionsSpec => []SeatAccounted
<1>1. SessionsTypeOK /\ SeatMinded => SeatAccounted
  BY DEF SessionsTypeOK, SeatMinded, SeatAccounted, Minds, Attended, Serving, Tearing
<1> QED BY <1>1, TypeCorrect, SeatsMinded, PTL

=============================================================================
