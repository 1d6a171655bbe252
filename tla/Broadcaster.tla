---------------------------- MODULE Broadcaster ----------------------------
(***************************************************************************)
(* The event feed of a table or a lobby (internal/broadcaster): every      *)
(* subscriber has a buffered channel, and a broadcast that finds one full  *)
(* throws its oldest event away.  Broadcast, Subscribe, Unsubscribe and    *)
(* Close hold one lock; a subscriber receives without it, so it may drain  *)
(* its channel between any two steps of a broadcast.                       *)
(***************************************************************************)
EXTENDS Integers, Sequences, FiniteSets, SequencesExt

CONSTANTS
  Subscriber,
  Sender,          (* goroutines that broadcast                *)
  Buffer,          (* subscriberBuffer: 256 in the code        *)
  MaxSubscribers,
  MaxMessages,     (* bound: messages are numbered up to this  *)
  NoOne            (* no subscriber                            *)

ASSUME BufferAssumption == Buffer \in Nat \ {0}

VARIABLES
  chan,    (* what is buffered for each subscriber in the map            *)
  shut,    (* Broadcaster.closed                                         *)
  calls,   (* the broadcasts under way: [msg, todo, stage, at] by sender *)
  sent     (* how many messages were broadcast                           *)

cvars == <<chan, shut, calls, sent>>

Subscribed == DOMAIN chan

Calling == DOMAIN calls

BroadcasterInit ==
  /\ chan = [s \in {} |-> <<>>]
  /\ shut = FALSE
  /\ calls = [x \in {} |-> <<>>]
  /\ sent = 0

LockFree == Calling = {}

Subscribe(s) ==
  /\ LockFree /\ ~shut
  /\ s \notin Subscribed
  /\ Cardinality(Subscribed) < MaxSubscribers
  /\ chan' = [q \in Subscribed \cup {s} |-> IF q = s THEN <<>> ELSE chan[q]]
  /\ UNCHANGED <<shut, calls, sent>>

Unsubscribe(s) ==
  /\ LockFree /\ s \in Subscribed
  /\ chan' = [q \in Subscribed \ {s} |-> chan[q]]
  /\ UNCHANGED <<shut, calls, sent>>

Close ==
  /\ LockFree /\ ~shut
  /\ shut' = TRUE
  /\ chan' = [s \in {} |-> <<>>]
  /\ UNCHANGED <<calls, sent>>

\* The subscriber takes its oldest event: the lock is not needed for that.
Receive(s) ==
  /\ s \in Subscribed /\ chan[s] # <<>>
  /\ chan' = [chan EXCEPT ![s] = Tail(@)]
  /\ UNCHANGED <<shut, calls, sent>>

-----------------------------------------------------------------------------
(* Broadcast: the map is walked in any order, one subscriber at a time. *)

Full(s) == Len(chan[s]) >= Buffer

Begin(x) ==
  /\ LockFree /\ ~shut
  /\ x \notin Calling
  /\ sent < MaxMessages
  /\ sent' = sent + 1
  /\ calls' = [y \in Calling \cup {x} |->
                 IF y = x THEN [msg |-> sent + 1, todo |-> Subscribed,
                                stage |-> "try", at |-> NoOne]
                 ELSE calls[y]]
  /\ UNCHANGED <<chan, shut>>

Deliver(x, s) ==
  /\ chan' = [chan EXCEPT ![s] = Append(@, calls[x].msg)]
  /\ calls' = [calls EXCEPT ![x].todo = @ \ {s}, ![x].stage = "try", ![x].at = NoOne]
  /\ UNCHANGED <<shut, sent>>

TrySend(x, s) ==
  /\ x \in Calling /\ calls[x].stage = "try" /\ s \in calls[x].todo
  /\ \/ ~Full(s) /\ Deliver(x, s)
     \/ /\ Full(s)
        /\ calls' = [calls EXCEPT ![x].stage = "drain", ![x].at = s]
        /\ UNCHANGED <<chan, shut, sent>>

\* Mutant: the newest event makes room.
WithoutNewest(queue) == IF queue = <<>> THEN <<>> ELSE Front(queue)

\* The oldest event makes room, unless the subscriber has just taken everything.
WithoutOldest(queue) == IF queue = <<>> THEN <<>> ELSE Tail(queue)

MakeRoom(x) ==
  /\ x \in Calling /\ calls[x].stage = "drain"
  /\ chan' = [chan EXCEPT ![calls[x].at] = WithoutOldest(@)]
  /\ calls' = [calls EXCEPT ![x].stage = "resend"]
  /\ UNCHANGED <<shut, sent>>

\* This send has no default: a full channel would hold it, and the lock, up.
Resend(x) ==
  /\ x \in Calling /\ calls[x].stage = "resend"
  /\ ~Full(calls[x].at)
  /\ Deliver(x, calls[x].at)

Return(x) ==
  /\ x \in Calling /\ calls[x].stage = "try" /\ calls[x].todo = {}
  /\ calls' = [y \in Calling \ {x} |-> calls[y]]
  /\ UNCHANGED <<chan, shut, sent>>

BroadcasterNext ==
  \/ Close
  \/ \E s \in Subscriber : Subscribe(s) \/ Unsubscribe(s) \/ Receive(s)
  \/ \E x \in Sender : \/ Begin(x) \/ MakeRoom(x) \/ Resend(x) \/ Return(x)
                       \/ \E s \in Subscriber : TrySend(x, s)

BroadcasterSpec == BroadcasterInit /\ [][BroadcasterNext]_cvars

-----------------------------------------------------------------------------
\* The last message meant for s so far: a broadcast that has yet to reach s is not over.
LastFor(s) == IF \E x \in Calling : s \in calls[x].todo THEN sent - 1 ELSE sent

\* A subscriber that cannot keep up loses its oldest events only: what is left for it is
\* always the latest run of events, in order and without a hole, so the end of a match
\* cannot be lost to an event that came before it.
NewestKept ==
  \A s \in Subscribed, i \in 1..Buffer :
    i <= Len(chan[s]) => chan[s][i] = LastFor(s) - Len(chan[s]) + i

\* The send after the oldest event made room never finds the buffer full: nobody can refill
\* it, so a stuck subscriber never stops a broadcast, or the table behind it.
SendHasRoom ==
  \A x \in Calling : calls[x].stage = "resend" => ~Full(calls[x].at)
=============================================================================
