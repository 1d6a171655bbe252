------------------------------- MODULE Browse -------------------------------
(***************************************************************************)
(* The list of public tables (internal/lobby/manager.go,                   *)
(* getCachedPublicLobbies): a cache that anything which changes the tables *)
(* on offer marks dirty, and that a browse which finds it dirty or old     *)
(* scans anew.  A scan takes the set of lobbies in one hold of the         *)
(* manager's lock, reads each of them under its own lock, and stores what  *)
(* it found in another hold of the manager's.                              *)
(***************************************************************************)
EXTENDS FiniteSets

CONSTANTS
  Lobby,    (* lobbies that may be opened *)
  Browser   (* sessions that may browse   *)

VARIABLES
  open,      (* Manager.lobbies                                            *)
  offered,   (* lobbies that are public and waiting                        *)
  dirty,     (* Manager.cacheDirty                                         *)
  old,       (* the cache is older than publicLobbyCacheTTL                *)
  cached,    (* Manager.cachedPublicLobbies                                *)
  scans,     (* the scans under way: [todo, found, alone] of each browser  *)
  sound      (* history: no other scan overlapped the one that was stored  *)

bvars == <<open, offered, dirty, old, cached, scans, sound>>

Scanning == DOMAIN scans

Fresh == [todo |-> {}, found |-> {}, alone |-> TRUE]

BrowseInit ==
  /\ open = {} /\ offered = {}
  /\ dirty = FALSE /\ old = TRUE /\ cached = {}
  /\ scans = [b \in {} |-> Fresh]
  /\ sound = TRUE

-----------------------------------------------------------------------------
(* The tables.  Each of these writes marks the cache dirty in the same hold. *)

\* New: the table may be private.
OpenLobby(t) ==
  /\ t \notin open
  /\ open' = open \cup {t}
  /\ offered' \in {offered, offered \cup {t}}
  /\ dirty' = TRUE
  /\ UNCHANGED <<old, cached, scans, sound>>

\* withLeaderSettings and setStateLocked: visibility, the start and the end of a match, and
\* the closing of a table nobody is left at.
Offer(t, shown) ==
  /\ t \in open
  /\ offered' = IF shown THEN offered \cup {t} ELSE offered \ {t}
  /\ dirty' = TRUE
  /\ UNCHANGED <<open, old, cached, scans, sound>>

\* RemoveLobby, of a table that was closed before.
RemoveLobby(t) ==
  /\ t \in open \ offered
  /\ open' = open \ {t}
  /\ dirty' = TRUE
  /\ UNCHANGED <<offered, old, cached, scans, sound>>

\* Two seconds go by.
Age ==
  /\ ~old
  /\ old' = TRUE
  /\ UNCHANGED <<open, offered, dirty, cached, scans, sound>>

-----------------------------------------------------------------------------
(* A browse that misses the cache *)

\* The flag goes down in the hold that takes the set of lobbies.
StartScan(b) ==
  /\ b \notin Scanning
  /\ dirty \/ old
  /\ dirty' = FALSE
  /\ scans' = [c \in Scanning \cup {b} |->
                 IF c = b THEN [Fresh EXCEPT !.todo = open, !.alone = Scanning = {}]
                 ELSE [scans[c] EXCEPT !.alone = FALSE]]
  /\ UNCHANGED <<open, offered, old, cached, sound>>

ReadLobby(b, t) ==
  /\ b \in Scanning /\ t \in scans[b].todo
  /\ scans' = [scans EXCEPT ![b].todo = @ \ {t},
                            ![b].found = IF t \in offered THEN @ \cup {t} ELSE @]
  /\ UNCHANGED <<open, offered, dirty, old, cached, sound>>

\* Mutant: the flag goes down once the list is stored.
Lowered(flag) == FALSE

FlagAfterStore(flag) == flag

StoreList(b) ==
  /\ b \in Scanning /\ scans[b].todo = {}
  /\ cached' = scans[b].found
  /\ old' = FALSE
  /\ dirty' = FlagAfterStore(dirty)
  /\ sound' = scans[b].alone
  /\ scans' = [c \in Scanning \ {b} |-> scans[c]]
  /\ UNCHANGED <<open, offered>>

BrowseNext ==
  \/ \E t \in Lobby : OpenLobby(t) \/ RemoveLobby(t) \/ Offer(t, TRUE) \/ Offer(t, FALSE)
  \/ Age
  \/ \E b \in Browser : \/ StartScan(b) \/ StoreList(b)
                        \/ \E t \in Lobby : ReadLobby(b, t)

BrowseSpec == BrowseInit /\ [][BrowseNext]_bvars

-----------------------------------------------------------------------------
BrowseTypeOK ==
  /\ open \subseteq Lobby /\ offered \subseteq open
  /\ dirty \in BOOLEAN /\ old \in BOOLEAN /\ sound \in BOOLEAN
  /\ cached \subseteq Lobby
  /\ Scanning \subseteq Browser
  /\ scans \in [Scanning -> [todo : SUBSET Lobby, found : SUBSET Lobby, alone : BOOLEAN]]

\* No invalidation is lost: once no scan is under way, a browse that is served from the cache
\* sees exactly the tables on offer - provided no other scan overlapped the one that filled
\* it.  Two scans that overlap may store an older list over a newer one, with the flag down.
InvalidationSticks ==
  ~dirty /\ ~old /\ sound /\ Scanning = {} => cached = offered
=============================================================================
