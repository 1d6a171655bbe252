------------------------------ MODULE Limiter ------------------------------
(***************************************************************************)
(* The sliding-window limiter in front of SSH authentication,              *)
(* registration, joins by code and the HTTP API                            *)
(* (internal/ratelimit/limiter.go).  Time passes in ticks and a timestamp  *)
(* is an age: it is in the window while the age is below Window, and no    *)
(* age beyond that matters.  A slice of timestamps is a function from the  *)
(* numbers of its admissions to their ages: the code filters a slice and   *)
(* measures it, and never looks at its order.                              *)
(***************************************************************************)
EXTENDS Integers, FiniteSets

CONSTANTS
  Key,         (* networks or players            *)
  Limit,       (* admissions per window and key  *)
  Window,      (* the window, in ticks           *)
  MaxKeys,     (* keys that are tracked          *)
  SweepEvery   (* admissions between two sweeps  *)

ASSUME LimiterAssumption ==
  Limit \in Nat /\ Window \in Nat \ {0} /\ MaxKeys \in Nat \ {0} /\ SweepEvery \in Nat \ {0}

VARIABLES
  logs,     (* the ages of each tracked key's admissions *)
  ops,      (* admissions, modulo SweepEvery             *)
  granted   (* history: the ages of all of each key's    *)

lvars == <<logs, ops, granted>>

NoAdmissions == [n \in {} |-> 0]

LimiterInit ==
  /\ logs = [k \in {} |-> NoAdmissions]
  /\ ops = 0
  /\ granted = [k \in Key |-> NoAdmissions]

\* Mutant: a timestamp expires a tick early.
ShortWindow(age) == age + 1 < Window

InWindow(age) == age < Window

\* filterExpired
Unexpired(ages) == [n \in {m \in DOMAIN ages : InWindow(ages[m])} |-> ages[n]]

Size(ages) == Cardinality(DOMAIN ages)

Log(k) == IF k \in DOMAIN logs THEN logs[k] ELSE NoAdmissions

\* evictExpiredLocked, on every SweepEvery-th admission.
Swept(table) ==
  [k \in {q \in DOMAIN table : Size(Unexpired(table[q])) # 0} |-> Unexpired(table[k])]

Kept(table) == IF (ops + 1) % SweepEvery = 0 THEN Swept(table) ELSE table

Without(table, k) == [q \in DOMAIN table \ {k} |-> table[q]]

With(table, k, ages) == [q \in DOMAIN table \cup {k} |-> IF q = k THEN ages ELSE table[q]]

\* The key's own expired entries go first, whatever the answer.
Pruned(k) ==
  IF Size(Unexpired(Log(k))) = 0 THEN Without(logs, k) ELSE With(logs, k, Unexpired(Log(k)))

Refuse(k) ==
  /\ Size(Unexpired(Log(k))) >= Limit
  /\ logs' = Pruned(k)
  /\ UNCHANGED <<ops, granted>>

\* A key that would be one too many takes the place of another one, any other one.
Rooms(k) ==
  IF k \notin DOMAIN Pruned(k) /\ Cardinality(DOMAIN Pruned(k)) >= MaxKeys
  THEN {Without(Pruned(k), v) : v \in DOMAIN Pruned(k)}
  ELSE {Pruned(k)}

\* A number that no admission of the key has, in its log or in its history.
NewNumber(k) == CHOOSE n \in 0..Size(granted[k]) : n \notin DOMAIN granted[k]

Admit(k) ==
  /\ Size(Unexpired(Log(k))) < Limit
  /\ \E table \in Rooms(k) :
       /\ logs' = Kept(With(table, k, With(Unexpired(Log(k)), NewNumber(k), 0)))
       \* A key that is evicted starts over: its history does, too.
       /\ granted' = [q \in Key |-> IF q = k THEN With(granted[k], NewNumber(k), 0)
                                    ELSE IF q \in DOMAIN Pruned(k) \ DOMAIN table
                                    THEN NoAdmissions ELSE granted[q]]
  /\ ops' = (ops + 1) % SweepEvery

Older(ages) == [n \in DOMAIN ages |-> IF ages[n] < Window THEN ages[n] + 1 ELSE Window]

\* The history keeps what the window covers, however the limiter filters its logs.
Recent(ages) == [n \in {m \in DOMAIN ages : ages[m] + 1 < Window} |-> ages[n] + 1]

Tick ==
  /\ logs' = [k \in DOMAIN logs |-> Older(logs[k])]
  /\ granted' = [k \in Key |-> Recent(granted[k])]
  /\ UNCHANGED ops

LimiterNext == Tick \/ \E k \in Key : Admit(k) \/ Refuse(k)

LimiterSpec == LimiterInit /\ [][LimiterNext]_lvars

\* Sweeps, pruning and eviction never let a key that was not evicted through more than Limit
\* times in a window, never make it wait for an admission that is out of the window, and the
\* table never tracks more than MaxKeys keys.
LimitHolds ==
  /\ \A k \in Key : /\ Size(granted[k]) <= Limit
                    /\ Unexpired(Log(k)) = granted[k]
  /\ Cardinality(DOMAIN logs) <= MaxKeys
=============================================================================
