--------------------------------- MODULE Elo ---------------------------------
(***************************************************************************)
(* The rating mathematics (internal/elo/elo.go).  A table is scored pair   *)
(* by pair down the standings: each pair of neighbours moves some rating   *)
(* from one to the other.                                                  *)
(*                                                                         *)
(* The code computes in float64 and stores whole points.  Here a point has *)
(* Unit parts, and everything before the last rounding is a whole number   *)
(* of parts.  The logistic curve is a parameter: KFactor times             *)
(* expectedScore, in parts, of a difference in parts.                      *)
(***************************************************************************)
EXTENDS Integers, Sequences, FiniteSets

CONSTANTS
  MinRating, MaxRating, DefaultRating, (* in points                           *)
  KFactor,                             (* the most one pair can move, in points *)
  Unit,                                (* the parts of a point                *)
  Expected(_)                          (* what the upper of a pair should score *)

ASSUME EloAssumption ==
  /\ MinRating \in Nat /\ DefaultRating \in Nat /\ MaxRating \in Nat
  /\ MinRating <= DefaultRating /\ DefaultRating <= MaxRating
  /\ KFactor \in Nat
  /\ Unit \in Nat \ {0}

\* How far two ratings can be apart, in parts.
Apart == (MaxRating - MinRating) * Unit

ASSUME ExpectedAssumption == \A d \in -Apart..Apart : Expected(d) \in 0..(KFactor * Unit)

Larger(a, b)  == IF a >= b THEN a ELSE b
Smaller(a, b) == IF a <= b THEN a ELSE b

Lowest  == MinRating * Unit
Highest == MaxRating * Unit

ClampRating(rating) == Smaller(Larger(rating, Lowest), Highest)

\* ToUint32: to the nearest point, halves away from zero.
Points(rating) == (2 * ClampRating(rating) + Unit) \div (2 * Unit)

Drew(a, b) == a.place = b.place

RawTransfer(upper, lower) ==
  (IF Drew(upper, lower) THEN (KFactor * Unit) \div 2 ELSE KFactor * Unit)
    - Expected(upper.rating - lower.rating)

\* Mutant: the room left is looked up on one side only.
CapOneSide(moved, gains, loses) ==
  IF moved < 0 THEN -Smaller(-moved, Larger(Highest - loses, 0))
               ELSE Smaller(moved, Larger(Highest - gains, 0))

\* No more moves than one can still gain and the other still lose.
CapTransfer(moved, gains, loses) ==
  IF moved < 0
  THEN -Smaller(Smaller(-moved, Larger(Highest - loses, 0)), Larger(gains - Lowest, 0))
  ELSE Smaller(Smaller(moved, Larger(Highest - gains, 0)), Larger(loses - Lowest, 0))

\* unpaidAgainstProvisional, for one side: an established player never gains from a
\* provisional one.
Paid(me, other, change) ==
  IF ~me.provisional /\ other.provisional THEN Smaller(change, 0) ELSE change

\* normalizeTies: neighbours who share a place are ordered by rating, then by id.
Ordered(players) ==
  LET Tied(i, j)   == \A k \in Smaller(i, j)..Larger(i, j) : players[k].place = players[i].place
      Before(i, j) == IF ~Tied(i, j) THEN i < j
                      ELSE \/ players[i].rating > players[j].rating
                           \/ players[i].rating = players[j].rating /\ players[i].id < players[j].id
      Position(i)  == Cardinality({j \in DOMAIN players : j = i \/ Before(j, i)})
  IN [k \in DOMAIN players |-> players[CHOOSE i \in DOMAIN players : Position(i) = k]]

\* What the pair of seats i and i + 1 moves upwards; seat i has already gained that much.
Moved(table, i, gained) ==
  CapTransfer(RawTransfer(table[i], table[i + 1]), table[i].rating + gained, table[i + 1].rating)

\* What each seat gains from the one above it, down a normalised table.
FromAbove(table) ==
  LET from[i \in DOMAIN table] ==
        IF i = 1 THEN 0 ELSE Paid(table[i], table[i - 1], -Moved(table, i - 1, from[i - 1]))
  IN from

FromBelow(table, i) ==
  IF i = Len(table) THEN 0 ELSE Paid(table[i], table[i + 1], Moved(table, i, FromAbove(table)[i]))

\* Calculate: the new rating of each seat of a normalised table.
Calculate(table) ==
  [i \in DOMAIN table |-> ClampRating(table[i].rating + FromAbove(table)[i] + FromBelow(table, i))]
==============================================================================
