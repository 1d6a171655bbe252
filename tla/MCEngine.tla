------------------------------ MODULE MCEngine ------------------------------
(* Engine on small tables, for TLC. *)
EXTENDS Engine

CONSTANTS p1, p2, p3

TwoSeats   == <<p1, p2>>
ThreeSeats == <<p1, p2, p3>>

\* A seat before the first one.
MCBefore == {-1}
=============================================================================
