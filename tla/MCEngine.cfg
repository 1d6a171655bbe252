\* Two seats and two calls from sessions: the races between a call and the clock.
CONSTANTS
  p1 = p1
  p2 = p2
  p3 = p3
  None = None
  Player = {p1, p2}
  Seating <- TwoSeats
  MaxMissedTurns = 2
  Overrides <- MCBefore
  MaxCalls = 2
SPECIFICATION Spec
INVARIANTS
  TurnFence
  TurnIsTimed
PROPERTIES
  OnlyIdleRemoved
  NoDoublePlay
  EndIsLastEvent
  SilentTableEnds
CHECK_DEADLOCK FALSE
