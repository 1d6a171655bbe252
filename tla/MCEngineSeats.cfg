\* Three seats and one call from a session: seats, cursor and standings as players leave.
CONSTANTS
  p1 = p1
  p2 = p2
  p3 = p3
  None = None
  Player = {p1, p2, p3}
  Seating <- ThreeSeats
  MaxMissedTurns = 2
  Overrides = {3}
  MaxCalls = 1
SPECIFICATION Spec
INVARIANTS
  ResultSound
PROPERTIES
  TurnSurvivesLeave
  KeepsPromise
CHECK_DEADLOCK FALSE
