\* A second table, broken rules, or drops and a shutdown, at any point of a match.
INIT Init
NEXT Next
CONSTANTS
  Player = {p1, p2}
  Table = {t1, t2}
  Game = {g1}
  None = None
  MaxPlayers = 2
  Endings = {"Win", "RulesError"}
  MaxDrops = 2
  Deploys = TRUE
SYMMETRY MCSymmetry
CONSTRAINT MCScope
CHECK_DEADLOCK FALSE
INVARIANTS IndexSound SeatsFollowRoster HeldOnlyMidHand ExpiryClaimed NoHoldAfterDrain InterruptedUnrated
