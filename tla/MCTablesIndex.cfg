\* A seat at a new table before the old one is removed.
INIT Init
NEXT Next
CONSTANTS
  Player = {p1, p2}
  Table = {t1, t2}
  Game = {g1}
  None = None
  MaxPlayers = 2
  Endings = {"Win"}
  MaxDrops = 0
  Deploys = FALSE
SYMMETRY MCSymmetry
CHECK_DEADLOCK FALSE
INVARIANTS IndexAgrees
