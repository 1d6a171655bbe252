\* Two matches and two drops: a timer that nothing points at any more.
INIT Init
NEXT Next
CONSTANTS
  Player = {p1, p2}
  Table = {t1}
  Game = {g1, g2}
  None = None
  MaxPlayers = 2
  Endings = {"Win"}
  MaxDrops = 2
  Deploys = FALSE
SYMMETRY MCSymmetry
CONSTRAINT MCOneCall
CHECK_DEADLOCK FALSE
PROPERTIES GraceRunsOut
