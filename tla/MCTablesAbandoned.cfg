\* Everybody leaves a running match: its watcher finds it over and does not know why.
INIT Init
NEXT Next
CONSTANTS
  Player = {p1, p2}
  Table = {t1}
  Game = {g1}
  None = None
  MaxPlayers = 2
  Endings = {"Win"}
  MaxDrops = 0
  Deploys = FALSE
SYMMETRY MCSymmetry
CHECK_DEADLOCK FALSE
INVARIANTS AbandonedUnrated
