\* One match and one drop under fairness: every announced end and every held seat is seen to.
SPECIFICATION LiveSpec
CONSTANTS
  Player = {p1, p2}
  Table = {t1}
  Game = {g1}
  None = None
  MaxPlayers = 2
  Endings = {"Win"}
  MaxDrops = 1
  Deploys = FALSE
CHECK_DEADLOCK FALSE
PROPERTIES AnnouncedEndSettles HeldSeatResolves
