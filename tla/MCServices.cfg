\* Three sessions of two accounts with one slot, or three finalizes and an erasure over three connections.
SPECIFICATION MCSpec
CONSTANTS
  None = None
  Nobody = Nobody
  Account = {a1, a2}
  Session = {s1, s2, s3}
  MaxSessions = 1
  poker = poker
  hearts = hearts
  t1 = t1
  t2 = t2
  t3 = t3
  User = {1, 2, 3}
  Game = {poker, hearts}
  Tx = {t1, t2, t3}
  Results <- MCResults
  Ladders <- MCLadders
  Expected <- MCExpected
  MinRating = 0
  MaxRating = 6
  DefaultRating = 3
  KFactor = 3
  Unit = 5
  Conns = 3
  PairCap = 1
  Provisional = 1
  Leavers = {1}
INVARIANTS TrackerSound SeatAccounted CapHolds TransfersSound NoCircularWait
PROPERTIES DisplacedEnds LadderFollowsHistory
CONSTRAINT MCInOrder
CHECK_DEADLOCK FALSE
