\* A finalize and an erasure at the same time.
INIT Init
NEXT Next
CONSTANTS
  poker = poker
  hearts = hearts
  None = None
  t1 = t1
  t2 = t2
  t3 = t3
  User = {1, 2, 3}
  Game = {poker, hearts}
  Tx = {t1, t2, t3}
  Results <- MCResults
  Ladders <- MCLadders
  Expected <- MCExpected
  MinRating = 0
  MaxRating = 6
  DefaultRating = 3
  KFactor = 3
  Unit = 5
  Conns = 2
  PairCap = 1
  Provisional = 1
  Leavers = {1}
INVARIANTS ErasedStaysErased
CONSTRAINT MCInOrder
CHECK_DEADLOCK FALSE
