\* The same with one property: what a full server does to a held seat.
INIT SessionsInit
NEXT SessionsNext
CONSTANTS
  Account = {a1, a2}
  Session = {s1, s2, s3}
  Nobody = Nobody
  MaxSessions = 1
SYMMETRY MCSymmetry
INVARIANTS GraceLimitsAbsence
CHECK_DEADLOCK FALSE
