\* One account, unlimited slots: a takeover in the middle of a teardown.
INIT SessionsInit
NEXT SessionsNext
CONSTANTS
  Account = {a1}
  Session = {s1, s2}
  Nobody = Nobody
  MaxSessions = 0
PROPERTIES TeardownSparesReplacement
CHECK_DEADLOCK FALSE
