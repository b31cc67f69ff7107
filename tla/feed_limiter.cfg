SPECIFICATION LimiterSpec
CONSTANTS
  c1 = c1
  c2 = c2
  c3 = c3
  c4 = c4
  NoClient = NoClient
  Clients = {c1, c2, c3, c4}
  RATE_WINDOW = 1
  LOCKOUT = 3
  MAX_PER_IP = 1
  MAX_GLOBAL = 2
  THRESHOLD = 2
  MAX_TRACKED_IPS = 2
  FEED_LIMIT_CONCURRENCY = 2
SYMMETRY MCSymmetry
INVARIANTS LockoutEndsAsTold MissesLockOut
PROPERTIES LockoutHolds TableIsBounded
