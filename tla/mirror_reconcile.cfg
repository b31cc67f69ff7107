SPECIFICATION Spec
CONSTANTS
  f1 = f1
  f2 = f2
  k1 = k1
  k2 = k2
  A = A
  B = B
  cA = cA
  cB = cB
  NoCopy = NoCopy
  NoEtag = NoEtag
  Null = Null
  NoUrl = NoUrl
  Keys = {k1}
  Slots = {"own", "dup"}
  Vals = {"v1"}
  MaxEdits = 1
  Feeds = {f1, f2}
  Calendars = {A}
  Cols = {cA, cB}
  KeyFeed <- MCKeyFeed
  MaxAttempts = 1
  MaxFaults = 1
  AdminMidRun = FALSE
  SilentPut = FALSE
  CanMove = TRUE
  CanExpire = FALSE
  CanRepoint = TRUE
  LongOutage = TRUE
SYMMETRY CalendarSymmetry
INVARIANTS TypeOK CleanRunReconciles
PROPERTY GuardedDeletes
