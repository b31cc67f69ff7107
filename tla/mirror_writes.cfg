SPECIFICATION Spec
CONSTANTS
  f1 = f1
  f2 = f2
  k1 = k1
  k2 = k2
  A = A
  B = B
  cA = cA
  cB = cB
  NoCopy = NoCopy
  NoEtag = NoEtag
  Null = Null
  NoUrl = NoUrl
  Keys = {k1}
  Slots = {"own"}
  Vals = {"v1", "v2"}
  MaxEdits = 2
  Feeds = {f1}
  Calendars = {A}
  Cols = {cA}
  KeyFeed <- MCKeyFeed
  MaxAttempts = 1
  MaxFaults = 0
  AdminMidRun = TRUE
  SilentPut = TRUE
  CanMove = TRUE
  CanExpire = TRUE
  CanRepoint = FALSE
  LongOutage = FALSE
INVARIANT CopyMatchesSource
PROPERTY NoClobberedEdit
