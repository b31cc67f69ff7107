SPECIFICATION Spec
CONSTANTS
  f1 = f1
  f2 = f2
  k1 = k1
  k2 = k2
  A = A
  B = B
  cA = cA
  cB = cB
  NoCopy = NoCopy
  NoEtag = NoEtag
  Null = Null
  NoUrl = NoUrl
  Keys = {k1}
  Slots = {"own"}
  Vals = {"v1"}
  MaxEdits = 0
  Feeds = {f1}
  Calendars = {A, B}
  Cols = {cA, cB}
  KeyFeed <- MCKeyFeed
  MaxAttempts = 2
  MaxFaults = 0
  AdminMidRun = TRUE
  SilentPut = FALSE
  CanMove = FALSE
  CanExpire = FALSE
  CanRepoint = FALSE
  LongOutage = FALSE
INVARIANT NoForgottenCopies
