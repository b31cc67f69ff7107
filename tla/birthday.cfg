SPECIFICATION Spec
CONSTANTS
  f1 = f1
  f2 = f2
  k1 = k1
  k2 = k2
  S = S
  A = A
  B = B
  cA = cA
  cB = cB
  NoCopy = NoCopy
  NoEtag = NoEtag
  Null = Null
  Keys = {k1}
  Slots = {"own", "s2"}
  Vals = {"v1","v2"}
  MaxEdits = 2
  Feeds = {f1}
  KeyFeed <- MCKeyFeed
  Accounts = {A, B}
  Calendars = {S}
  Cols = {cA, cB}
  MaxTroubles = 2
  CanRepoint = TRUE
  AdminMidRun = TRUE
SYMMETRY MCSymmetry
INVARIANTS BirthdayRunReconciles
PROPERTIES OneSeriesPerPerson BirthdaysGuarded DeletesAddressOwn
