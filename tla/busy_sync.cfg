SPECIFICATION Spec
CONSTANTS
  A = A
  B = B
  t1 = t1
  t2 = t2
  Null = Null
  Keys = {1, 2}
  Times = {t1, t2}
  Accounts = {A}
  Ids = {1, 2, 3, 4, 5}
  Rank <- MCRank
  Owner <- MCOwner
  MaxFaults = 1
  MaxEdits = 1
  MaxSwitches = 2
  AdminMidRun = TRUE
SYMMETRY MCSymmetry
INVARIANTS TypeOK StaysCovered
PROPERTIES BusyRunReconciles NoChurn
