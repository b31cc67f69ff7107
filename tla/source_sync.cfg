SPECIFICATION FairSpec
CONSTANTS
  Null = Null
  a = a
  MaxSources = 2
  Cals = {a}
  Keys = {"k1"}
  Vals = {"v1", "garbled"}
  Unreadable = {"garbled"}
  Requests = {"r1"}
  Flaky = {1}
  MaxFaults = 1
INVARIANTS NoOrphanEvents RunsMatchUpstream
PROPERTY EventsSettle
