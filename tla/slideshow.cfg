SPECIFICATION FairSpec
CONSTANTS
  A = A
  B = B
  p1 = p1
  p2 = p2
  v1 = v1
  NoPath = NoPath
  Paths = {p1, p2, v1}
  Dirs = {A, B}
  DirOf <- MCDirOf
  Videos <- MCVideos
  MaxEvents = 3
  FlapMidScan = FALSE
  PickMidRebuild = FALSE
PROPERTIES NoErosion NoRepeat RequestsKept KeepsComing
