SPECIFICATION FairSpec
CONSTANTS
  p1 = p1
  p2 = p2
  n1 = n1
  s1 = s1
  Pushers = {p1}
  Names = {n1}
  NameOf <- Alone
  Slugs = {s1}
  SlugOf <- OnlySlug
  BySlug = {}
  Threads = {h1}
  Blobs = {x, y}
  WorkerWatches = TRUE
  MaxEdits = 1
  MaxCancels = 1
  MaxCrashes = 1
  MaxFaults = 1
  Absent = Absent
  None = None
INVARIANTS
  CasIsImmutable
  CommittedTreesAreStored
PROPERTIES
  EditsReachTheSource
CHECK_DEADLOCK FALSE
