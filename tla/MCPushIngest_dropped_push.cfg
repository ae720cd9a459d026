SPECIFICATION Spec
CONSTANTS
  p1 = p1
  p2 = p2
  n1 = n1
  s1 = s1
  Pushers = {p1}
  Names = {n1}
  NameOf <- Alone
  Slugs = {s1}
  SlugOf <- OnlySlug
  BySlug = {}
  Threads = {h1, h2}
  Blobs = {x, y}
  WorkerWatches = FALSE
  MaxEdits = 0
  MaxCancels = 1
  MaxCrashes = 0
  MaxFaults = 0
  Absent = Absent
  None = None
INVARIANTS
  CasIsImmutable
CHECK_DEADLOCK FALSE
