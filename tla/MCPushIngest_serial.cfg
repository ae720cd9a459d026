SPECIFICATION Spec
CONSTANTS
  p1 = p1
  p2 = p2
  n1 = n1
  s1 = s1
  Pushers = {p1, p2}
  Names = {n1}
  NameOf <- SameName
  Slugs = {s1}
  SlugOf <- OnlySlug
  BySlug = {p2}
  Threads = {h1, h2}
  Blobs = {x, y}
  WorkerWatches = FALSE
  MaxEdits = 0
  MaxCancels = 0
  MaxCrashes = 1
  MaxFaults = 1
  Absent = Absent
  None = None
SYMMETRY Alike
INVARIANTS
  TypeOK
  RecordMatchesSource
  SwapsAreExclusive
CHECK_DEADLOCK FALSE
