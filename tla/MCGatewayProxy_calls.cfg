SPECIFICATION Spec
CONSTANTS
  Requests = {q1, q2}
  Repos = {r1}
  Digests = {d1, d2}
  Kinds = {"search", "proxy", "fanout", "mcp"}
  Threshold = 2
  MaxEntries = 1
  WorkerConcurrency = 2
  GlobalConcurrency = 2
  MaxPushes = 0
  MaxFaults = 3
  MaxCancels = 1
  None = None
SYMMETRY Symmetry
INVARIANTS
  TypeOK
  FlightsHaveLeaders
  BreakerConsistent
  ProbeHasOwner
