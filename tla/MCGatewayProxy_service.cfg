SPECIFICATION FairSpec
CONSTANTS
  Requests = {q1, q2}
  Repos = {r1}
  Digests = {d1}
  Kinds = {"search", "fanout"}
  Threshold = 2
  MaxEntries = 1
  WorkerConcurrency = 2
  GlobalConcurrency = 1
  MaxPushes = 1
  MaxFaults = 2
  MaxCancels = 1
  None = None
INVARIANTS
  FailuresAreFaults
PROPERTIES
  EveryRequestReturns
  HealthyWorkerRecovers
  StaleReplaysEnd
