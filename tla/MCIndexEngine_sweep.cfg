SPECIFICATION Spec
CONSTANTS
  t1 = t1
  t2 = t2
  e1 = e1
  e2 = e2
  Tasks = {t1, t2}
  Engines = {e1, e2}
  EngineOf <- TwoProcesses
  Trees = {a, b}
  Kinds = {"full", "gc"}
  Retention = 1
  GcKeeps = {0}
  DenseEnabled = TRUE
  ZoektInstalled = FALSE
  MaxEdits = 1
  MaxFaults = 1
  NoSnap = NoSnap
  NoTask = NoTask
SYMMETRY ProcessSymmetry
INVARIANTS
  WritersHoldLease
  CurrentIsServable
  CommittedArtifactsExist
  PendingArtifactsKept
