SPECIFICATION Spec
CONSTANTS
  t1 = t1
  t2 = t2
  e1 = e1
  e2 = e2
  Tasks = {t1, t2}
  Engines = {e1, e2}
  EngineOf <- TwoProcesses
  Trees = {a, b}
  Kinds = {"full", "checkpoint", "gc"}
  Retention = 1
  GcKeeps = {1}
  DenseEnabled = FALSE
  ZoektInstalled = TRUE
  MaxEdits = 2
  MaxFaults = 0
  NoSnap = NoSnap
  NoTask = NoTask
SYMMETRY ProcessSymmetry
INVARIANTS
  TypeOK
PROPERTIES
  ActivationIsFresh
  ImplementsRegistry
  RetentionKeepsWindow
