SPECIFICATION WatchSpec
CONSTANTS
  t1 = t1
  t2 = t2
  e1 = e1
  e2 = e2
  Tasks = {t1, t2}
  Engines = {e1, e2}
  EngineOf <- DaemonAndCli
  Watchers = {t1}
  Trees = {a, b}
  Kinds = {"full"}
  Retention = 1
  GcKeeps = {0}
  DenseEnabled = FALSE
  ZoektInstalled = FALSE
  MaxEdits = 2
  MaxFaults = 0
  NoSnap = NoSnap
  NoTask = NoTask
PROPERTIES
  PollerKeepsFresh
