CONSTANTS
  k1 = k1
  b1 = b1
  b2 = b2
  c1 = c1
  c2 = c2
  c3 = c3
  Absent = Absent
  NoAsk = NoAsk
  Before = Before
  NoOne = NoOne
  Keys = {k1}
  Bodies = {b1, b2}
  Calls = {c1, c2, c3}
  Backends = {"postgres", "mongodb", "redis"}
  HasFaults = TRUE
  r1 = c1
  r2 = c2
  r3 = c3
  e1 = e1
  e2 = e2
  d1 = d1
  d2 = d2
  NoExperiment = NoExperiment
  NoRequest = NoRequest
  Requests = {c1, c2, c3}
  Experiments = {e1, e2}
  Configs = {d1, d2}
  Seeds <- AnySeed
  PostReplaces = TRUE
  CallsFail = TRUE
SPECIFICATION ManagementSpec
SYMMETRY Symmetry
INVARIANTS
  TypeOK
  IndexFollowsFlags
  ExperimentTypeOK
  ReplyReflectsWindow
PROPERTIES
  ImplementsRegistry
  CreationKept
  LifecycleOrRace
