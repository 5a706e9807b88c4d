CONSTANTS
  r1 = r1
  r2 = r2
  r3 = r3
  e1 = e1
  e2 = e2
  d1 = d1
  d2 = d2
  NoExperiment = NoExperiment
  NoRequest = NoRequest
  Requests = {r1, r2, r3}
  Experiments = {e1}
  Configs = {d1, d2}
  Seeds <- DraftSeed
  PostReplaces = FALSE
  CallsFail = FALSE
SPECIFICATION ExperimentSpec
PROPERTIES
  CompletedIsFinal
