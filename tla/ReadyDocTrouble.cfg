CONSTANTS
  c1 = c1
  c2 = c2
  p1 = p1
  p2 = p2
  Calls = {c1, c2}
  Publishers = {p1, p2}
  Reliable = {p1}
  Attempts <- MCAttempts
  HasFaults = TRUE
  Checkers <- MCCheckers
SPECIFICATION MCSpec
INVARIANTS
  TroubleIsReported
