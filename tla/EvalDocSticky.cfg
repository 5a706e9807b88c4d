CONSTANTS
  r1 = r1
  r2 = r2
  r3 = r3
  t1 = t1
  t2 = t2
  s1 = s1
  k1 = k1
  k2 = k2
  c1 = c1
  c2 = c2
  a = a
  b = b
  NoVariant = NoVariant
  NoFlag = NoFlag
  NoAssignment = NoAssignment
  NoInput = NoInput
  Requests = {r1, r2, r3}
  Tenants = {t1}
  Subjects = {s1}
  Keys = {k1}
  Contexts = {c1, c2}
  Variants = {NoVariant, a, b}
  Bucket <- MCBucket
  Definitions <- StickyDefinitions
  Inputs <- SingleInputs
  HasAssignments = TRUE
  HasFaults = FALSE
SPECIFICATION Spec
INVARIANTS
  StickyResult
