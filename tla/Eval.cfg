CONSTANTS
  r1 = r1
  r2 = r2
  r3 = r3
  t1 = t1
  t2 = t2
  s1 = s1
  k1 = k1
  k2 = k2
  c1 = c1
  c2 = c2
  a = a
  b = b
  NoVariant = NoVariant
  NoFlag = NoFlag
  NoAssignment = NoAssignment
  NoInput = NoInput
  Requests = {r1, r2}
  Tenants = {t1, t2}
  Subjects = {s1}
  Keys = {k1, k2}
  Contexts = {c1, c2}
  Variants = {NoVariant, a, b}
  Bucket <- MCBucket
  Definitions <- MovingDefinitions
  Inputs <- AllInputs
  HasAssignments = TRUE
  HasFaults = TRUE
SPECIFICATION FamilySpec
INVARIANTS
  TypeOK
  AnswerReflectsWindow
  AssignmentProvenance
  BatchIndependence
PROPERTIES
  SettledIsSticky
  EveryRequestAnswered
