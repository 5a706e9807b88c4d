CONSTANTS
  r1 = r1
  r2 = r2
  r3 = r3
  t1 = t1
  t2 = t2
  s1 = s1
  k1 = k1
  k2 = k2
  c1 = c1
  c2 = c2
  a = a
  b = b
  NoVariant = NoVariant
  NoFlag = NoFlag
  NoAssignment = NoAssignment
  NoInput = NoInput
  Requests = {r1}
  Tenants = {t1, t2}
  Subjects = {s1}
  Keys = {k1}
  Contexts = {c1, c2}
  Variants = {NoVariant, a, b}
  Bucket <- MCBucket
  Definitions <- FileDefinitions
  Inputs <- MCInputs
  HasAssignments = FALSE
  HasFaults = FALSE
  x1 = x1
  x2 = x2
  Layouts = {"directory", "file"}
  Listing <- MCListing
  Offered <- MCOffered
  Missing = Missing
  Broken = Broken
  ApiKeys = {x1, x2}
  Environment <- MCEnvironment
  DefaultTenant = t1
  MaxEdits = 2
  MaxHangups = 2
  NoBlock = NoBlock
  NoKey = NoKey
  ExpFrom = 10
  IntMax = 31
  MaxPattern = 2
  Compiles <- MCCompiles
  Accepts <- MCAccepts
  AttributeNames <- MCNames
  Questions <- MCQuestions
SPECIFICATION MCSpec
INVARIANTS
  ConfigTypeOK
  AnswerReflectsWindow
  KeysOfTheStart
  FileAndStoreAgree
  ComparisonsAreExact
  SemverIsNumericOrder
PROPERTIES
  ReloadsWhole
  LastChangeLoaded
CHECK_DEADLOCK FALSE
