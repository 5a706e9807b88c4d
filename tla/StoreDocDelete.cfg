CONSTANTS
  k1 = k1
  b1 = b1
  b2 = b2
  c1 = c1
  c2 = c2
  c3 = c3
  Absent = Absent
  NoAsk = NoAsk
  Before = Before
  NoOne = NoOne
  Keys = {k1}
  Bodies = {b1}
  Calls = {c1, c2}
  Backends = {"redis"}
  HasFaults = FALSE
SPECIFICATION Spec
SYMMETRY Symmetry
PROPERTIES
  DeletedStaysDeleted
