\* What becomes of the identifier adoption records.
SPECIFICATION LiveSpec
CONSTANTS
  Spec0 = d0
  Desired = {d0}
  Content = {d0}
  MR = {m1}
  NoId = NoId
  ObjName = ObjName
  DispName = DispName
  Reserve = 1
  Replica = {r1}
  Id = {k1, k2}
  Imported = {k1}
PROPERTIES AdoptionPersisted
CHECK_DEADLOCK FALSE
