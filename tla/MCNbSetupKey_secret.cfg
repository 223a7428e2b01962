\* Is a key the status reports always the key in the connection secret?
SPECIFICATION Spec
CONSTANTS
  Spec0 = d0
  Desired = {d0}
  MR = {m1}
  NoId = NoId
  n1 = n1
  Name = {n1}
  NameOf <- OneName
  Reserve = 1
  Replica = {r1}
  Id = {k1, k2}
  Imported = {}
  ObjName = ObjName
  DispName = DispName
INVARIANTS ReportedKeyIsPublished
CHECK_DEADLOCK FALSE
