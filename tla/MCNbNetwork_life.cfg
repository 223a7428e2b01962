\* One replica; a network may be there already; users and administrators edit.
SPECIFICATION LiveSpec
CONSTANTS
  Spec0 = d0
  Desired = {d0, d1}
  Content = {d0, d1}
  MR = {m1}
  NoId = NoId
  ObjName = ObjName
  DispName = DispName
  Reserve = 1
  Replica = {r1}
  Id = {k1, k2}
  Imported = {k1}
INVARIANTS AtMostOneObject TypeOK
PROPERTIES PromiseKept Converges DeletionCompletes
CHECK_DEADLOCK FALSE
