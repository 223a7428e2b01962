\* A regular user with the name of the service user.
SPECIFICATION Spec
CONSTANTS
  Spec0 = d0
  Desired = {d0}
  MR = {m1}
  NoId = NoId
  u1 = u1
  u2 = u2
  User = {u1, u2}
  Service = {u1}
  Permanent = {u1, u2}
  Rank <- Order
  Reserve = 1
  Replica = {r1}
  Id = {k1, k2}
  Imported = {}
  ObjName = ObjName
  DispName = DispName
INVARIANTS AtMostOneToken
CHECK_DEADLOCK FALSE
