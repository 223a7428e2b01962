\* One replica and one user, who may leave.
SPECIFICATION LiveSpec
CONSTANTS
  Spec0 = d0
  Desired = {d0}
  MR = {m1}
  NoId = NoId
  u1 = u1
  u2 = u2
  User = {u1}
  Service = {u1}
  Permanent = {}
  Rank <- Order
  Reserve = 1
  Replica = {r1}
  Id = {k1, k2, k3}
  Imported = {k1}
  ObjName = ObjName
  DispName = DispName
INVARIANTS AtMostOneToken TypeOK SecretMatchesIdentity IInv
PROPERTIES ValidTokenDiesOnlyWithItsResource ReleasedWithoutToken ExpiredTokenRemoved DeletionCompletes
CHECK_DEADLOCK FALSE
