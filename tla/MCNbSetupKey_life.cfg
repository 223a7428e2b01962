\* One replica; a key may be there already, under the resource's name.
SPECIFICATION LiveSpec
CONSTANTS
  Spec0 = d0
  Desired = {d0}
  MR = {m1}
  NoId = NoId
  n1 = n1
  Name = {n1}
  NameOf <- OneName
  Reserve = 1
  Replica = {r1}
  Id = {k1, k2, k3}
  Imported = {k1}
  ObjName = ObjName
  DispName = DispName
INVARIANTS TypeOK SecretMatchesIdentity
PROPERTIES ValidKeyDiesOnlyWithItsResource ReleasedWithoutValidKey CustodyKept KeyRestored DeletionCompletes
CHECK_DEADLOCK FALSE
