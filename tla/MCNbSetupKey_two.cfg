\* Two replicas without leader election; object and display name coincide.
SPECIFICATION Spec
CONSTANTS
  Spec0 = d0
  Desired = {d0}
  MR = {m1}
  NoId = NoId
  n1 = n1
  Name = {n1}
  NameOf <- OneName
  Reserve = 1
  Replica = {r1, r2}
  Id = {k1, k2}
  Imported = {}
  ObjName = TheName
  DispName = TheName
SYMMETRY Symmetry
INVARIANTS AtMostOneValidKey IInv
CHECK_DEADLOCK FALSE
