\* The kinds inside a network: one replica; parents come and go, one at a time; a
\* group that may come late and go; edits from both sides.
SPECIFICATION LiveSpec
CONSTANTS
  Kinds = {"resource", "group router", "peer router"}
  Spec0 = d0
  Desired = {d0, d1}
  Odd = {}
  MR = {m1}
  NoId = NoId
  ObjName = ObjName
  DispName = DispName
  p1 = p1
  p2 = p2
  Net = {p1, p2}
  Initial = {p1}
  Rank <- Order
  Ambiguous = FALSE
  Reserve = 2
  Replica = {r1}
  Id = {k1, k2, k3}
  Imported = {k1}
INVARIANTS TypeOK AtMostOne
PROPERTIES ReleasedWithoutRemains Converges DeletionCompletes
CHECK_DEADLOCK FALSE
