\* The kinds of the account: one replica; an object may be there already; a group
\* that may come late and go; edits from both sides.
SPECIFICATION LiveSpec
CONSTANTS
  Kinds = {"group", "name server", "policy", "mixed policy", "service user", "person", "account", "dns setting"}
  Spec0 = d0
  Desired = {d0, d1, d2}
  Odd = {d2}
  MR = {m1}
  NoId = NoId
  ObjName = ObjName
  DispName = DispName
  p1 = p1
  p2 = p2
  Net = {p1}
  Initial = {p1}
  Rank <- Order
  Ambiguous = FALSE
  Reserve = 2
  Replica = {r1}
  Id = {k1, k2, k3}
  Imported = {k1}
INVARIANTS TypeOK AtMostOne
PROPERTIES ReleasedWithoutRemains Converges DeletionCompletes Settles
CHECK_DEADLOCK FALSE
