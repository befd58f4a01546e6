\* Two changes and an addition: does an organization keep an owner?
SPECIFICATION Spec
CONSTANTS
  Users = {u1, u2}
  Members = {m1, m2}
  OtherRoles = {"contractor"}
  Additions = {a1}
  Changes = {c1, c2}
  Closings = {d1}
  None = None
INVARIANT
  AnOwnerRemains
CHECK_DEADLOCK FALSE
