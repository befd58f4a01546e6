\* Two changes, an addition and a deactivation; three rows for two users.
\* A closed organization with nothing on its way has no step left.
SPECIFICATION Spec
CONSTANTS
  Users = {u1, u2}
  Members = {m1, m2, m3}
  OtherRoles = {"contractor"}
  Additions = {a1}
  Changes = {c1, c2}
  Closings = {d1}
  None = None
SYMMETRY Symmetry
INVARIANTS
  TypeOK
  OneChangeAtATimeKeepsAnOwner
  RemovalsAreRecordedOnce
PROPERTY
  ClosedStaysClosed
CHECK_DEADLOCK FALSE
