SPECIFICATION MCSpec
CONSTANTS
  c1 = c1
  p1 = p1
  p2 = p2
  q1 = q1
  q2 = q2
  a = a
  b = b
  None = None
  Clients = {c1}
  Projects = {p1, p2}
  Entries = {1, 2}
  Requests = {q1, q2}
  Names = {a, b}
  Dates = {1, 2}
  FirstProject = p1
  FirstName = a
  FirstDate = 1
  PageSize = 1
  MaxRequests = 3
INVARIANTS
  TypeOK
  PatchesAddUp
  ListingsAreComplete
PROPERTIES
  DeletedClientsRest
  ArchivedProjectsRest
SYMMETRY Alike
CHECK_DEADLOCK FALSE
