SPECIFICATION Spec
CONSTANTS
  t1 = t1
  t2 = t2
  staff = staff
  g1 = g1
  g2 = g2
  e1 = e1
  e2 = e2
  m1 = m1
  None = None
  Entries = {t1, t2}
  ManualLines = {m1}
  OwnEdits = {}
  StaffEdits = {staff}
  Generations = {g1, g2}
  LineEdits = {e1, e2}
  Minutes = {30}
  Rates = {1, 3, 10}
  Changes <- Raises
  Amounts = {2}
  LargestProduct = 299
  LargestTotal = 3
  MaxInvoices = 2
  MaxEvents = 4
INVARIANTS
  TypeOK
  BilledOnce
  TotalsMatchLines
  NumbersHaveNoGaps
  EventsExplainStatus
PROPERTIES
  ApprovedWorkIsFrozen
  BilledAsApproved
  DroppedWorkStaysDropped
  IssuedInvoicesAreFrozen
SYMMETRY Alike
