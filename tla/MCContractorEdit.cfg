SPECIFICATION Spec
CONSTANTS
  t1 = t1
  own = own
  g1 = g1
  m1 = m1
  None = None
  Entries = {t1}
  ManualLines = {m1}
  OwnEdits = {own}
  StaffEdits = {}
  Generations = {g1}
  LineEdits = {}
  Minutes = {30, 90}
  Rates = {1, 3}
  Changes <- AnyChange
  Amounts = {2}
  LargestProduct = 299
  LargestTotal = 3
  MaxInvoices = 2
  MaxEvents = 4
PROPERTIES
  ContractorsEditDraftsOnly
