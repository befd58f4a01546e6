SPECIFICATION Spec
CONSTANTS
  i1 = i1
  i2 = i2
  l1 = l1
  l2 = l2
  p1 = p1
  p2 = p2
  p3 = p3
  r1 = r1
  r2 = r2
  r3 = r3
  usd = usd
  jpy = jpy
  declined = declined
  None = None
  Invoices = {i1, i2}
  Links = {l1, l2}
  LinkOf <- MCLinkOf
  Currencies = {usd, jpy}
  CurrencyOf <- MCCurrencyOf
  PaymentIntents = {p1, p2, p3}
  RefundIds = {r1, r2, r3}
  FailureCodes = {declined}
  Events <- MCEvents
  Totals = {0, 2, 3}
INVARIANTS
  TypeOK
  AmountsAgree
  NetFollowsStatus
  RefundsBalance
  MoneyLifeCycle
  DriftIsFullRefunds
PROPERTIES
  StatusMovesWithMoney
  HistoryIsKept
CHECK_DEADLOCK FALSE
