SPECIFICATION FairSpec
CONSTANTS
  i1 = i1
  l1 = l1
  l2 = l2
  p1 = p1
  p2 = p2
  r1 = r1
  r2 = r2
  usd = usd
  jpy = jpy
  declined = declined
  None = None
  Workers = {w1, w2}
  Requests = {q1}
  Invoices = {i1}
  Links = {l1, l2}
  LinkOf <- MCLinkOf
  Currencies = {usd, jpy}
  CurrencyOf <- MCCurrencyOf
  PaymentIntents = {p1, p2}
  RefundIds = {r1, r2}
  FailureCodes = {declined}
  Events <- QueueEvents
  Totals = {2}
  MaxAttempts = 2
  MaxCrashes = 1
  MaxPurges = 0
PROPERTIES
  QueuePromise
  EveryDeliverySettles
  EveryWaitEnds
