SPECIFICATION BillingSpec
CONSTANTS
  s1 = s1
  c1 = c1
  c2 = c2
  h1 = h1
  h2 = h2
  NoCheckout = NoCheckout
  Sched = {s1}
  Checkout = {c1}
  Handler = {h1}
  FaultKinds = {}
  MaxInvoices = 3
  Month = 1
  MaxDay = 15
  MaxGap = 1
  MaxSweep = 1
  MaxFaults = 0
  MaxDeliveries = 1
PROPERTIES CancelOnlyUnpaid
CHECK_DEADLOCK FALSE
