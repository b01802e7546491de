SPECIFICATION BillingSpec
CONSTANTS
  s1 = s1
  c1 = c1
  c2 = c2
  h1 = h1
  h2 = h2
  NoCheckout = NoCheckout
  Sched = {s1}
  Checkout = {c1}
  Handler = {h1, h2}
  FaultKinds = {"crash", "statement", "answer"}
  MaxInvoices = 4
  Month = 4
  MaxDay = 10
  MaxGap = 1
  MaxSweep = 1
  MaxFaults = 1
  MaxDeliveries = 2
INVARIANTS PaidIsBacked AppliedOnce
SYMMETRY AnyHandler
