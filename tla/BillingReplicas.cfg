SPECIFICATION Spec
CONSTANTS
  s1 = s1
  s2 = s2
  Sched = {s1, s2}
  MaxInvoices = 3
  Month = 3
  MaxDay = 11
  MaxGap = 1
  MaxSweep = 1
  MaxFaults = 1
SYMMETRY Loops
INVARIANTS NoDoubleCharge AlwaysScheduled
