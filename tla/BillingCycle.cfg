SPECIFICATION Spec
CONSTANTS
  s1 = s1
  s2 = s2
  Sched = {s1}
  MaxInvoices = 4
  Month = 6
  MaxDay = 27
  MaxGap = 2
  MaxSweep = 2
  MaxFaults = 2
INVARIANTS DunnedOrgOwes DunningDeadline
PROPERTIES CancelNotEarly AdvanceOnlySettled
