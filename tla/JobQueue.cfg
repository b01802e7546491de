SPECIFICATION FairSpec
CONSTANTS
  j1 = j1
  j2 = j2
  k1 = k1
  w1 = w1
  w2 = w2
  p1 = p1
  p2 = p2
  Job = {j1, j2}
  Key = {k1}
  NoKey = NoKey
  Kind = {"sync", "other"}
  Registered = {"sync"}
  Worker = {w1, w2}
  Proc = {p1, p2}
  ProcOf <- TwoProcs
  NoJob = NoJob
  NoWorker = NoWorker
  MaxAttempts = 2
  RetryDelays = {1}
  FirstDelays = {0}
  StaleAfter = 1
  MaxFaults = 1
CONSTRAINT Ordered
INVARIANTS OverlapOnlyOverrun DedupeLive FailedOnlyExhausted
PROPERTIES KeepsLedger EveryJobSettles
