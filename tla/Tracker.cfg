SPECIFICATION Spec
CONSTANTS
  i1 = i1
  p1 = p1
  p2 = p2
  c1 = c1
  c2 = c2
  Issues = {i1}
  PRs = {p1, p2}
  Commits = {c1, c2}
  Refs <- RefsAll
  MainBranch <- MainC1
  MaxTime = 1
  MaxLag = 1
  MaxFaults = 2
  Hooked = TRUE
  MaxDeliveries = 2
CONSTRAINT OneSide
SYMMETRY Alike
CHECK_DEADLOCK FALSE
INVARIANTS DoneIsBacked PassSettles CutoffCovers
