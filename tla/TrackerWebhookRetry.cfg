SPECIFICATION Spec
CONSTANTS
  i1 = i1
  p1 = p1
  p2 = p2
  c1 = c1
  c2 = c2
  Issues = {i1}
  PRs = {p1}
  Commits = {}
  Refs <- RefsAll
  MainBranch <- MainC1
  MaxTime = 0
  MaxLag = 0
  MaxFaults = 1
  Hooked = TRUE
  MaxDeliveries = 1
CHECK_DEADLOCK FALSE
INVARIANTS AnsweredWasApplied
