SPECIFICATION FairSpec
CONSTANTS
  d1 = d1
  d2 = d2
  i1 = i1
  i2 = i2
  w1 = w1
  w2 = w2
  p1 = p1
  p2 = p2
  None = None
  Deposits = {d1, d2}
  Owners = {i1, i2}
  Watchers = {w1}
  Polls = {p1, p2}
  Investor <- MCInvestor
  Expected <- MCExpected
  Values = {1}
  Funds = 2
  Discipline = "exact"
  MaxHeight = 5
  MaxFaults = 0
  MaxCrashes = 0
CHECK_DEADLOCK FALSE
INVARIANTS FirstPullIsOwn
PROPERTIES ClaimableIsPulled
