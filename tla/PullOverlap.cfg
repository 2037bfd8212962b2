SPECIFICATION Spec
CONSTANTS
  d1 = d1
  d2 = d2
  i1 = i1
  i2 = i2
  w1 = w1
  w2 = w2
  p1 = p1
  p2 = p2
  None = None
  Deposits = {d1, d2}
  Owners = {i1, i2}
  Watchers = {w1}
  Polls = {p1, p2}
  Investor <- MCInvestor
  Expected <- MCExpected
  Values = {1, 2}
  Funds = 2
  Discipline = "open"
  MaxHeight = 3
  MaxFaults = 1
  MaxCrashes = 1
CHECK_DEADLOCK FALSE
SYMMETRY MCSymmetry
INVARIANTS AcceptedIsKept AcceptedIsPolled SettledIsTold
