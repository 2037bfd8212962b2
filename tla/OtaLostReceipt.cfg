SPECIFICATION Spec
CONSTANTS
  d1 = d1
  d2 = d2
  p1 = p1
  p2 = p2
  None = None
  Deposits = {d1}
  Polls = {p1, p2}
  Expected <- MCExpected
  Values = {1, 2}
  GasStations = {TRUE}
  MayFail = {"wait"}
  MaxArrived = 2
  MaxFaults = 1
  MaxCrashes = 0
CHECK_DEADLOCK FALSE
INVARIANTS OpenIsUnswept
