SPECIFICATION FairSpec
CONSTANTS
  d1 = d1
  d2 = d2
  p1 = p1
  p2 = p2
  None = None
  Deposits = {d1, d2}
  Polls = {p1, p2}
  Expected <- MCExpected
  Values = {1, 2}
  GasStations = {TRUE, FALSE}
  MayFail = {"provision", "balance", "gas", "transfer", "wait", "hook", "import", "archive"}
  MaxArrived = 3
  MaxFaults = 1
  MaxCrashes = 1
CHECK_DEADLOCK FALSE
INVARIANTS NoStuckInFlight AcceptedIsKept NoShortCredit LedgerMatchesChain
PROPERTIES FundedIsCredited
