SPECIFICATION WalletsSpec
CONSTANTS
  v1 = v1
  v2 = v2
  v3 = v3
  l1 = l1
  l2 = l2
  stranger = stranger
  Accounts <- MCAccounts
  Stranger = stranger
  Lookups <- MCLookups
  Starts <- MCStarts
  PageSize = 1
  Retries = 1
  MaxFailures = 1
  MaxRestarts = 1
INVARIANT UnknownHasCause
PROPERTY LookupsEnd
CHECK_DEADLOCK FALSE
