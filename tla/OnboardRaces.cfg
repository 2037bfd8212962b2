SPECIFICATION FairSpec
CONSTANTS
  v1 = v1
  v2 = v2
  x1 = x1
  x2 = x2
  None = None
  Investors = {i1}
  Assets = {a1}
  Vaults = {v1, v2}
  Wallets = {x1, x2}
  AddressOf <- MCAddressOf
  Calls = {c1, c2, c3}
  Activating = TRUE
  MaxSent = 3
  MaxFaults = 1
CHECK_DEADLOCK FALSE
INVARIANTS MappedIsActive OnlyWinnersCount
PROPERTIES CreateSucceeds
