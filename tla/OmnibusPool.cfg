SPECIFICATION FairSpec
CONSTANTS
  f1 = f1
  p1 = p1
  o1 = o1
  o2 = o2
  t1 = t1
  bond = bond
  note = note
  None = None
  Orders = {o1, o2}
  Investors = {f1}
  Partners = {p1}
  Assets = {bond, note}
  Transfers = {t1}
  InitOrders <- MCOrders
  InitTransfers <- MCTransfers
  InitKnown = {{note}}
  InitPools <- MCPools
  MaxChanges = 1
  MaxFaults = 1
CHECK_DEADLOCK FALSE
INVARIANTS NothingFallsShort
PROPERTIES PoolImplemented CallEnds
