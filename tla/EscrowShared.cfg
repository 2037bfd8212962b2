SPECIFICATION FairSpec
CONSTANTS
  f1 = f1
  f2 = f2
  w1 = w1
  w2 = w2
  o1 = o1
  o2 = o2
  bond = bond
  note = note
  None = None
  Escrow = Escrow
  Orders = {o1, o2}
  InitOrders <- MCOrders
  FinIds = {f1, f2}
  Wallets = {w1, w2}
  Assets = {bond, note}
  Custodied = {w1, w2}
  HoldModel <- MCHoldModel
  InitMapping <- MCMapping
  InitKnown = {{bond, note}, {bond}}
  InitBalance <- MCBalance
  MaxChanges = 1
  MaxFaults = 1
CHECK_DEADLOCK FALSE
INVARIANTS EscrowAccounted HeldIsPayable HolderPaysOnce
PROPERTIES PoolImplemented CallEnds
