SPECIFICATION FairSpec
CONSTANTS
  f1 = f1
  f2 = f2
  w1 = w1
  w2 = w2
  bond = bond
  note = note
  cash = cash
  odd = odd
  None = None
  p1 = p1
  p2 = p2
  Plans = {p1, p2}
  Contents <- MCContents
  FinIds = {f1, f2}
  Wallets = {w1, w2}
  Assets = {bond, note, cash, odd}
  Standard <- MCStandard
  us = us
  them = them
  Org = us
  Orgs = {us, them}
  Prefunding = TRUE
  InitMapping <- MCMapping
  InitListed <- MCListed
  MaxGas = 0
  MaxChanges = 1
  MaxFaults = 1
CHECK_DEADLOCK FALSE
INVARIANTS VetoedIsUnfunded CoveredHasGas
PROPERTIES SweptIsUnlisted ApprovalClears VetoHasCause ApprovalEnds
