SPECIFICATION Spec
CONSTANTS
  alice = alice
  bob = bob
  c1 = c1
  c2 = c2
  none = none
  op1 = op1
  plan1 = plan1
  FinIds <- MCFinIds
  None = none
  Calls <- MCCalls
  Requests <- MCRequests
  Joining = {alice}
  NewAssets = {"fund"}
  OldAssets = {"bond", "USDC"}
  Bound = {bob}
  DefaultStandard = none
  MaxFaults = 1
  MaxRestarts = 1
INVARIANT MovesAsRequested
INVARIANT ContextsAgree
INVARIANT CredentialBehind
CHECK_DEADLOCK FALSE
