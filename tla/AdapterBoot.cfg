SPECIFICATION BootSpec
CONSTANTS
  Envs <- MCEnvs
  Chains <- MCChains
INVARIANT OneSlotOwner
INVARIANT ServedIsWhole
INVARIANT OneManagerPerKey
CHECK_DEADLOCK FALSE
