SPECIFICATION FairSpec
CONSTANTS
  r1 = r1
  r2 = r2
  r3 = r3
  s1 = s1
  s2 = s2
  Replicas = {r1, r2, r3}
  Schemas = {s1, s2}
  SchemaOf <- MCSchemaOf
  Legacy = Legacy
  N = 2
  Absent = Absent
  Fresh = Fresh
  Starts <- MCStarts
  MaxFaults = 1
INVARIANTS ReturnedIsAdopted OnlyFaultsThrow ClaimedWhole HistoryKept
PROPERTIES BootEnds
