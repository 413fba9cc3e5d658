SPECIFICATION FairSpec
CONSTANTS
  k1 = k1
  k2 = k2
  p1 = p1
  p2 = p2
  Consumers = {k1, k2}
  Partitions = {p1, p2}
  None = None
  Log <- MCLog
  MaxBatch = 2
  MaxFaults = 2
INVARIANTS
  TypeOK
  LostOnlyByFailure
  OneHandler
PROPERTIES
  RebalancesEnd
  EveryRecordDelivered
