SPECIFICATION FairSpec
CONSTANTS
  x1 = x1
  t1 = t1
  f1 = f1
  f2 = f2
  Assets = {x1}
  Tops = {t1}
  NoTop = NoTop
  ModeMaps <- MCModeMaps
  AutoCancel = TRUE
  MaxRetry = 1
  MaxAlerts = 2
  MaxFaults = 2
INVARIANTS
  TypeOK
  ReferencesResolve
  OneOpenOrder
  AttemptsBounded
  FaultFree
  VerdictSurvives
PROPERTIES
  FactsStay
  RetriesEnd
