SPECIFICATION Spec
CONSTANTS
  x1 = x1
  t1 = t1
  f1 = f1
  f2 = f2
  Assets = {x1}
  Tops = {t1}
  NoTop = NoTop
  ModeMaps <- MCOneMap
  AutoCancel = TRUE
  MaxRetry = 1
  MaxAlerts = 2
  MaxFaults = 1
INVARIANTS
  DuplicatesNeedTwoFaults
