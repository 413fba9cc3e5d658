SPECIFICATION Spec
CONSTANTS
  ParamSet <- MCParamSet
  SavedOffsets <- MCSavedOffsets
  Risks <- MCRisks
  Hour = 7
  Horizon = 9
  MaxStreak = 3
INVARIANTS
  TypeOK
  ThresholdGuardrails
  AssetLimitKept
  AlertsApart
PROPERTIES
  OpeningNeedsPersistence
  ClearingNeedsPersistence
  ImplementsEpisode
