SPECIFICATION Spec
CONSTANTS
  ParamSet <- MCNarrowSet
  SavedOffsets <- MCSavedOffsets
  Risks <- MCRisks
  Hour = 7
  Horizon = 9
  MaxStreak = 3
INVARIANTS
  ThresholdWithinDocumentedRange
