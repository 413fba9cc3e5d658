SPECIFICATION Spec
CONSTANTS
  Limit = 2
  Window = 3
  Slack = 2
  Horizon = 8
  MaxGrants = 6
INVARIANTS
  TypeOK
  SpacedGrants
  DenialJustified
