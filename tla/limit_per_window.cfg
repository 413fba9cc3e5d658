SPECIFICATION Spec
CONSTANTS
  Limit = 2
  Window = 3
  Slack = 3
  Horizon = 9
  MaxGrants = 9
INVARIANTS
  AtMostLimitPerWindow
