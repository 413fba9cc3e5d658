SPECIFICATION FairSpec
CONSTANTS
  r1 = r1
  r2 = r2
  Replicas = {r1, r2}
  Templates = {"builtin", "tuned", "other"}
  Builtin = "builtin"
  NoTemplate = "none"
  Recipe <- MCRecipe
  Defaults = {"temp"}
  MaxRetry = 1
  Scenarios <- MCScenarios
INVARIANTS
  TypeOK
  MigratedOnce
  OneOpenOrder
  NoOrderForgotten
  OnlyStaleWritesLose
PROPERTIES
  FactsStay
  ReplicasServe
CHECK_DEADLOCK FALSE
