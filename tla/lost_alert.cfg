SPECIFICATION Spec
CONSTANTS
  x1 = x1
  x2 = x2
  c1 = c1
  c2 = c2
  s1 = s1
  s2 = s2
  g1 = g1
  g2 = g2
  g3 = g3
  Assets = {x1, x2}
  Classes = {c1}
  Strangers = {c2}
  NoClass = NoClass
  Signals = {s1, s2}
  Runtime = Runtime
  Specs <- MCSpecs
  Warmup = 3
  HstWindow = 2
  Source <- MCSource
  Defaults = {g1, g3}
  Recipes <- MCRecipes
  Batches <- MCTwoBatches
  Content <- MCTwoContents
  Horizon = 3
  MaxUpdates = 0
  MaxFaults = 1
INVARIANTS
  ReplayLosesNoAlert
