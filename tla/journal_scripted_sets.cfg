SPECIFICATION FairSpec
CONSTANTS
  Authors = {1, 2, 3}
  Ops = {1, 2, 3}
  Preferred = 1
  Strategy = "scripted"
  CausalDelivery = TRUE
  MaxEntries = 3
  MaxSets = 2
INVARIANTS HeadIsMergedTip SetsListTheirEntries
PROPERTIES Converges
CHECK_DEADLOCK FALSE
