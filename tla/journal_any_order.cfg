SPECIFICATION Spec
CONSTANTS
  Authors = {1, 2, 3}
  Ops = {1, 2, 3}
  Preferred = 1
  Strategy = "default"
  CausalDelivery = FALSE
  MaxEntries = 4
  MaxSets = 0
INVARIANTS TypeOK WellFormed SameEntriesSameHead
PROPERTIES EditComesLast ImplementsSharedHistory
CHECK_DEADLOCK FALSE
