SPECIFICATION FairSpec
CONSTANTS
  A = A
  B = B
  NoTwin = NoTwin
  Twins = {A, B}
  OptIns <- MCOptIns
  Authors = {1, 2}
  Local = 1
  Install = 2
  Preferred = 1
  Ops <- MCOps
  Commands = {"OpenTwin", "AddTwin"}
  Policies = {"scripted"}
  MaxEdits = 2
  MaxFaults = 1
INVARIANTS RecordedWhileBound StoredWellFormed
PROPERTIES HistoryIsKept SwapKeepsOpen LoneTimerSaves
