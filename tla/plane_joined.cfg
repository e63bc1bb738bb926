SPECIFICATION FairSpec
CONSTANTS
  Authors <- MCAuthors
  Ops <- MCOps
  Preferred = 5
  Host = 7
  Clients = {8, 9}
  Sessions = {2, 3}
  Local = 1
  Reopened = {}
  Strategy = "default"
  OfflineEdits = FALSE
  MaxEntries = 2
INVARIANTS EditsAppearOnce HistoryIsUnderWay OwnEditsAreUnderWay
PROPERTIES EditsReachHost HistoryReachesClients
CHECK_DEADLOCK FALSE
