SPECIFICATION FairSpec
CONSTANTS
  Authors <- MCAuthors
  Ops <- MCOps
  Preferred = 5
  Host = 7
  Clients = {8}
  Sessions = {2}
  Local = 1
  Reopened = {7, 8}
  Strategy = "default"
  OfflineEdits = TRUE
  MaxEntries = 2
PROPERTIES HistoryReachesClients
CHECK_DEADLOCK FALSE
