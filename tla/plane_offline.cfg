SPECIFICATION Spec
CONSTANTS
  Authors <- MCAuthors
  Ops <- MCOps
  Preferred = 5
  Host = 7
  Clients = {8}
  Sessions = {2, 3}
  Local = 1
  Reopened = {}
  Strategy = "default"
  OfflineEdits = TRUE
  MaxEntries = 3
INVARIANTS TypeOK IdsNameOneEdit
PROPERTIES EditsAreKept
CHECK_DEADLOCK FALSE
