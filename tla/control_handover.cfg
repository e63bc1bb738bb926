SPECIFICATION FairSpec
CONSTANTS
  A = A
  B = B
  Clients = {A, B}
  HostSession = H
  Nobody = Nobody
  NoInput = NoInput
  NoSlot = NoSlot
  Takeover = TRUE
  Cap = 1
  MaxSeqJump = 2
  MaxSeq <- FewInputs
INVARIANTS TypeOK AcksAreIntegrated
PROPERTIES InputsComeFromTheOwner OwnerIsReconciled
CHECK_DEADLOCK FALSE
