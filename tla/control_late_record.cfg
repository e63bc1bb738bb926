SPECIFICATION Spec
CONSTANTS
  A = A
  B = B
  Clients = {A, B}
  HostSession = H
  Nobody = Nobody
  NoInput = NoInput
  NoSlot = NoSlot
  Takeover = FALSE
  Cap = 1
  MaxSeqJump = 2
  MaxSeq <- FewInputs
PROPERTIES LosesBoth
CHECK_DEADLOCK FALSE
