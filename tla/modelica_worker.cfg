SPECIFICATION FairSpec
CONSTANTS
  desk = desk
  prim = prim
  scope = scope
  Own = Own
  Absent = Absent
  Workbench = {desk}
  Scenes = {prim}
  Networks = {scope}
  Coupled = {desk, prim, scope}
  Casts <- MCCasts
  Classes = {A, B}
INVARIANTS TypeOK LanesKeepOrder ReadyModelsAgree NoProtocolFault WaitsAreAnswered
PROPERTIES BarrierIsReleased
