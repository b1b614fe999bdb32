SPECIFICATION Spec
CONSTANTS
  parent = parent
  child = child
  other = other
  leaf = leaf
  Nodes <- Tree
  Req <- TreeReq
  SysCap = 2
  HubCap = 2
  Hook <- TreeWaitHook
  Requests <- Steering
  Received <- NoInput
  MaxInputs = 4
  Noticed <- NoInput
  WatchDogs <- Nobody
INVARIANTS MovesTogether NobodyWaitsInVain ForceStopTravels
PROPERTIES ForceStopCascades StableReached
CHECK_DEADLOCK FALSE
