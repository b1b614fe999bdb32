SPECIFICATION Spec
CONSTANTS
  parent = parent
  child = child
  other = other
  leaf = leaf
  Nodes <- Pair
  Req <- PairReq
  SysCap = 2
  HubCap = 2
  Hook <- PairWaitHook
  Requests <- StopInTransit
  Received <- NoInput
  MaxInputs = 3
  Noticed <- NoInput
  WatchDogs <- Pair
PROPERTIES ForceStopKept
CHECK_DEADLOCK FALSE
