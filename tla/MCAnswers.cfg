SPECIFICATION Spec
CONSTANTS
  parent = parent
  child = child
  other = other
  leaf = leaf
  Nodes <- Pair
  Req <- PairReq
  SysCap = 2
  HubCap = 2
  Hook <- PairWaitHook
  Requests <- Everything
  Received <- NoInput
  MaxInputs = 2
  Noticed <- ParentFaults
  WatchDogs <- Pair
PROPERTIES ForceStopObeyed TransitEnds PersistentErrorEndsWork
CHECK_DEADLOCK FALSE
