SPECIFICATION Spec
CONSTANTS
  parent = parent
  child = child
  other = other
  leaf = leaf
  Nodes <- Pair
  Req <- PairReq
  SysCap = 2
  HubCap = 2
  Hook <- PairWaitHook
  Requests <- ToParent
  Received <- NoInput
  MaxInputs = 2
  Noticed <- NoInput
  WatchDogs <- Pair
PROPERTIES ExpiryIsFinal
CHECK_DEADLOCK FALSE
