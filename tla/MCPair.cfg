SPECIFICATION Spec
CONSTANTS
  parent = parent
  child = child
  other = other
  leaf = leaf
  Nodes <- Pair
  Req <- PairReq
  SysCap = 2
  HubCap = 2
  Hook <- PairAnyHook
  Requests <- Everything
  Received <- AnyCommand
  MaxInputs = 2
  Noticed <- ParentFaults
  WatchDogs <- Pair
INVARIANTS TypeOK WaitsOnArrow OnlyForceStopPending
PROPERTIES FollowsStateMachine ErrorObeyed
CHECK_DEADLOCK FALSE
