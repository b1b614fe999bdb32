SPECIFICATION Spec
CONSTANTS
  root = root
  middle = middle
  leaf = leaf
  Nodes <- Chain
  Req <- ChainReq
  SysCap = 2
  HubCap = 4
  Hook <- ChainHook
  Roots <- OneRoot
  Ended <- JustLeaf
  WatchDogs <- Below
INVARIANTS TypeOK OwnIds PickFindsNode NoSecondStart WiredAsRequired ReadyIsWired
PROPERTIES FollowsStateMachine StartsInOrder NothingForgotten StartCompletes
CHECK_DEADLOCK FALSE
