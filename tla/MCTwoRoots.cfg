SPECIFICATION Spec
CONSTANTS
  root = root
  middle = middle
  leaf = leaf
  Nodes <- Chain
  Req <- RootsReq
  SysCap = 2
  HubCap = 3
  Hook <- AtOnceHook
  Roots <- TwoRoots
  Ended <- Nobody
  WatchDogs <- Nobody
INVARIANTS OwnIds
CHECK_DEADLOCK FALSE
