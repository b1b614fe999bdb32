SPECIFICATION Spec
CONSTANTS
  root = root
  middle = middle
  leaf = leaf
  Nodes <- Chain
  Req <- DiamondReq
  SysCap = 2
  HubCap = 3
  Hook <- AtOnceHook
  Roots <- OneRoot
  Ended <- Nobody
  WatchDogs <- Nobody
PROPERTIES EveryRequirementWired
CHECK_DEADLOCK FALSE
