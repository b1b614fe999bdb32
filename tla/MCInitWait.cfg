SPECIFICATION Spec
CONSTANTS
  root = root
  middle = middle
  leaf = leaf
  Nodes <- Duo
  Req <- DuoReq
  SysCap = 2
  HubCap = 3
  Hook <- InitWaitHook
  Roots <- OneRoot
  Ended <- Nobody
  WatchDogs <- JustRoot
PROPERTIES RequiredNodesStart
CHECK_DEADLOCK FALSE
