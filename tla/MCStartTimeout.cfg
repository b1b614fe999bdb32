SPECIFICATION Spec
CONSTANTS
  root = root
  middle = middle
  leaf = leaf
  Nodes <- Duo
  Req <- DuoReq
  SysCap = 2
  HubCap = 3
  Hook <- ReadyWaitHook
  Roots <- OneRoot
  Ended <- Nobody
  WatchDogs <- JustRoot
INVARIANTS NobodyStable
CHECK_DEADLOCK FALSE
