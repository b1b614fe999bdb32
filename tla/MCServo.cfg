SPECIFICATION Spec
CONSTANTS
  control = control
  servo = servo
  Nodes <- Both
  Req <- BothReq
  Hook <- BothHook
  SysCap = 2
  HubCap = 10
  CmdCap = 5
  MaxCount = 20
  Calls <- BackToReady
  MaxCalls = 1
INVARIANTS TypeOK
PROPERTIES OvershootBounded BothGetStable SettlesInBand ConvergesInTurn
