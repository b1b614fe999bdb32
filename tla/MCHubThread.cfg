SPECIFICATION HubSpec
CONSTANTS
  start = start
  pick = pick
  none = none
  Size = 3
  Values <- Commands
  Default <- none
  MaxCalls = 3
INVARIANTS HubTypeOK RingConsistent NoPhantomCommand NeverInTransit EndNotUndone PolledRuns
PROPERTIES IsBoundedFifo AcceptedIsServed StartReturns EndIsFinal StableServed
CHECK_DEADLOCK FALSE
