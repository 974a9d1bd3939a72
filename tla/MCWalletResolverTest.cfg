\* The Handler of TestHandler_getStateInit.
CONSTANTS
  r1 = r1
  r2 = r2
  deployed = deployed
  Requests <- TwoRequests
  MasterStates <- TwoStates
  Undeployed = Undeployed
  NoState = NoState
  Attempts = 3
  MapMade = FALSE
SPECIFICATION Spec
INVARIANT NoPanic
