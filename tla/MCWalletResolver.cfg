\* Conversions racing for the entry of the jetton master.
CONSTANTS
  r1 = r1
  r2 = r2
  deployed = deployed
  Requests <- TwoRequests
  MasterStates <- TwoStates
  Undeployed = Undeployed
  NoState = NoState
  Attempts = 3
  MapMade = TRUE
SPECIFICATION FairSpec
INVARIANTS
  TypeOK
  SettledRepliesAgree
  PayloadInTime
  UnretriedNeverFetches
PROPERTIES
  EntrySettles
  ConversionEnds
