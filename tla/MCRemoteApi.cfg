\* Two callers and two requests, one of which may be sent again.
CONSTANTS
  r1 = r1
  r2 = r2
  c1 = c1
  c2 = c2
  owner = owner
  stranger = stranger
  Requests <- TwoRequests
  Callers <- TwoCallers
  Accounts <- MCAccounts
  Airdrop <- MCAirdrop
  NoAccount = NoAccount
  Malformed = Malformed
  Missing = Missing
  NoConn = NoConn
  Questions <- MCQuestions
  Counts <- MCCounts
  MaxCalls = 2
SPECIFICATION FairRemoteSpec
INVARIANTS
  RemoteTypeOK
  NoCrossTalk
  InvocationTruthful
PROPERTIES
  ClientImplementsApi
  EveryInvocationReturns
CHECK_DEADLOCK FALSE
