\* Refinement and liveness of the request path.
CONSTANTS
  r1 = r1
  r2 = r2
  r3 = r3
  owner = owner
  stranger = stranger
  Requests <- TwoRequests
  Accounts <- MCAccounts
  Airdrop <- MCAirdrop
  NoAccount = NoAccount
  MaxLength = 1
  Cancellable = FALSE
SPECIFICATION FairSpec
PROPERTIES
  ImplementsApi
  EveryRequestReturns
  NoWorkIsStuck
