\* The context of Run ends; afterwards the system may well stop.
CONSTANTS
  r1 = r1
  r2 = r2
  r3 = r3
  owner = owner
  stranger = stranger
  Requests <- TwoRequests
  Accounts <- MCAirdrop
  Airdrop <- MCAirdrop
  NoAccount = NoAccount
  MaxLength = 1
  Cancellable = TRUE
SPECIFICATION FairSpec
PROPERTIES
  AbandonedRequestReturns
  OthersReturn
CHECK_DEADLOCK FALSE
