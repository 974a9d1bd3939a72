\* Two calls at once, every route and every kind of parameter.
CONSTANTS
  r1 = r1
  r2 = r2
  owner = owner
  stranger = stranger
  Requests <- TwoRequests
  Accounts <- MCAccounts
  Airdrop <- MCAirdrop
  NoAccount = NoAccount
  Malformed = Malformed
  Missing = Missing
  Counts <- MCCounts
  MaxCalls = 2
SPECIFICATION FairSpec
INVARIANTS
  TypeOK
  StatusTruthful
  MetricsAddUp
PROPERTY EveryCallAnswered
CHECK_DEADLOCK FALSE
