\* Safety of the request path, the context of Run never ending.
CONSTANTS
  r1 = r1
  r2 = r2
  r3 = r3
  owner = owner
  stranger = stranger
  Requests <- ThreeRequests
  Accounts <- MCAccounts
  Airdrop <- MCAirdrop
  NoAccount = NoAccount
  MaxLength = 2
  Cancellable = FALSE
SPECIFICATION Spec
SYMMETRY Slots
INVARIANTS
  TypeOK
  CachesTruthful
  RepliesTruthful
  ProverNeverBlocks
  RequestInOnePlace
