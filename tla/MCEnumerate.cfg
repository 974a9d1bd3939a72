\* Every airdrop of eight accounts, every start, every label encoding.
CONSTANTS
  AccountBits = 3
  Counts <- OneTwo
  Others <- TwoOthers
SPECIFICATION Spec
INVARIANTS
  TypeOK
  NeverFails
  ListedInOrder
PROPERTIES
  ImplementsListing
CHECK_DEADLOCK FALSE
