\* Following the pages of a listing, without the tree.
CONSTANTS
  Accounts <- SixAccounts
  Counts <- OneTwoThree
SPECIFICATION FairSpec
INVARIANTS
  TypeOK
  NothingSkipped
  Complete
PROPERTY ListingEnds
CHECK_DEADLOCK FALSE
