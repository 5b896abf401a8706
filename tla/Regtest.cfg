\* Three calls at a participant, two attempts to scan, two blocks.
CONSTANTS
  Call <- MCCall
  Funds <- MCFunds
  Amount = 20000
  MaxAttempts = 2
  MaxBlocks = 2
SPECIFICATION FairSpec
INVARIANTS
  NodeInv
  PaysAgainOnlyAfterABlock
  NothingLost
  
PROPERTY
  CallsReturn
\* The last call returns.
CHECK_DEADLOCK FALSE
