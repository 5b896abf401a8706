\* Three participants, every failure of the environment.
CONSTANTS
  N = 3
  Faults = {"crash", "expiry", "reject", "lostAnswer"}
SPECIFICATION FairSpec
INVARIANTS
  SharesOnlyForPot
  SharesTakenInOrder
  NoFalseConfirmation
  RoundInv
PROPERTIES
  ImplementsExchange
  RoundEnds
  UnpaidRoundReturnsShares
