\* Two participants and their contributions, three nonces each: an attempt that is
\* given up and one after it.  Any answer may be lost, one request may be served late.
CONSTANTS
  N = 2
  MaxCoins = 2
  TRefund = 2
  MaxNonces = 3
  PerInput = TRUE
  Patient = TRUE
  ObjectScripts = TRUE
  Faults = {"lost", "late", "restart"}
SPECIFICATION Spec
INVARIANTS
  NonceSignsOnce
  AnsweredClaimIsValid
  PotHasOneFate
  RefundReturnsShares
  RoundInv
PROPERTIES
  ImplementsPot
\* A round is over when its coins are spent.
CHECK_DEADLOCK FALSE
