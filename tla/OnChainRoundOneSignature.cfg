\* The methods of Coordinator, with everybody answering: one session for all inputs.
CONSTANTS
  N = 2
  MaxCoins = 2
  TRefund = 2
  MaxNonces = 2
  PerInput = FALSE
  Patient = TRUE
  ObjectScripts = FALSE
  Faults = {}
SPECIFICATION Spec
INVARIANTS
  AnsweredClaimIsValid
CHECK_DEADLOCK FALSE
