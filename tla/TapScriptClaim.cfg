\* An output of the round that is not yet t_claim blocks old.
CONSTANTS
  Preimages <- MCPreimages
  Keys <- MCKeys
  TRefunds = {1}
  TClaim = 3
  KMins = {2}
  Inputs = {0, 1}
SPECIFICATION ScriptSpec
INVARIANTS
  HtlcWaitsForTClaim
CHECK_DEADLOCK FALSE
