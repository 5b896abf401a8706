\* A winner whose key contains the byte 168, with the right preimage.
CONSTANTS
  Preimages <- MCPreimages
  Keys <- MCKeys
  TRefunds = {1}
  TClaim = 3
  KMins = {2}
  Inputs = {0, 1}
SPECIFICATION ScriptSpec
INVARIANTS
  OnlyWrongPreimageRaises
CHECK_DEADLOCK FALSE
