\* Three participants; timelocks at every change of length of their encoding, outputs
\* a block too young, old enough and a block older.
CONSTANTS
  Preimages <- MCPreimages
  Keys <- MCKeys
  TRefunds = {0, 1, 16, 17, 127, 128, 255, 256, 32767, 32768, 65535, 65537, 4194305}
  TClaim = 3
  KMins = {1, 2, 3, 17}
  Inputs = {0, 1}
SPECIFICATION ScriptSpec
INVARIANTS
  ScriptInv
  RefundIsKMinAfterTRefund
  HtlcIsWinnerWithSecret
\* A script is decided once.
CHECK_DEADLOCK FALSE
