\* Three participants, two cycles, two starts, every failure.  Amounts in units of
\* 2000 sat: channels of 200k with 150k pushed and a reserve of 1 percent, and the
\* largest contribution whose pot fits into a fresh channel, 16k.
CONSTANTS
  N = 3
  Cycles = 2
  Contribution = 8
  Capacity = 100
  Push = 75
  Reserve = 1
  MaxStarts = 2
  SingleRounds = {1}
  Faults = {"abort", "expiry"}
SPECIFICATION Spec
INVARIANTS
  LiquiditySuffices
  CycleIsNeutral
  ExposureBounded
  LabelsFresh
  CycleNeedsEverySignature
  TandaInv
PROPERTY
  EachRoundPaidOnce
