\* Three participants, amounts in units of 10000 sat, two starts of which any may stop.
CONSTANTS
  N = 3
  Capacity = 20
  Slack = 10
  OpenFee = 2
  Tolerance = 1
  Maturity = 12
  Confirms = 3
  MaxStarts = 2
  Faults = {"stop"}
SPECIFICATION FairSpec
INVARIANTS
  BootstrapInv
  RefusedOnlyWhilePending
  RoundsHaveChannels
PROPERTY
  BootstrapEnds
\* The last start ends.
CHECK_DEADLOCK FALSE
