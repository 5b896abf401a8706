\* Two participants, one round that may be missed twice, every failure of a save
\* and every crash.
CONSTANTS
  N = 2
  Rounds = {0}
  Contribution = 1
  Sats = {1, 2}
  MaxDebt = 2
SPECIFICATION Spec
INVARIANTS
  DebtMatchesRounds
  ConfirmedIsOnDisk
  LedgerInv
PROPERTY
  ConfirmedOnlyGrows
\* A ledger whose file cannot be read stops for good.
CHECK_DEADLOCK FALSE
