\* Two signers, who may share a key, in the group of order 7.
CONSTANTS
  Order = 7
  EvenY = {1, 2, 4}
  n = 2
  SecretKeys = {1, 3}
  Nonces = {1, 2, 6}
  Hashes = {0, 1, 3}
SPECIFICATION Spec
INVARIANTS
  KeyMatchesAddress
  HonestSessionVerifies
  HonestNeverBlamed
  BlameIsExact
\* A session is over once everyone signed or something raised.
CHECK_DEADLOCK FALSE
