\* Two participants and no failure of the environment at all.
CONSTANTS
  N = 2
  Faults = {}
SPECIFICATION Spec
INVARIANT VerifiesAccepted
