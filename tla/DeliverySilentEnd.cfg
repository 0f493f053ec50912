SPECIFICATION Spec
CONSTANTS
  MaxAttempts = 3
  Sweeps = TRUE
INVARIANT NoSilentEnd
