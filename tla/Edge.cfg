SPECIFICATION EdgeFairSpec
CONSTANTS
  MaxAttempts = 3
  Sweeps = TRUE
  Dispatches = {d1, d2}
INVARIANTS OneVerdict EndedIsTold
PROPERTIES CanceledIsFinal AcceptedTurnEnds KeepsPromiseUntilLate
