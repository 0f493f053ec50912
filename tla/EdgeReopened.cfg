SPECIFICATION EdgeSpec
CONSTANTS
  MaxAttempts = 2
  Sweeps = TRUE
  Dispatches = {d1, d2}
PROPERTY TerminalNeverLeft
