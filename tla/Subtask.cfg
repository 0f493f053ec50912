SPECIFICATION Spec
CONSTANTS
  Subtasks = {s1, u1}
  Unusable = {u1}
  Calls = {c1, c2}
  NoOne = NoOne
  MaxTurns = 2
  MaxChunks = 2
  MaxAttempts = 2
  MaxFaults = 1
SYMMETRY CallSymmetry
INVARIANTS BranchSettlesRow CanceledLeavesNoChild
PROPERTIES RowSettlesOnce CheckpointKept
