SPECIFICATION FairSpec
CONSTANTS
  Tools = {t1, t2}
  MaxTurns = 2
  MaxWall = 1
  HistoryWindow = 2
  ToolOutputWindow = 1
  MaxChunks = 2
  MaxAttempts = 2
  MaxFaults = 1
INVARIANTS TurnsBounded ChunksSuffice LateBounded NoBogusFailure LatestViewKept
PROPERTIES RunEnds RunsAsBranch
