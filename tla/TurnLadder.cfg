SPECIFICATION Spec
CONSTANTS
  Task = "task"
  Blank = "blank"
  MaxTurns = 2
  LastRound = 2
  MaxRepairs = 1
  Words = {"w1", "w2"}
  Joined = "joined"
  Others = {"older"}
  Pasts <- MCPasts
  Endings <- MCEndings
INVARIANTS ShownOnce QuotesWhatWasMarked EndsHonestly
PROPERTY IsRound
