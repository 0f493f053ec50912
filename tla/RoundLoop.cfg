SPECIFICATION FairSpec
CONSTANTS
  MaxTurns = 2
  Words = {w1, w2}
  Nobody = Nobody
  Calls = {c1, c2}
  MaxAttempts = 2
  MaxFaults = 1
INVARIANTS RowsAreAcknowledged SpendBounded ExhaustedOnlyIfFree
PROPERTIES AnswerStands NothingAfterCancel RoundsEnd IsDeliverysLoop
