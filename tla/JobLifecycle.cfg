SPECIFICATION FairSpec
CONSTANTS
  Keys = {"run", "watch", "other"}
  RepairDelay = 1
  JobTimeout = 1
  StaleMs = 1
  WatchMs = 1
  ArmCooldown = 2
  LastStart = 2
  LastMoment = 5
INVARIANTS AlarmCovers WatchKept
PROPERTIES VerdictIsOfNewest LiveRunKept JobSettles
