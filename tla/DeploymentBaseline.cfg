SPECIFICATION Spec
CONSTANTS
  Keys = {"a", "b"}
  Families = {"fa", "fb"}
  Needs = {"secret"}
  Models = {"m1", "m2", "m3"}
  Souls = {"soul"}
  Params = {"p", "q"}
  Values = {"id", "junk"}
  MaxRetries = 4
  Headroom = 10
  None = None
  Available <- MCAvailable
  Offered <- MCOffered
  MaxDeploys = 2
  MaxFaults = 2
PROPERTIES BaselineFreeToMove
